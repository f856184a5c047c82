----------------------------- MODULE SelectLoop -----------------------------
(***************************************************************************)
(* The main loop of the metadata server (ser/ser.c) and the connections of *)
(* drw processes that it serves (ser/con_cli.c): start, accept, packets in *)
(* pieces, replies, close.  The handler of the dats' connections           *)
(* (ser/con_dat.c) is here for what the two share: the list of handlers,   *)
(* the fd_sets and the descriptors.                                        *)
(*                                                                         *)
(* Streams are counted in words of four bytes; type and size of a packet   *)
(* are one word each.  A drw sends a request when it has read the answer   *)
(* to the one before, so that there is at most one on a connection.  What  *)
(* a handler does is in SerFs and SerDat; here it puts the answer into the *)
(* queue, or refuses the packet.  Memory does not run out.                 *)
(***************************************************************************)
EXTENDS Naturals, Sequences, FiniteSets

CONSTANTS
  Conns,          \* connections that drw processes make
  Fds,            \* descriptors for connections
  WordBits,       \* bits in a word of an fd_set; the sockets that listen
                  \* are in the first one
  Requests,       \* a request: the size of its data, and whether its type
                  \* and size are what a handler expects
  MaxPacketSize,
  ReplySize,      \* words in an answer
  MaxDats,        \* bound: dats connected at a time
  Leavers         \* bound: connections that a drw may close

ASSUME FdsAssumption == Fds \subseteq Nat \ {0} /\ WordBits \in Nat \ {0}
ASSUME RequestsAssumption == Requests \subseteq [size : Nat, known : BOOLEAN]
ASSUME SizesAssumption == ReplySize \in Nat \ {0} /\ MaxPacketSize \in Nat /\ MaxDats \in Nat
ASSUME LeaversAssumption == Leavers \subseteq Conns

VARIABLES
  selhead,     \* the handlers that the loop calls, a sequence
  aux,         \* what drw_thread and dat_thread are registering
  loop,        \* where the main thread is, and its variables
  cli_info,    \* the list cli_info_head, a sequence of connections
  info,        \* the cli_info of each connection
  backlog,     \* connections that are not accepted yet
  used,        \* descriptors of the process
  dats,        \* those of them that lead to dats
  dead,        \* dats that have closed; receive_thread may have marked them
  datKnocks,   \* a dat waits to be accepted
  drw,         \* the other ends: open or not, the last request, and the
               \* words in the socket in each direction
  talk         \* history: the last request on each connection

main == <<selhead, aux>>
dat == <<dats, dead, datKnocks>>
vars == <<selhead, aux, loop, cli_info, info, backlog, used, dats, dead, datKnocks, drw, talk>>

Handlers == {"cli", "dat"}
Header == 2   \* words

NoRequest == [size |-> 0, known |-> TRUE]
Gone == [on |-> FALSE, request |-> NoRequest, up |-> 0, down |-> <<>>]

(* Nothing is left of a connection. *)
NoTalk == [no |-> 0, ran |-> 1, answer |-> 0]
Over(c) == drw' = [drw EXCEPT ![c] = Gone] /\ talk' = [talk EXCEPT ![c] = NoTalk]

ListedAt(c, i) == i \in DOMAIN cli_info /\ cli_info[i] = c
In(x, s) == \E i \in DOMAIN s : s[i] = x
Listed(c) == In(c, cli_info)
Waiting(c) == In(c, backlog)
Registered(h) == In(h, selhead)

-----------------------------------------------------------------------------
(* Start *)

(* register_cli, called by two threads at once: the head of the list is     *)
(* read, and replaced.                                                      *)
RegisterRead(h) ==
  /\ aux[h].pc = "start"
  /\ aux' = [aux EXCEPT ![h] = [pc |-> "link", next |-> selhead]]
  /\ UNCHANGED <<selhead, loop, cli_info, info, backlog, used, dat, drw, talk>>

RegisterLink(h) ==
  /\ aux[h].pc = "link"
  /\ aux' = [aux EXCEPT ![h] = [pc |-> "done", next |-> <<>>]]
  /\ selhead' = <<h>> \o aux[h].next
  /\ UNCHANGED <<loop, cli_info, info, backlog, used, dat, drw, talk>>

-----------------------------------------------------------------------------
(* A turn of loopser *)

Readable(c) == drw[c].up > 0 \/ ~drw[c].on

(* Fault: the comparison of line 67 is turned round. *)
FaultCliMax ==
  IF cli_info = <<>> THEN 0
  ELSE CHOOSE m \in {info[cli_info[i]].sock : i \in DOMAIN cli_info} :
         \A i \in DOMAIN cli_info : m <= info[cli_info[i]].sock

(* cli_desc: its return value, the largest descriptor that select looks at. *)
(* A socket with something to write lowers it.                              *)
CliMax ==
  LET max[i \in 0 .. Len(cli_info)] ==
        IF i = 0 THEN 0
        ELSE LET it == info[cli_info[i]]
                 m  == IF it.sock > max[i - 1] THEN it.sock ELSE max[i - 1]
             IN IF it.out # <<>> /\ it.sock < m THEN it.sock ELSE m
  IN max[Len(cli_info)]

(* select looks at fd: it is not above what a handler returned. *)
Seen(fd) == \/ Registered("cli") /\ fd <= CliMax
            \/ Registered("dat") /\ \E d \in dats : fd <= d

(* select answers for whole words of the fd_sets, up to the word of its     *)
(* limit.  A bit that a handler has set in a word above stays set.          *)
WordAbove(fd, limit) == \E k \in 1 .. fd : limit < k * WordBits /\ k * WordBits <= fd
Kept(fd) == /\ Registered("cli") => WordAbove(fd, CliMax)
            /\ Registered("dat") => \A d \in dats : WordAbove(fd, d)

(* The descs of all handlers, and select.  Nobody but the loop changes what *)
(* they look at; a handler that is registered meanwhile finds no bit set.   *)
(* A turn in which no bit is set has no effect.                             *)
Select ==
  /\ loop.pc = "select"
  /\ LET mine   == {c \in Conns : Listed(c) /\ Registered("cli")}
         found  == {c \in mine : Seen(info[c].sock) /\ Readable(c)}
         kept   == {c \in mine : Kept(info[c].sock)}
         theirs == {d \in dead : Registered("dat") /\ Seen(d)}
         rset   == {info[c].sock : c \in found \cup kept} \cup theirs
         able   == {c \in mine : Seen(info[c].sock)} \cup kept
         wset   == {info[c].sock : c \in {c \in able : info[c].out # <<>>}}
         knocks == {h \in Handlers : /\ Registered(h)
                                     /\ IF h = "cli" THEN backlog # <<>> ELSE datKnocks}
     IN /\ rset # {} \/ wset # {} \/ knocks # {}
        /\ loop' = [pc |-> "serve", todo |-> selhead, at |-> 1, rset |-> rset,
                    wset |-> wset, knocks |-> knocks, closed |-> {}]
  /\ UNCHANGED <<main, cli_info, info, backlog, used, dat, drw, talk>>

Serves(h) == loop.pc = "serve" /\ loop.todo # <<>> /\ Head(loop.todo) = h

(* The next handler is called, or the turn ends. *)
NextHandler ==
  IF Len(loop.todo) > 1
  THEN [loop EXCEPT !.pc = "serve", !.todo = Tail(@), !.at = 1]
  ELSE [pc |-> "select", todo |-> <<>>, at |-> 1, rset |-> {}, wset |-> {},
        knocks |-> {}, closed |-> {}]

(* accept takes the lowest descriptor that is free. *)
Lowest(fd) == fd \in Fds \ used /\ \A g \in Fds \ used : fd <= g

(* Without a descriptor accept fails, and the process with it. *)
AcceptFails(h) ==
  /\ Serves(h) /\ h \in loop.knocks /\ Fds \subseteq used
  /\ loop' = [loop EXCEPT !.pc = "exit"]
  /\ UNCHANGED <<main, cli_info, info, backlog, used, dat, drw, talk>>

(* Fault: the socket is shut down and not closed. *)
FaultClosed(open, fds) == open

(* tcpclose. *)
Closed(open, fds) == open \ fds

(* dat_serv: it accepts, and then closes what receive_thread has marked.    *)
ServeDats ==
  /\ Serves("dat")
  /\ \E new \in SUBSET Fds, gone \in SUBSET dead :
       /\ IF "dat" \in loop.knocks THEN \E fd \in Fds : Lowest(fd) /\ new = {fd}
                                   ELSE new = {}
       /\ dats' = (dats \cup new) \ gone /\ used' = Closed(used \cup new, gone)
       /\ dead' = dead \ gone
       /\ datKnocks' = (datKnocks /\ new = {})
       /\ loop' = [NextHandler EXCEPT !.closed = IF NextHandler.pc = "serve" THEN gone ELSE {}]
  /\ UNCHANGED <<main, cli_info, info, backlog, drw, talk>>

-----------------------------------------------------------------------------
(* cli_serv *)

NewInfo(fd) == [sock |-> fd, mode |-> "HEADER", got |-> 0, bytes |-> Header, out |-> <<>>]

Accept ==
  /\ Serves("cli") /\ "cli" \in loop.knocks
  /\ \E fd \in Fds :
       /\ Lowest(fd)
       /\ info' = [info EXCEPT ![Head(backlog)] = NewInfo(fd)]
       /\ used' = used \cup {fd}
  /\ cli_info' = <<Head(backlog)>> \o cli_info
  /\ backlog' = Tail(backlog)
  /\ loop' = [loop EXCEPT !.pc = "conns"]
  /\ UNCHANGED <<main, dat, drw, talk>>

NoAccept ==
  /\ Serves("cli") /\ "cli" \notin loop.knocks
  /\ loop' = [loop EXCEPT !.pc = "conns"]
  /\ UNCHANGED <<main, cli_info, info, backlog, used, dat, drw, talk>>

(* Fault: the bit is not looked at. *)
FaultReadies(c) == info[c].mode # "KILL"

(* The tests of the loop over cli_info_head. *)
Readies(c) == info[c].sock \in loop.rset /\ info[c].mode # "KILL"
Writable(c) == info[c].sock \in loop.wset /\ info[c].mode # "KILL"

(* The loop over cli_info_head comes to c, at place i, and finds a bit set. *)
Comes(c, i) ==
  /\ loop.pc = "conns" /\ i >= loop.at /\ ListedAt(c, i)
  /\ Readies(c) \/ Writable(c)
  /\ \A k \in loop.at .. i - 1 : ~Readies(cli_info[k]) /\ ~Writable(cli_info[k])
Onward(i) == loop' = [loop EXCEPT !.at = i + 1]

(* If both bits are set, drw has left, and c is not written to after the    *)
(* read.                                                                    *)
Reads(c, i) == Comes(c, i) /\ Readies(c)
Writes(c, i) == Comes(c, i) /\ ~Readies(c)

(* What a connection marked KILL has read, or would write, is of no use.    *)
Killed(c) == [info EXCEPT ![c] = [NewInfo(@.sock) EXCEPT !.mode = "KILL"]]

(* Fault: at the end of file nothing is done. *)
FaultReadFails(c, i) ==
  /\ Reads(c, i) /\ Onward(i)
  /\ drw[c].up = 0 /\ ~drw[c].on
  /\ UNCHANGED <<main, cli_info, info, backlog, used, dat, drw, talk>>

(* read_from_cli: end of file, or an error. *)
ReadFails(c, i) ==
  /\ Reads(c, i) /\ Onward(i)
  /\ drw[c].up = 0 /\ ~drw[c].on
  /\ info' = Killed(c)
  /\ UNCHANGED <<main, cli_info, backlog, used, dat, drw, talk>>

(* analyze_cli_packet: the handler is called, with the words read so far.   *)
(* The next packet is waited for, and the answer put into the queue.  The   *)
(* packet is refused if its type is unknown, or if its size is not what the *)
(* handler expects; handlers that do not look at the size (con_cli.c:315-   *)
(* 377, 419-490) get none from drw that they should refuse.                 *)
Analyze(c, got) ==
  LET it   == info[c]
      next == [it EXCEPT !.mode = "HEADER", !.got = 0, !.bytes = Header]
  IN IF drw[c].request.known
     THEN /\ info' = [info EXCEPT ![c] =
                        [next EXCEPT !.out = Append(@, [no |-> talk[c].no, bytes |-> ReplySize])]]
          /\ talk' = [talk EXCEPT ![c].ran =
                        IF got = Header + drw[c].request.size THEN @ + 1 ELSE 2]
     ELSE info' = Killed(c) /\ UNCHANGED talk

(* Fault: the type word is taken for the size. *)
FaultSizeRead(c, got) == IF got = Header THEN 1 ELSE 0

(* The size word, if it is where it should be. *)
SizeRead(c, got) == IF got = Header THEN drw[c].request.size ELSE 0

(* read_from_cli, when read returns n words. *)
ReadWords(c, i, n) ==
  LET it   == info[c]
      got  == it.got + n
      size == SizeRead(c, got)
  IN
  /\ Reads(c, i) /\ Onward(i)
  /\ n <= it.bytes /\ n <= drw[c].up
  /\ drw' = [drw EXCEPT ![c].up = @ - n]
  /\ \/ /\ n < it.bytes
        /\ info' = [info EXCEPT ![c].got = got, ![c].bytes = @ - n]
        /\ UNCHANGED talk
     \/ /\ n = it.bytes /\ it.mode = "HEADER" /\ size > MaxPacketSize
        /\ info' = Killed(c) /\ UNCHANGED talk
     \/ /\ n = it.bytes /\ it.mode = "HEADER" /\ size \in 1 .. MaxPacketSize
        /\ info' = [info EXCEPT ![c].got = got, ![c].bytes = size, ![c].mode = "DATA"]
        /\ UNCHANGED talk
     \/ n = it.bytes /\ (it.mode = "DATA" \/ size = 0) /\ Analyze(c, got)
  /\ UNCHANGED <<main, cli_info, backlog, used, dat>>

(* Fault: a packet leaves the queue only if one write took all of it. *)
FaultRest(out, n) ==
  IF n = ReplySize THEN Tail(out)
  ELSE <<[Head(out) EXCEPT !.bytes = @ - n]>> \o Tail(out)

(* What the queue holds when n words of its first packet are written. *)
Rest(out, n) ==
  IF n = Head(out).bytes THEN Tail(out)
  ELSE <<[Head(out) EXCEPT !.bytes = @ - n]>> \o Tail(out)

(* write_to_cli. *)
WriteWords(c, i, n) ==
  /\ Writes(c, i) /\ Onward(i) /\ info[c].out # <<>>
  /\ n <= Head(info[c].out).bytes
  /\ info' = [info EXCEPT ![c].out = Rest(@, n)]
  /\ drw' = IF drw[c].on
            THEN [drw EXCEPT ![c].down = @ \o [k \in 1 .. n |-> Head(info[c].out).no]]
            ELSE drw
  /\ UNCHANGED <<main, cli_info, backlog, used, dat, talk>>

WriteFails(c, i) ==
  /\ Writes(c, i) /\ Onward(i) /\ ~drw[c].on
  /\ info' = Killed(c)
  /\ UNCHANGED <<main, cli_info, backlog, used, dat, drw, talk>>

(* The loop over cli_info_head is at its end. *)
AtEnd == /\ loop.pc = "conns"
         /\ \A k \in loop.at .. Len(cli_info) :
              ~Readies(cli_info[k]) /\ ~Writable(cli_info[k])

(* The second loop of cli_serv: connections marked KILL are closed. *)
Reap(i) ==
  /\ AtEnd
  /\ i \in DOMAIN cli_info /\ info[cli_info[i]].mode = "KILL"
  /\ used' = Closed(used, {info[cli_info[i]].sock})
  /\ cli_info' = [k \in 1 .. Len(cli_info) - 1 |->
                    IF k < i THEN cli_info[k] ELSE cli_info[k + 1]]
  /\ info' = [info EXCEPT ![cli_info[i]] = NewInfo(0)]
  /\ LET c == cli_info[i]
     IN IF drw[c].on THEN drw' = [drw EXCEPT ![c].up = 0] /\ UNCHANGED talk
                     ELSE Over(c)
  /\ UNCHANGED <<main, loop, backlog, dat>>

CliServed ==
  /\ AtEnd
  /\ \A i \in DOMAIN cli_info : info[cli_info[i]].mode # "KILL"
  /\ loop' = NextHandler
  /\ UNCHANGED <<main, cli_info, info, backlog, used, dat, drw, talk>>

-----------------------------------------------------------------------------
(* The drw processes, their sockets, and the dats *)

(* A connection is made when nothing is left of the one before. *)
Connect(c) ==
  /\ ~drw[c].on /\ ~Listed(c) /\ ~Waiting(c)
  /\ drw' = [drw EXCEPT ![c].on = TRUE]
  /\ backlog' = Append(backlog, c)
  /\ UNCHANGED <<main, loop, cli_info, info, used, dat, talk>>

(* The server has closed the connection. *)
Cut(c) == drw[c].on /\ ~Listed(c) /\ ~Waiting(c)

(* fs_sendandreceive writes a packet. *)
Ask(c) ==
  /\ drw[c].on /\ ~Cut(c) /\ talk[c].answer # 2
  /\ \E r \in Requests :
       drw' = [drw EXCEPT ![c].request = r, ![c].up = Header + r.size]
  /\ talk' = [talk EXCEPT ![c] = [no |-> 1 - @.no, ran |-> 0, answer |-> 2]]
  /\ UNCHANGED <<main, loop, cli_info, info, backlog, used, dat>>

(* receive_thread of drw has read an answer: all of it belongs to one       *)
(* request, or the answer is wrong.                                         *)
Receive(c) ==
  /\ drw[c].on /\ talk[c].answer = 2 /\ Len(drw[c].down) >= ReplySize
  /\ talk' = [talk EXCEPT ![c].answer =
                IF \A i \in 1 .. ReplySize : drw[c].down[i] = talk[c].no
                THEN talk[c].no ELSE 1 - talk[c].no]
  /\ drw' = [drw EXCEPT ![c].down = SubSeq(@, ReplySize + 1, Len(@)),
                         ![c].request = NoRequest]
  /\ UNCHANGED <<main, loop, cli_info, info, backlog, used, dat>>

(* A drw closes its socket or dies; what it has sent may be lost with it. *)
Leave(c) ==
  /\ drw[c].on /\ c \in Leavers
  /\ IF Cut(c) THEN Over(c)
     ELSE /\ \E up \in {0, drw[c].up} :
               drw' = [drw EXCEPT ![c].on = FALSE, ![c].up = up, ![c].down = <<>>]
          /\ UNCHANGED talk
  /\ UNCHANGED <<main, loop, cli_info, info, backlog, used, dat>>

DatConnects ==
  /\ ~datKnocks /\ Cardinality(dats) < MaxDats
  /\ datKnocks' = TRUE
  /\ UNCHANGED <<main, loop, cli_info, info, backlog, used, dats, dead, drw, talk>>

DatDies ==
  /\ \E fd \in dats \ dead : dead' = dead \cup {fd}
  /\ UNCHANGED <<main, loop, cli_info, info, backlog, used, dats, datKnocks, drw, talk>>

-----------------------------------------------------------------------------
Init ==
  /\ selhead = <<>> /\ aux = [h \in Handlers |-> [pc |-> "start", next |-> <<>>]]
  /\ loop = [pc |-> "select", todo |-> <<>>, at |-> 1, rset |-> {}, wset |-> {},
             knocks |-> {}, closed |-> {}]
  /\ cli_info = <<>> /\ info = [c \in Conns |-> NewInfo(0)]
  /\ backlog = <<>> /\ used = {} /\ dats = {} /\ dead = {} /\ datKnocks = FALSE
  /\ drw = [c \in Conns |-> Gone]
  /\ talk = [c \in Conns |-> NoTalk]

Words == 1 .. Header + ReplySize + MaxPacketSize   \* bound: of one read or write

CliServ == \/ Accept \/ NoAccept \/ CliServed
           \/ \E i \in DOMAIN cli_info :
                \/ Reap(i)
                \/ \E c \in Conns : \/ ReadFails(c, i) \/ WriteFails(c, i)
                                    \/ \E n \in Words : ReadWords(c, i, n) \/ WriteWords(c, i, n)
Loop == Select \/ ServeDats \/ CliServ \/ \E h \in Handlers : AcceptFails(h)
Register(h) == RegisterRead(h) \/ RegisterLink(h)
Drw(c) == Connect(c) \/ Ask(c) \/ Receive(c) \/ Leave(c)
Dat == DatConnects \/ DatDies

Next == \/ Loop \/ Dat \/ \E h \in Handlers : Register(h)
        \/ \E c \in Conns : Drw(c)

(* The threads of ser are scheduled, and a drw that waits for an answer     *)
(* reads it.                                                                *)
Fairness == /\ WF_vars(Loop)
            /\ \A h \in Handlers : WF_vars(Register(h))
            /\ \A c \in Conns : WF_vars(Receive(c))

Spec == Init /\ [][Next]_vars
FairSpec == Spec /\ Fairness

-----------------------------------------------------------------------------
Infos == [sock : Fds \cup {0}, mode : {"KILL", "HEADER", "DATA"}, got : Nat, bytes : Nat \ {0},
          out : Seq([no : 0 .. 1, bytes : Nat \ {0}])]
Drws == [on : BOOLEAN, request : [size : Nat, known : BOOLEAN], up : Nat, down : Seq(0 .. 1)]
Loops == [pc : {"select", "serve", "conns", "exit"}, todo : Seq(Handlers), at : Nat,
          rset : SUBSET Fds, wset : SUBSET Fds, knocks : SUBSET Handlers, closed : SUBSET Fds]

(* Every variable has a value of its kind.  In particular the loop never    *)
(* asks for a read or a write of nothing, whose result it would take for    *)
(* the end of the connection (con_cli.c:550, 643).                          *)
TypeOK ==
  /\ selhead \in Seq(Handlers)
  /\ aux \in [Handlers -> [pc : {"start", "link", "done"}, next : Seq(Handlers)]]
  /\ loop \in Loops
  /\ cli_info \in Seq(Conns) /\ backlog \in Seq(Conns)
  /\ info \in [Conns -> Infos]
  /\ used \subseteq Fds /\ dats \subseteq Fds /\ dead \subseteq Fds /\ datKnocks \in BOOLEAN
  /\ drw \in [Conns -> Drws]
  /\ talk \in [Conns -> [no : 0 .. 1, ran : 0 .. 2, answer : 0 .. 2]]

Abstract == INSTANCE Exchanges

(* However packets are cut into pieces and connections come and go, a       *)
(* request is run at most once, when all of it is there, and the answer     *)
(* that a drw reads is the answer to its request, from its first word to    *)
(* its last (con_cli.c:537-659).                                            *)
ExchangesInOrder == Abstract!Spec

(* Each descriptor of the process belongs to one connection in a list, so   *)
(* that the exit after a failed accept (con_cli.c:674) means that as many   *)
(* connections are open.                                                    *)
DescriptorsHaveOwners ==
  /\ used = dats \cup {info[c].sock : c \in {c \in Conns : Listed(c)}}
  /\ \A c \in Conns : Listed(c) => /\ info[c].sock \notin dats
                                   /\ \A d \in Conns \ {c} : Listed(d) => info[d].sock # info[c].sock

(* The loop is in a read for which there is nothing to read. *)
Blind(c) == /\ \E i \in DOMAIN cli_info : Reads(c, i)
            /\ drw[c].up = 0 /\ drw[c].on

(* The sockets are blocking, and the loop reads from those alone that       *)
(* select found readable, with two exceptions: a connection accepted in     *)
(* this turn (con_cli.c:671) has the descriptor of a dat that was closed in *)
(* this turn (con_dat.c:346), and a descriptor outside the first word of    *)
(* the fd_set (from 64 on) keeps its bit when the limit is lowered          *)
(* (con_cli.c:74).                                                          *)
Excused(c) == info[c].sock \in loop.closed \/ info[c].sock >= WordBits
BlindOnlyIfExcused == \A c \in Conns : Blind(c) => Excused(c)

(* One of the two registrations was lost, or the process has ended, or the  *)
(* loop waits for a drw.                                                    *)
Stuck == \/ aux["cli"].pc = "done" /\ ~Registered("cli")
         \/ loop.pc = "exit"
         \/ \E c \in Conns : Blind(c)

(* A drw that stays gets its answer, or is cut off, although select is      *)
(* given a limit that may be too low (con_cli.c:74), unless the server is   *)
(* stuck.                                                                   *)
RequestsAreAnswered ==
  \A c \in Conns : talk[c].answer = 2 ~> (talk[c].answer # 2 \/ ~drw[c].on \/ Cut(c) \/ Stuck)

(* The loop comes to every connection that drw has left, and frees it.      *)
LeftAreFreed ==
  \A c \in Conns : ~drw[c].on ~> (drw[c].on \/ ~(Listed(c) \/ Waiting(c)) \/ Stuck)
-----------------------------------------------------------------------------
(* The inductive invariant behind the safety properties. *)

Distinct(s) == \A i, j \in DOMAIN s : s[i] = s[j] => i = j

(* A handler is registered once, and called once in a turn. *)
HandlersInv ==
  /\ Distinct(selhead) /\ Distinct(loop.todo)
  /\ \A h \in Handlers :
       /\ Registered(h) => aux[h].pc = "done"
       /\ Distinct(aux[h].next)
       /\ \A g \in Handlers : In(g, aux[h].next) => aux[g].pc = "done"

(* A connection is in one list, at one place. *)
ListsInv ==
  /\ Distinct(cli_info) /\ Distinct(backlog)
  /\ \A c \in Conns : IF Listed(c) THEN info[c].sock \in Fds /\ ~Waiting(c)
                                   ELSE info[c] = NewInfo(0)
  /\ dead \subseteq dats

ToCome(h) == loop.pc = "serve" /\ In(h, loop.todo)

(* What the loop found in this turn still holds where it has not been yet,  *)
(* but for descriptors that were closed in this turn, or are high.          *)
TurnInv ==
  /\ loop.pc = "conns" => loop.todo # <<>> /\ Head(loop.todo) = "cli"
  /\ ToCome("cli") => /\ "cli" \in loop.knocks => backlog # <<>>
                      /\ loop.rset \subseteq used \cup loop.closed
                      /\ loop.at = 1
  /\ In("dat", loop.todo) => loop.closed = {}
  /\ ToCome("cli") \/ loop.pc = "conns" =>
       \A i \in DOMAIN cli_info :
         i >= loop.at /\ Readies(cli_info[i]) =>
           Readable(cli_info[i]) \/ Excused(cli_info[i])

Awaiting(c) == talk[c].answer = 2
Fresh(it) == it.mode # "DATA" /\ it.got = 0 /\ it.bytes = Header

(* The words that are under way on a connection are those of one request,   *)
(* or of the answer to it.                                                  *)
RequestUnderWay(c) ==
  LET it == info[c] IN
  /\ it.mode = "HEADER" => it.got + it.bytes = Header
  /\ it.mode = "DATA" => /\ Awaiting(c) /\ talk[c].ran = 0
                         /\ it.got + it.bytes = Header + drw[c].request.size
  /\ drw[c].up # 0 /\ it.mode # "KILL" =>
       /\ Awaiting(c) /\ talk[c].ran = 0
       /\ it.got + drw[c].up = Header + drw[c].request.size
  /\ it.mode = "KILL" => Fresh(it) /\ it.out = <<>>

AnswerUnderWay(c) ==
  LET out == info[c].out  down == drw[c].down  no == talk[c].no IN
  /\ Awaiting(c) /\ talk[c].ran = 0 => out = <<>> /\ down = <<>>
  /\ drw[c].on /\ Awaiting(c) /\ talk[c].ran = 1 =>
       /\ Listed(c) /\ info[c].mode = "HEADER" /\ Fresh(info[c])
       /\ \A i \in DOMAIN down : down[i] = no
       /\ \/ out = <<>> /\ Len(down) = ReplySize
          \/ /\ Len(out) = 1 /\ out[1].no = no
             /\ out[1].bytes + Len(down) = ReplySize

ConnectionInv(c) ==
  /\ RequestUnderWay(c) /\ AnswerUnderWay(c)
  /\ talk[c].ran # 2
  /\ drw[c].on /\ ~Awaiting(c) =>
       drw[c].up = 0 /\ drw[c].down = <<>> /\ Fresh(info[c]) /\ info[c].out = <<>>
  /\ ~drw[c].on => /\ drw[c].down = <<>>
                   /\ Listed(c) \/ Waiting(c) \/ (drw[c] = Gone /\ talk[c] = NoTalk)

IInv == /\ TypeOK /\ HandlersInv /\ ListsInv /\ TurnInv /\ DescriptorsHaveOwners
        /\ \A c \in Conns : ConnectionInv(c)
=============================================================================
