------------------------------- MODULE SerDat -------------------------------
(***************************************************************************)
(* How the metadata server has its data servers create chunks              *)
(* (ser/con_dat.c, ser/chunks.c) and how a data server answers             *)
(* (dat/con_ser.c, create_file of dat/mgr_hd.c).                           *)
(*                                                                         *)
(* Three kinds of process.  The select loop of ser accepts data servers,   *)
(* sends them requests and frees the connections marked KILL.  The thread  *)
(* receive_thread walks the same list of connections, without a lock, in   *)
(* blocking reads.  The receive thread of each dat creates the file and    *)
(* answers.  The mutex sock_lock is taken by the select loop before a      *)
(* request and given back by receive_thread when it reads the answer.      *)
(*                                                                         *)
(* Abstractions.  An Info is the memory of a dat_info: malloc may hand it  *)
(* out again after a free, while receive_thread still points to it; what   *)
(* is in freed memory, and in memory that is not set yet, is anybody's     *)
(* guess, and ser goes on with it or dies of it (Restart).  A connection   *)
(* is its Info and the dat whose peer it is; a dat connects and tcpaccept  *)
(* returns in one step, for it has nothing to send in between.             *)
(* All processes run on one host, so a link breaks only when one of its    *)
(* ends dies or closes it.  The heartbeat, disabled in dat, is left out.   *)
(***************************************************************************)
EXTENDS Naturals, Sequences, FiniteSets

CONSTANTS
  Dats,      \* the data servers
  Infos,     \* the memory for dat_info structures
  NULL,      \* the null pointer; for a dat, no socket
  Lost,      \* for a dat, a socket whose other end is closed
  MaxChunk   \* bound: the largest chunk id given out

ASSUME NullAssumption == NULL \notin Infos /\ Lost \notin Infos /\ NULL # Lost
ASSUME MaxChunkAssumption == MaxChunk \in Nat

VARIABLES
  (* the select loop of ser *)
  next_chunkid,
  waiting,        \* the Info send_chunkid locks sock_lock for, or NULL
  accepting,      \* the Info dat_serv has put on the list and not yet set
  (* shared in ser *)
  dat_info_head,
  next,           \* the next pointers of the Infos
  live,           \* the Infos that are allocated
  mode,           \* "HEADER", "DATA" or "KILL"
  sock_lock,      \* sock_lock is held
  dat_errors,
  received,       \* the answers in the receive buffer of an Info's socket
  (* receive_thread of ser *)
  info,           \* its place in the list, NULL while it sleeps
  reading,        \* "no", "yes" in read(2), "stray" in read(2) on a socket
                  \* that is not, or no longer, the Info's, "done" after it
  (* the data servers *)
  peer,           \* the Info at the other end of a dat's socket
  inbox,          \* requests in the receive buffer of a dat's socket
  answer,         \* <<status>> between create_file and the reply, else <<>>
  files,          \* the chunk files a dat holds
  (* history, since ser was started *)
  crashed,        \* some dat died
  met             \* receive_thread read from an Info that was not yet set

loop == <<next_chunkid, waiting, accepting>>
list == <<dat_info_head, next, live>>
dats == <<peer, inbox, answer, files>>
vars == <<next_chunkid, waiting, accepting, dat_info_head, next, live, mode, sock_lock,
          dat_errors, received, info, reading, peer, inbox, answer, files, crashed, met>>

(* The initial value of next_chunkid. *)
FirstChunk == 11

Modes == {"HEADER", "DATA", "KILL"}

IsLinked(i) == \E d \in Dats : peer[d] = i

-----------------------------------------------------------------------------
(* The select loop.  While it waits for sock_lock, or is within dat_serv's  *)
(* handling of a new connection, it does nothing else.                      *)

Looping == waiting = NULL /\ accepting = NULL

(* dat_serv: a new connection goes to the head of the list, where           *)
(* receive_thread can see it, although only its next pointer is set.        *)
AcceptLink(d, i) ==
  /\ Looping
  /\ peer[d] = NULL
  /\ i \notin live
  /\ live' = live \cup {i}
  /\ next' = [next EXCEPT ![i] = dat_info_head]
  /\ dat_info_head' = i
  /\ \E garbage \in Modes : mode' = [mode EXCEPT ![i] = garbage]
  /\ peer' = [peer EXCEPT ![d] = i]
  /\ accepting' = i
  /\ UNCHANGED <<next_chunkid, waiting, sock_lock, dat_errors, received, info, reading,
                 inbox, answer, files, crashed, met>>

(* The rest of it: socket, mode and packet of the new connection. *)
AcceptInit ==
  /\ accepting # NULL
  /\ mode' = [mode EXCEPT ![accepting] = "HEADER"]
  /\ accepting' = NULL
  /\ UNCHANGED <<next_chunkid, waiting, list, sock_lock, dat_errors, received, info, reading,
                 dats, crashed, met>>

(* Fault: connections are freed also while the loop waits for sock_lock. *)
ReapWhileWaiting(i) ==
  /\ i \in live /\ mode[i] = "KILL" /\ i = dat_info_head
  /\ live' = live \ {i}
  /\ dat_info_head' = next[i]
  /\ received' = [received EXCEPT ![i] = <<>>]
  /\ reading' = IF info = i /\ reading = "yes" THEN "stray" ELSE reading
  /\ peer' = [d \in Dats |-> IF peer[d] = i THEN Lost ELSE peer[d]]
  /\ UNCHANGED <<loop, next, mode, sock_lock, dat_errors, info, inbox, answer, files, crashed, met>>

(* Fault: an Info behind the head is freed but not taken out of the list. *)
ReapUnlinked(i) ==
  /\ Looping
  /\ i \in live /\ mode[i] = "KILL"
  /\ live' = live \ {i}
  /\ dat_info_head' = IF i = dat_info_head THEN next[i] ELSE dat_info_head
  /\ received' = [received EXCEPT ![i] = <<>>]
  /\ reading' = IF info = i /\ reading = "yes" THEN "stray" ELSE reading
  /\ peer' = [d \in Dats |-> IF peer[d] = i THEN Lost ELSE peer[d]]
  /\ UNCHANGED <<loop, next, mode, sock_lock, dat_errors, info, inbox, answer, files, crashed, met>>

(* dat_serv: one turn of the loop that closes and frees what is marked KILL. *)
(* A read that is blocked on the socket keeps it until it returns.  What the *)
(* freed Info holds does not count any more.                                 *)
Reap(i) ==
  /\ Looping
  /\ i \in live /\ mode[i] = "KILL"
  /\ live' = live \ {i}
  /\ \/ /\ i = dat_info_head
        /\ dat_info_head' = next[i]
        /\ next' = [next EXCEPT ![i] = NULL]
     \/ /\ i # dat_info_head
        /\ \E pre_info \in live :
             /\ next[pre_info] = i
             /\ next' = [next EXCEPT ![pre_info] = next[i], ![i] = NULL]
        /\ UNCHANGED dat_info_head
  /\ received' = [received EXCEPT ![i] = <<>>]
  /\ reading' = IF info = i /\ reading = "yes" THEN "stray" ELSE reading
  /\ peer' = [d \in Dats |-> IF peer[d] = i THEN Lost ELSE peer[d]]
  /\ UNCHANGED <<loop, mode, sock_lock, dat_errors, info, inbox, answer, files, crashed, met>>

(* create_new_chunk: only the head of the list is considered.  The id is    *)
(* taken before send_chunkid waits for sock_lock.                           *)
CreateChunk ==
  /\ Looping
  /\ dat_info_head # NULL /\ mode[dat_info_head] # "KILL"
  /\ next_chunkid < MaxChunk
  /\ next_chunkid' = next_chunkid + 1
  /\ waiting' = dat_info_head
  /\ UNCHANGED <<accepting, list, mode, sock_lock, dat_errors, received, info, reading, dats, crashed, met>>

(* send_chunkid: a write to a socket whose other end is gone is accepted by *)
(* the kernel and lost, or fails, or ends ser with SIGPIPE (see Restart).   *)
SendChunk ==
  /\ waiting # NULL
  /\ ~sock_lock
  /\ sock_lock' = TRUE
  /\ waiting' = NULL
  /\ \/ /\ IsLinked(waiting)
        /\ inbox' = [d \in Dats |-> IF peer[d] = waiting
                                    THEN Append(inbox[d], next_chunkid) ELSE inbox[d]]
        /\ UNCHANGED mode
     \/ /\ ~IsLinked(waiting)
        /\ mode' = mode \/ mode' = [mode EXCEPT ![waiting] = "KILL"]
        /\ UNCHANGED inbox
  /\ UNCHANGED <<next_chunkid, accepting, list, dat_errors, received, info, reading,
                 peer, answer, files, crashed, met>>

-----------------------------------------------------------------------------
(* receive_thread *)

RecvWake ==
  /\ info = NULL
  /\ info' = dat_info_head
  /\ UNCHANGED <<loop, list, mode, sock_lock, dat_errors, received, reading, dats, crashed, met>>

(* An Info that is freed has any mode and descriptor, and one that is not   *)
(* yet set any descriptor and length; a stray read may return at once.      *)
RecvEnter ==
  /\ info # NULL /\ reading = "no"
  /\ \/ info \notin live /\ reading' = "stray" /\ UNCHANGED met
     \/ info \in live /\ mode[info] = "KILL" /\ reading' = "done" /\ UNCHANGED met
     \/ info \in live \ {accepting} /\ mode[info] # "KILL" /\ reading' = "yes" /\ UNCHANGED met
     \/ info = accepting /\ mode[info] # "KILL" /\ reading' = "stray" /\ met' = TRUE
  /\ UNCHANGED <<loop, list, mode, sock_lock, dat_errors, received, info, dats, crashed>>

(* Fault: the mutex is given back when the header has come. *)
RecvHeaderUnlocks ==
  /\ reading = "yes" /\ received[info] # <<>> /\ mode[info] = "HEADER"
  /\ mode' = [mode EXCEPT ![info] = "DATA"]
  /\ sock_lock' = FALSE
  /\ reading' = "done"
  /\ UNCHANGED <<loop, list, dat_errors, received, info, dats, crashed, met>>

(* read_from_dat: the first read takes the header of an answer, the next    *)
(* one, in a later turn, its data.  A connection that the select loop marks *)
(* KILL during the read has nothing to read (ReceiverShape).                *)
RecvHeader ==
  /\ reading = "yes" /\ received[info] # <<>> /\ mode[info] = "HEADER"
  /\ mode' = [mode EXCEPT ![info] = "DATA"]
  /\ reading' = "done"
  /\ UNCHANGED <<loop, list, sock_lock, dat_errors, received, info, dats, crashed, met>>

(* Fault: the mutex is given back for a success only. *)
RecvDataKeepsLock ==
  /\ reading = "yes" /\ received[info] # <<>> /\ mode[info] = "DATA"
  /\ mode' = [mode EXCEPT ![info] = "HEADER"]
  /\ received' = [received EXCEPT ![info] = Tail(@)]
  /\ dat_errors' = IF Head(received[info]) # 0 THEN dat_errors + 1 ELSE dat_errors
  /\ sock_lock' = (Head(received[info]) # 0)
  /\ reading' = "done"
  /\ UNCHANGED <<loop, list, info, dats, crashed, met>>

(* Fault: failures are not counted. *)
RecvDataUncounted ==
  /\ reading = "yes" /\ received[info] # <<>> /\ mode[info] = "DATA"
  /\ mode' = [mode EXCEPT ![info] = "HEADER"]
  /\ received' = [received EXCEPT ![info] = Tail(@)]
  /\ sock_lock' = FALSE
  /\ reading' = "done"
  /\ UNCHANGED <<loop, list, dat_errors, info, dats, crashed, met>>

(* get_dat_chunk_status: the thread unlocks what the select loop locked. *)
RecvData ==
  /\ reading = "yes" /\ received[info] # <<>> /\ mode[info] = "DATA"
  /\ mode' = [mode EXCEPT ![info] = "HEADER"]
  /\ received' = [received EXCEPT ![info] = Tail(@)]
  /\ dat_errors' = IF Head(received[info]) # 0 THEN dat_errors + 1 ELSE dat_errors
  /\ sock_lock' = FALSE
  /\ reading' = "done"
  /\ UNCHANGED <<loop, list, info, dats, crashed, met>>

(* Fault: silence is taken for the end of file. *)
RecvTimeout ==
  /\ reading = "yes" /\ received[info] = <<>>
  /\ mode' = [mode EXCEPT ![info] = "KILL"]
  /\ reading' = "done"
  /\ UNCHANGED <<loop, list, sock_lock, dat_errors, received, info, dats, crashed, met>>

(* End of file, or an error.  A stray read marks the connection that its    *)
(* Info has by then, which may be a new one.                                *)
RecvEof ==
  /\ \/ reading = "yes" /\ received[info] = <<>> /\ ~IsLinked(info)
     \/ reading = "stray"
  /\ mode' = [mode EXCEPT ![info] = "KILL"]
  /\ reading' = "done"
  /\ UNCHANGED <<loop, list, sock_lock, dat_errors, received, info, dats, crashed, met>>

(* info = info->next, whether or not info has been freed meanwhile: then    *)
(* whoever got the memory has written there what he liked.                  *)
RecvNext ==
  /\ reading = "done"
  /\ \/ info \in live /\ info' = next[info]
     \/ info \notin live /\ info' \in Infos \cup {NULL}
  /\ reading' = "no"
  /\ UNCHANGED <<loop, list, mode, sock_lock, dat_errors, received, dats, crashed, met>>

-----------------------------------------------------------------------------
(* receive_thread of a dat *)

(* Reads a request and creates the file, or fails to (open returns -1). *)
DatCreate(d) ==
  /\ inbox[d] # <<>> /\ answer[d] = <<>>
  /\ inbox' = [inbox EXCEPT ![d] = Tail(@)]
  /\ \/ /\ files' = [files EXCEPT ![d] = @ \cup {Head(inbox[d])}]
        /\ answer' = [answer EXCEPT ![d] = <<0>>]
     \/ /\ answer' = [answer EXCEPT ![d] = <<1>>]
        /\ UNCHANGED files
  /\ UNCHANGED <<loop, list, mode, sock_lock, dat_errors, received, info, reading,
                 peer, crashed, met>>

(* The reply; to a socket whose other end is gone it is lost. *)
DatReply(d) ==
  /\ answer[d] # <<>>
  /\ answer' = [answer EXCEPT ![d] = <<>>]
  /\ received' = IF peer[d] \in Infos
                 THEN [received EXCEPT ![peer[d]] = Append(@, answer[d][1])]
                 ELSE received
  /\ UNCHANGED <<loop, list, mode, sock_lock, dat_errors, info, reading,
                 peer, inbox, files, crashed, met>>

(* The read ends with 0 or an error: the socket is closed, to be connected  *)
(* anew.  After a reset the kernel drops what was not read.                 *)
DatDisconnect(d) ==
  /\ peer[d] = Lost /\ answer[d] = <<>>
  /\ peer' = [peer EXCEPT ![d] = NULL]
  /\ inbox' = [inbox EXCEPT ![d] = <<>>]
  /\ UNCHANGED <<loop, list, mode, sock_lock, dat_errors, received, info, reading,
                 answer, files, crashed, met>>

(* A dat dies; its next start clears its directory (hd_init).  What it had  *)
(* sent reaches ser, or is dropped with a reset.                            *)
DatCrash(d) ==
  /\ peer' = [peer EXCEPT ![d] = NULL]
  /\ inbox' = [inbox EXCEPT ![d] = <<>>]
  /\ answer' = [answer EXCEPT ![d] = <<>>]
  /\ files' = [files EXCEPT ![d] = {}]
  /\ \/ UNCHANGED received
     \/ peer[d] \in Infos /\ received' = [received EXCEPT ![peer[d]] = <<>>]
  /\ crashed' = TRUE
  /\ UNCHANGED <<loop, list, mode, sock_lock, dat_errors, info, reading, met>>

-----------------------------------------------------------------------------
(* ser dies and is started again: connect_dat.  load_fs sets next_chunkid   *)
(* from what was saved.                                                     *)
Restart ==
  /\ next_chunkid' \in FirstChunk..next_chunkid
  /\ waiting' = NULL /\ accepting' = NULL
  /\ dat_info_head' = NULL /\ live' = {}
  /\ mode' = [i \in Infos |-> "KILL"]
  /\ next' = [i \in Infos |-> NULL]
  /\ received' = [i \in Infos |-> <<>>]
  /\ sock_lock' = FALSE
  /\ dat_errors' = 0
  /\ info' = NULL /\ reading' = "no"
  /\ peer' = [d \in Dats |-> IF peer[d] \in Infos THEN Lost ELSE peer[d]]
  /\ crashed' = FALSE /\ met' = FALSE
  /\ UNCHANGED <<inbox, answer, files>>

Init ==
  /\ next_chunkid = FirstChunk
  /\ waiting = NULL /\ accepting = NULL
  /\ dat_info_head = NULL /\ live = {}
  /\ mode = [i \in Infos |-> "KILL"]
  /\ next = [i \in Infos |-> NULL]
  /\ received = [i \in Infos |-> <<>>]
  /\ sock_lock = FALSE
  /\ dat_errors = 0
  /\ info = NULL /\ reading = "no"
  /\ peer = [d \in Dats |-> NULL]
  /\ inbox = [d \in Dats |-> <<>>]
  /\ answer = [d \in Dats |-> <<>>]
  /\ files = [d \in Dats |-> {}]
  /\ crashed = FALSE /\ met = FALSE

AcceptAny == AcceptInit \/ \E d \in Dats, i \in Infos : AcceptLink(d, i)
ReapAny == \E i \in Infos : Reap(i)
Select == AcceptAny \/ ReapAny \/ CreateChunk \/ SendChunk
Receive == RecvWake \/ RecvEnter \/ RecvHeader \/ RecvData \/ RecvEof \/ RecvNext
Dat(d) == DatCreate(d) \/ DatReply(d) \/ DatDisconnect(d)
Crash == Restart \/ \E d \in Dats : DatCrash(d)

Next == Select \/ Receive \/ (\E d \in Dats : Dat(d)) \/ Crash

Spec == Init /\ [][Next]_vars

(* No process dies.  The threads run; clients ask or do not; the loop gets  *)
(* sock_lock once it is free, for nobody else ever takes it.                *)
Steady ==
  /\ Init
  /\ [][Select \/ Receive \/ \E d \in Dats : Dat(d)]_vars
  /\ WF_vars(AcceptAny)
  /\ WF_vars(SendChunk)
  /\ WF_vars(Receive)
  /\ \A d \in Dats : WF_vars(Dat(d))

-----------------------------------------------------------------------------
TypeOK ==
  /\ next_chunkid \in Nat
  /\ waiting \in live \cup {NULL} /\ accepting \in live \cup {NULL}
  /\ live \subseteq Infos
  /\ dat_info_head \in Infos \cup {NULL}
  /\ next \in [Infos -> Infos \cup {NULL}]
  /\ mode \in [Infos -> Modes]
  /\ sock_lock \in BOOLEAN
  /\ dat_errors \in Nat
  /\ received \in [Infos -> Seq({0, 1})]
  /\ info \in Infos \cup {NULL}
  /\ reading \in {"no", "yes", "stray", "done"}
  /\ peer \in [Dats -> Infos \cup {NULL, Lost}]
  /\ inbox \in [Dats -> Seq(Nat)]
  /\ answer \in [Dats -> Seq({0, 1})]
  /\ files \in [Dats -> SUBSET Nat]
  /\ crashed \in BOOLEAN /\ met \in BOOLEAN

(* Where a request that ser waits for can be: on its way to a dat that ser  *)
(* is linked to, in that dat, or as an answer in the receive buffer.        *)
Places == {"inbox", "answer"} \X Dats \cup {"received"} \X Infos
Holds(place) ==
  CASE place[1] = "inbox" -> IF peer[place[2]] \in Infos THEN inbox[place[2]] ELSE <<>>
    [] place[1] = "answer" -> IF peer[place[2]] \in Infos THEN answer[place[2]] ELSE <<>>
    [] place[1] = "received" -> received[place[2]]
Outstanding == {place \in Places : Holds(place) # <<>>}

(* The mutex serialises the creation of chunks although one thread takes    *)
(* it, another gives it back, and connections come and go in between: while *)
(* it is free no request is under way, and while it is held at most one is. *)
OneCreation ==
  /\ ~sock_lock => Outstanding = {}
  /\ \A p, q \in Outstanding : p = q /\ Len(Holds(p)) = 1

(* The mutex is held for a request that will be answered, unless a dat has  *)
(* died or receive_thread came upon a connection before it was set: nothing *)
(* else can leave it locked for good.                                       *)
LockAwaitsAnswer == sock_lock /\ ~crashed /\ ~met => Outstanding # {}

(* The next pointers do not lead out of S, but for the end of the list. *)
Closed(S) == \A i \in S : next[i] \in S \cup {NULL}

(* The Infos on the way from i along the next pointers: what every closed   *)
(* set has that i leads into.                                               *)
Reached(i) == {j \in Infos : \A S \in SUBSET Infos : i \in S \cup {NULL} /\ Closed(S) => j \in S}

(* Whatever was inserted and removed, the list holds the allocated Infos:   *)
(* none is lost, and none that was freed is on it.                          *)
ListHoldsLive == Reached(dat_info_head) = live

(* receive_thread, which takes no lock, finds its way out of the list as    *)
(* long as its Infos are allocated, and be it that they were freed and      *)
(* allocated again under its feet: no allocated Infos have only each other  *)
(* for successors.                                                          *)
WalksEnd == \A S \in SUBSET live : S # {} => \E i \in S : next[i] \notin S

(* The creation of chunks as other parts of the system see it, whatever     *)
(* becomes of the dats, the links and the list (Creations): sock_lock and   *)
(* the one place that is used tell where the request is.                    *)
AskedOf(d) == <<"inbox", d>> \in Outstanding
Phase == CASE ~sock_lock -> "free"
           [] sock_lock /\ Outstanding = {} -> "lost"
           [] sock_lock /\ (\E d \in Dats : AskedOf(d)) -> "asked"
           [] OTHER -> "answering"
AskedId == IF Phase = "asked" THEN Head(inbox[CHOOSE d \in Dats : AskedOf(d)]) ELSE 0
Turns == INSTANCE Creations WITH
           waiting <- waiting # NULL, lock <- Phase, asked <- AskedId
CreationsInTurn == Turns!Spec

(* The server closes the connection of a live dat only if some dat has      *)
(* died, or if it was accepted under the eyes of receive_thread.            *)
LiveDatsKeepTheirLink ==
  ~crashed /\ ~met =>
    \A d \in Dats : peer[d] \in Infos =>
      peer[d] \in live /\ (mode[peer[d]] = "KILL" => peer[d] = accepting)

(* An id given out is a file on a dat, or on its way to become one, or one  *)
(* of the failures that dat_errors counts, as long as no process dies and   *)
(* receive_thread sees no connection before it is set.                      *)
Granted == (FirstChunk + 1)..next_chunkid
Stored == UNION {files[d] : d \in Dats}
UnderWay == {c \in Granted : \/ waiting # NULL /\ c = next_chunkid
                             \/ \E d \in Dats : c \in {inbox[d][k] : k \in DOMAIN inbox[d]}}
Failures == Cardinality({d \in Dats : answer[d] = <<1>>})
            + Cardinality({i \in Infos : received[i] = <<1>>})
Uncreated == Granted \ (Stored \cup UnderWay)
GrantsAccounted == ~met => Cardinality(Uncreated) = dat_errors + Failures

(* A creation comes to an end: receive_thread gives the mutex back, unless  *)
(* it came upon a connection before it was set.                             *)
LockReturns == sock_lock ~> (~sock_lock \/ met)

(* And the select loop that waits for the mutex, and with it every client,  *)
(* goes on.                                                                 *)
LoopGoesOn == waiting # NULL ~> (waiting = NULL \/ met)

(* con_dat.c:412: the receive thread exists because ser, unlike a master    *)
(* with a single peer, serves several dats; so each dat's answer is read.   *)
AnswersAreRead == \A i \in Infos : received[i] # <<>> ~> (received[i] = <<>> \/ met)

-----------------------------------------------------------------------------
(* The inductive invariant behind the safety properties. *)

(* The list, as far as the proof needs it: it never leads to freed memory,  *)
(* no two Infos have the same successor, and the head is nobody's.          *)
ListShape ==
  /\ dat_info_head \in live \cup {NULL}
  /\ \A i \in live :
       /\ next[i] \in live \cup {NULL}
       /\ next[i] # NULL => next[i] # dat_info_head
       /\ \A j \in live : next[i] = next[j] /\ next[i] # NULL => i = j

FreedShape == \A i \in Infos \ live : mode[i] = "KILL" /\ received[i] = <<>>

PeerShape ==
  /\ \A d \in Dats : peer[d] \in Infos => peer[d] \in live
  /\ \A d, e \in Dats : peer[d] = peer[e] /\ peer[d] \in Infos => d = e
  /\ \A d \in Dats : peer[d] = NULL => inbox[d] = <<>> /\ answer[d] = <<>>

ReceiverShape ==
  /\ reading # "no" => info # NULL
  /\ reading = "yes" => info \in live
  /\ reading = "yes" /\ mode[info] = "KILL" => received[info] = <<>> /\ ~IsLinked(info)

(* Without a crash every connection has both its ends. *)
LinksUp ==
  ~crashed /\ ~met =>
    /\ \A i \in live : IsLinked(i) /\ (mode[i] = "KILL" => i = accepting)
    /\ reading # "stray"
    /\ info \in live \cup {NULL}

CreationInv == /\ TypeOK /\ ListShape /\ FreedShape /\ PeerShape /\ ReceiverShape
               /\ LinksUp /\ OneCreation /\ LockAwaitsAnswer

IInv == CreationInv /\ WalksEnd /\ ListHoldsLive

(* And what holds as long as no process dies: an id is stored, or on its    *)
(* way in one place, or was counted once.                                   *)
OnItsWay ==
  /\ next_chunkid >= FirstChunk /\ Stored \subseteq Granted
  /\ waiting # NULL => next_chunkid \in Granted \ Stored
  /\ \A d \in Dats : \A k \in DOMAIN inbox[d] :
       /\ inbox[d][k] \in Granted \ Stored
       /\ waiting # NULL => inbox[d][k] # next_chunkid

Failing == (\E d \in Dats : answer[d] = <<1>>) \/ (\E i \in Infos : received[i] = <<1>>)
Counted == Cardinality(Uncreated) = dat_errors + (IF Failing THEN 1 ELSE 0)

SteadyInv == /\ CreationInv /\ ~crashed
             /\ ~met => (\A d \in Dats : peer[d] # Lost) /\ OnItsWay /\ Counted
=============================================================================
