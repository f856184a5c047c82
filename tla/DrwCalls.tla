----------------------------- MODULE DrwCalls -----------------------------
(***************************************************************************)
(* The calls of one drw process to the metadata server: the main thread in *)
(* fs_sendandreceive and receive_thread (drw/con_ser.c), which share one   *)
(* socket, and the connections on the server (ser/con_cli.c).              *)
(*                                                                         *)
(* The main thread is drw's only caller, so that there is one threc and    *)
(* one packet id.  Packets are whole: a request is the call it belongs to, *)
(* its command, and whether the connection it is on is still open at drw's *)
(* end.  fdlock has no other user, and receive_thread does not take it: it *)
(* closes and opens the socket between any two steps of the caller.  drw   *)
(* runs interactively: it ignores SIGPIPE (drw.c:231).                     *)
(***************************************************************************)
EXTENDS Naturals, Sequences

CONSTANTS
  Commands,    \* the kinds of request
  RETRIES,     \* turns of fs_sendandreceive
  MaxCalls,    \* bound: calls made
  MaxCrashes   \* bound: deaths of the server

ASSUME RetriesAssumption == RETRIES \in Nat \ {0}
ASSUME BoundsAssumption == MaxCalls \in Nat /\ MaxCrashes \in Nat

VARIABLES
  fd,          \* drw's socket: "none" (-1), "new" before connect, "up", or
               \* "gone": the server's end has been closed
  disconnect,
  receiver,    \* where receive_thread is
  caller,      \* where fs_sendandreceive is, its threc, and whether the
               \* connection was lost under the request it waits for (history)
  inbox,       \* replies in drw's socket
  requests,    \* requests in the server's sockets
  replies,     \* packets in the server's out_data queue for drw
  serUp,
  crashes,
  calls        \* history: executions and result of every call

drw == <<fd, disconnect, receiver, caller, inbox>>
ser == <<requests, replies, serUp, crashes>>
vars == <<fd, disconnect, receiver, caller, inbox, requests, replies, serUp,
          crashes, calls>>

This == Len(calls)   \* the present call

(* fs_sendandreceive waits for a reply that receive_thread has not read. *)
Waits == caller.pc = "wait" /\ ~caller.release

(* fs_createpacket: the packet of the present call. *)
Packet == [call |-> This, cmd |-> caller.cmd, open |-> TRUE]

(* Fault: a creation is answered with the command of a lookup. *)
ReplyAsJudge(request) == [call |-> request.call, cmd |-> "judge"]

(* create_cli_packet: the answer to a request. *)
Reply(request) == [call |-> request.call, cmd |-> request.cmd]

(* fs_get_my_threc *)
NewThrec == [pc |-> "idle", cmd |-> "none", cnt |-> 0, release |-> FALSE, status |-> 0,
             got |-> [call |-> 0, cmd |-> "none"], cut |-> FALSE]

-----------------------------------------------------------------------------
(* The main thread *)

(* A function such as fs_judge_name makes its packet. *)
Call ==
  /\ caller.pc = "idle" /\ Len(calls) < MaxCalls
  /\ \E cmd \in Commands :
       caller' = [caller EXCEPT !.pc = "turn", !.cmd = cmd, !.cnt = 0, !.cut = FALSE]
  /\ calls' = Append(calls, [executed |-> 0, result |-> <<>>])
  /\ UNCHANGED <<fd, disconnect, receiver, inbox, ser>>

Returns(result) ==
  /\ caller' = [caller EXCEPT !.pc = "idle"]
  /\ calls' = [calls EXCEPT ![This].result = result]

(* Fault: the turns are not limited. *)
TurnUnlimited ==
  /\ caller.pc = "turn"
  /\ \/ fd = "none" /\ caller' = [caller EXCEPT !.cnt = @ + 1]
     \/ fd # "none" /\ caller' = [caller EXCEPT !.pc = "write", !.release = FALSE]
  /\ UNCHANGED <<fd, disconnect, receiver, inbox, ser, calls>>

(* The head of the loop: give up, sleep without a socket, or clear release. *)
Turn ==
  /\ caller.pc = "turn"
  /\ \/ caller.cnt = RETRIES /\ Returns(<<0>>)
     \/ /\ caller.cnt < RETRIES /\ fd = "none"
        /\ caller' = [caller EXCEPT !.cnt = @ + 1] /\ UNCHANGED calls
     \/ /\ caller.cnt < RETRIES /\ fd # "none"
        /\ caller' = [caller EXCEPT !.pc = "write", !.release = FALSE] /\ UNCHANGED calls
  /\ UNCHANGED <<fd, disconnect, receiver, inbox, ser>>

(* tcptowrite fails on a socket that is not connected, or not any more. *)
WriteFails ==
  /\ caller.pc = "write" /\ fd # "up"
  /\ caller' = [caller EXCEPT !.pc = "failed"]
  /\ UNCHANGED <<fd, disconnect, receiver, inbox, ser, calls>>

Write ==
  /\ caller.pc = "write" /\ fd = "up"
  /\ caller' = [caller EXCEPT !.pc = "wait"]
  /\ requests' = Append(requests, Packet)
  /\ UNCHANGED <<fd, disconnect, receiver, inbox, replies, serUp, crashes, calls>>

(* The first write after the server has gone succeeds, into the void. *)
WriteLost ==
  /\ caller.pc = "write" /\ fd = "gone"
  /\ caller' = [caller EXCEPT !.pc = "wait", !.cut = TRUE]
  /\ UNCHANGED <<fd, disconnect, receiver, inbox, ser, calls>>

(* The rest of the turn whose write failed: receive_thread may have opened  *)
(* another connection meanwhile.                                            *)
SetDisconnect ==
  /\ caller.pc = "failed"
  /\ disconnect' = TRUE
  /\ caller' = [caller EXCEPT !.pc = "turn", !.cnt = @ + 1]
  /\ UNCHANGED <<fd, receiver, inbox, ser, calls>>

(* The wait, which has no end of its own, and the checks after it. *)
Wake ==
  /\ caller.pc = "wait" /\ caller.release
  /\ IF caller.status = 0 /\ caller.got.cmd = caller.cmd
     THEN Returns(<<caller.got.call>>) /\ UNCHANGED disconnect
     ELSE /\ caller' = [caller EXCEPT !.pc = "turn", !.cnt = @ + 1]
          /\ disconnect' = (disconnect \/ caller.status = 0)
          /\ UNCHANGED calls
  /\ UNCHANGED <<fd, receiver, inbox, ser>>

-----------------------------------------------------------------------------
(* receive_thread *)

Top ==
  /\ receiver = "top"
  /\ IF fd = "none" /\ disconnect THEN fd' = "new" /\ receiver' = "connect"
                                  ELSE receiver' = "test" /\ UNCHANGED fd
  /\ UNCHANGED <<disconnect, caller, inbox, ser, calls>>

(* connect_ser, from tcpconnect on.  The closing of a socket and the        *)
(* assignment of -1 are one step, here and in Test: a write in between      *)
(* fails like one on a "new" socket.                                        *)
Connect ==
  /\ receiver = "connect" /\ receiver' = "test"
  /\ \/ serUp /\ fd' = "up" /\ disconnect' = FALSE
     \/ ~serUp /\ fd' = "none" /\ UNCHANGED disconnect
  /\ UNCHANGED <<caller, inbox, ser, calls>>

(* The requests on a connection that drw closes. *)
Orphans == [i \in 1 .. Len(requests) |->
             [call |-> requests[i].call, cmd |-> requests[i].cmd, open |-> FALSE]]

(* Fault: the caller is woken with a status, to send again. *)
TestWakes ==
  /\ receiver = "test"
  /\ fd' = IF disconnect THEN "none" ELSE fd
  /\ receiver' = IF fd' = "none" THEN "top" ELSE "read"
  /\ IF disconnect
     THEN /\ requests' = Orphans /\ replies' = <<>> /\ inbox' = <<>>
          /\ caller' = [caller EXCEPT !.release = TRUE, !.status = 1]
     ELSE UNCHANGED <<requests, replies, inbox, caller>>
  /\ UNCHANGED <<disconnect, serUp, crashes, calls>>

(* A connection that is marked is closed, and whoever waits for a reply on  *)
(* it goes on waiting: the loop over the threcs is empty.                   *)
Test ==
  /\ receiver = "test"
  /\ fd' = IF disconnect THEN "none" ELSE fd
  /\ receiver' = IF fd' = "none" THEN "top" ELSE "read"
  /\ IF disconnect
     THEN /\ requests' = Orphans /\ replies' = <<>> /\ inbox' = <<>>
          /\ caller' = [caller EXCEPT !.cut = @ \/ Waits]
     ELSE UNCHANGED <<requests, replies, inbox, caller>>
  /\ UNCHANGED <<disconnect, serUp, crashes, calls>>

(* Fault: the caller is signalled, but release is not set. *)
ReadSignalsOnly ==
  /\ receiver = "read" /\ inbox # <<>>
  /\ caller' = [caller EXCEPT !.got = Head(inbox), !.status = 0]
  /\ inbox' = Tail(inbox)
  /\ receiver' = "top"
  /\ UNCHANGED <<fd, disconnect, ser, calls>>

(* A whole reply, which always names the one threc there is. *)
Read ==
  /\ receiver = "read" /\ inbox # <<>>
  /\ caller' = [caller EXCEPT !.release = TRUE, !.status = 0, !.got = Head(inbox)]
  /\ inbox' = Tail(inbox)
  /\ receiver' = "top"
  /\ UNCHANGED <<fd, disconnect, ser, calls>>

ReadEof ==
  /\ receiver = "read" /\ inbox = <<>> /\ fd = "gone"
  /\ disconnect' = TRUE
  /\ receiver' = "top"
  /\ UNCHANGED <<fd, caller, inbox, ser, calls>>

-----------------------------------------------------------------------------
(* The server's select loop *)

(* read_from_cli and the handler, which puts the answer into the queue of   *)
(* its connection.                                                          *)
Serve ==
  /\ requests # <<>>
  /\ LET request == Head(requests) IN
       /\ calls' = [calls EXCEPT ![request.call].executed = @ + 1]
       /\ replies' = IF request.open THEN Append(replies, Reply(request)) ELSE replies
  /\ requests' = Tail(requests)
  /\ UNCHANGED <<drw, serUp, crashes>>

(* A request may be lost with the connection it was on. *)
Reap ==
  /\ requests # <<>> /\ ~Head(requests).open
  /\ requests' = Tail(requests)
  /\ UNCHANGED <<drw, replies, serUp, crashes, calls>>

(* write_to_cli *)
WriteToCli ==
  /\ replies # <<>>
  /\ inbox' = Append(inbox, Head(replies))
  /\ replies' = Tail(replies)
  /\ UNCHANGED <<fd, disconnect, receiver, caller, requests, serUp, crashes, calls>>

(* The server dies; what it has sent may still arrive, or not. *)
SerCrash ==
  /\ serUp /\ crashes < MaxCrashes
  /\ serUp' = FALSE /\ crashes' = crashes + 1
  /\ requests' = <<>> /\ replies' = <<>>
  /\ fd' = IF fd = "up" THEN "gone" ELSE fd
  /\ inbox' \in {inbox, <<>>}
  /\ caller' = [caller EXCEPT !.cut = @ \/ Waits]
  /\ UNCHANGED <<disconnect, receiver, calls>>

SerRestart ==
  /\ ~serUp
  /\ serUp' = TRUE
  /\ UNCHANGED <<drw, requests, replies, crashes, calls>>

-----------------------------------------------------------------------------
(* ser_init *)
Init ==
  /\ fd = "none" /\ disconnect = TRUE /\ receiver = "top"
  /\ caller = NewThrec /\ inbox = <<>>
  /\ requests = <<>> /\ replies = <<>>
  /\ serUp \in BOOLEAN /\ crashes = 0
  /\ calls = <<>>

SendAndReceive == Turn \/ WriteFails \/ Write \/ WriteLost \/ SetDisconnect \/ Wake
ReceiveThread == Top \/ Connect \/ Test \/ Read \/ ReadEof
SelectLoop == Serve \/ Reap \/ WriteToCli

Next == \/ Call \/ SendAndReceive \/ ReceiveThread \/ SelectLoop
        \/ SerCrash \/ SerRestart

(* Both threads of drw run, and the server's loop while it lives.  Nothing  *)
(* makes a command call, nor a server that died come back.                  *)
Fairness == /\ WF_vars(SendAndReceive)
            /\ WF_vars(ReceiveThread)
            /\ WF_vars(SelectLoop)

Spec == Init /\ [][Next]_vars /\ Fairness

-----------------------------------------------------------------------------
Packets == [call : 1 .. MaxCalls, cmd : Commands]

Threcs == [pc : {"idle", "turn", "write", "failed", "wait"},
           cmd : Commands \cup {"none"}, cnt : 0 .. RETRIES,
           release : BOOLEAN, status : 0 .. 1,
           got : [call : 0 .. MaxCalls, cmd : Commands \cup {"none"}], cut : BOOLEAN]
Records == [executed : Nat, result : {<<>>} \cup {<<k>> : k \in 0 .. MaxCalls}]

(* Every variable has a value of its kind. *)
TypeOK ==
  /\ fd \in {"none", "new", "up", "gone"}
  /\ disconnect \in BOOLEAN
  /\ receiver \in {"top", "connect", "test", "read"}
  /\ caller \in Threcs
  /\ inbox \in Seq(Packets) /\ replies \in Seq(Packets)
  /\ requests \in Seq([call : 1 .. MaxCalls, cmd : Commands, open : BOOLEAN])
  /\ serUp \in BOOLEAN /\ crashes \in 0 .. MaxCrashes
  /\ calls \in Seq(Records)
  /\ Len(calls) <= MaxCalls

Abstract == INSTANCE RemoteCalls

(* The retries of fs_sendandreceive (con_ser.c:90) repeat no request that   *)
(* was executed; a call that returns NULL after them was not executed, so   *)
(* that write_data and read_data may ask again; an answer belongs to the    *)
(* call that gets it, although all calls share one packet id.               *)
CallsAtMostOnce == Abstract!Spec

(* A call ends, with an answer or after RETRIES turns, unless the           *)
(* connection was lost under the request it waits for: then receive_thread  *)
(* (con_ser.c:467) wakes nobody.                                            *)
CallsEndUnlessCut == caller.pc # "idle" ~> (caller.pc = "idle" \/ caller.cut)

Quiet == fd = "up" /\ receiver = "read" /\ ~disconnect

(* A call that begins while receive_thread is in its read, with no mark on  *)
(* the connection left by an earlier call (con_ser.c:107), is answered if   *)
(* the server lives.                                                        *)
QuietCallsAreAnswered ==
  \A k \in 1 .. MaxCalls :
    (This = k /\ caller.pc = "turn" /\ caller.cnt = 0 /\ Quiet)
      ~> ((k \in DOMAIN calls /\ calls[k].result = <<k>>) \/ ~serUp)

-----------------------------------------------------------------------------
(* The invariant of the proofs *)

Nothing == requests = <<>> /\ replies = <<>> /\ inbox = <<>>
TheReply == [call |-> This, cmd |-> caller.cmd]

(* Calls are made one after the other. *)
OneCall == \A k \in DOMAIN calls :
             calls[k].result = <<>> <=> (k = This /\ caller.pc # "idle")

(* The caller does not wait: it has not sent its request. *)
NotSent == /\ caller.pc # "wait" /\ Nothing
           /\ caller.pc = "write" => ~caller.release
           /\ caller.pc \in {"write", "failed"} => caller.cnt < RETRIES
           /\ caller.pc # "idle" => This > 0 /\ calls[This].executed = 0

Asked == /\ Waits /\ calls[This].executed = 0
         /\ \E open \in BOOLEAN : requests = <<[call |-> This, cmd |-> caller.cmd, open |-> open]>>
         /\ replies = <<>> /\ inbox = <<>>

Answered == /\ Waits /\ calls[This].executed = 1
            /\ requests = <<>>
            /\ \/ replies = <<TheReply>> /\ inbox = <<>>
               \/ replies = <<>> /\ inbox = <<TheReply>>

(* The request or its answer was lost. *)
Cut == Waits /\ calls[This].executed \in 0 .. 1 /\ Nothing

Released == /\ caller.pc = "wait" /\ caller.release
            /\ calls[This].executed = 1 /\ caller.got = TheReply /\ Nothing

(* A request, or its answer, is in one place, and the caller waits for it. *)
OneInFlight == /\ caller.status = 0
               /\ caller.pc # "idle" => caller.cmd \in Commands
               /\ caller.pc = "wait" => This > 0
               /\ NotSent \/ Asked \/ Answered \/ Cut \/ Released

(* The inductive invariant. *)
IInv == TypeOK /\ OneCall /\ OneInFlight
=============================================================================
