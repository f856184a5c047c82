-------------------------- MODULE DrwCallsProofs --------------------------
(***************************************************************************)
(* Proofs about DrwCalls, for any number of turns, calls and deaths of the *)
(* server: IInv is an inductive invariant, and with it a call keeps the    *)
(* promises of RemoteCalls.                                                *)
(***************************************************************************)
EXTENDS DrwCalls, TLAPS

USE RetriesAssumption, BoundsAssumption

(* A sequence keeps its type and length when one element is replaced.       *)
LEMMA Replaced ==
  ASSUME NEW T, NEW s \in Seq(T), NEW k \in DOMAIN s, NEW x \in T
  PROVE  /\ [s EXCEPT ![k] = x] \in Seq(T)
         /\ Len([s EXCEPT ![k] = x]) = Len(s)
         /\ DOMAIN [s EXCEPT ![k] = x] = DOMAIN s
  OBVIOUS

(* A sequence of one element: what the actions do to queues.               *)
LEMMA Singleton ==
  ASSUME NEW T, NEW x \in T
  PROVE  /\ Append(<<>>, x) = <<x>> /\ Head(<<x>>) = x /\ Tail(<<x>>) = <<>>
         /\ <<x>> \in Seq(T) /\ <<>> \in Seq(T) /\ <<x>> # <<>>
  OBVIOUS

(* A call begins. *)
LEMMA CallStep ==
  ASSUME IInv, Call
  PROVE  IInv'
<1> USE DEF Call, ser
<1>1. Len(calls') = Len(calls) + 1 /\ calls' \in Seq(Records) /\ DOMAIN calls' = 1 .. Len(calls) + 1
      /\ calls'[Len(calls) + 1] = [executed |-> 0, result |-> <<>>]
      /\ \A k \in DOMAIN calls : calls'[k] = calls[k]
  BY DEF IInv, TypeOK, Records
<1>2. TypeOK'
  <2>1. PICK cmd \in Commands :
          caller' = [caller EXCEPT !.pc = "turn", !.cmd = cmd, !.cnt = 0, !.cut = FALSE]
    OBVIOUS
  <2>2. caller \in Threcs
    BY DEF IInv, TypeOK
  <2>3. caller' \in Threcs
    <3>1. 0 \in 0 .. RETRIES
      BY RetriesAssumption
    <3> QED BY <2>1, <2>2, <3>1 DEF Threcs
  <2>4. Len(calls') <= MaxCalls
    BY <1>1 DEF IInv, TypeOK
  <2> QED BY <1>1, <2>3, <2>4 DEF IInv, TypeOK
<1>3. caller.pc = "idle" /\ caller'.pc = "turn" /\ caller'.cmd \in Commands
      /\ caller'.status = caller.status /\ Len(calls) \in Nat
  BY DEF IInv, TypeOK, Threcs
<1>4. OneCall'
  <2>1. \A k \in DOMAIN calls : calls[k].result # <<>>
    BY <1>3 DEF IInv, OneCall
  <2>2. calls'[Len(calls) + 1].result = <<>>
    BY <1>1
  <2>3. \A k \in 1 .. Len(calls) + 1 : k \in DOMAIN calls \/ k = Len(calls) + 1
    <3>1. DOMAIN calls = 1 .. Len(calls)
      BY DEF IInv, TypeOK
    <3> QED BY <1>3, <3>1
  <2>4. \A k \in DOMAIN calls : k # Len(calls) + 1
    BY DEF IInv, TypeOK
  <2> QED BY <1>1, <1>3, <2>1, <2>2, <2>3, <2>4 DEF OneCall, This
<1>5. Nothing' /\ This' > 0 /\ calls'[This'].executed = 0
  BY <1>1, <1>3 DEF IInv, OneInFlight, NotSent, Asked, Answered, Cut, Released, Waits, Nothing, This
<1>6. OneInFlight'
  BY <1>3, <1>5 DEF IInv, OneInFlight, NotSent
<1> QED BY <1>2, <1>4, <1>6 DEF IInv

(* A call ends with a result. *)
LEMMA ReturnsStep ==
  ASSUME IInv, NEW r \in 0 .. MaxCalls, caller.pc # "idle", This > 0, Nothing, Nothing',
         Returns(<<r>>), UNCHANGED <<fd, disconnect, receiver, ser>>
  PROVE  IInv'
<1> USE DEF ser
<1>1. calls' \in Seq(Records) /\ Len(calls') = Len(calls) /\ DOMAIN calls' = DOMAIN calls
      /\ calls'[This].result = <<r>>
      /\ \A k \in DOMAIN calls : k # This => calls'[k] = calls[k]
  <2> DEFINE x == [calls[This] EXCEPT !.result = <<r>>]
  <2>1. This \in DOMAIN calls /\ calls[This] \in Records
    BY DEF IInv, TypeOK, This
  <2>2. x \in Records /\ x.result = <<r>>
    BY <2>1 DEF Records
  <2>3. calls' = [calls EXCEPT ![This] = x]
    BY DEF Returns
  <2>4. calls \in Seq(Records)
    BY DEF IInv, TypeOK
  <2>5. /\ [calls EXCEPT ![This] = x] \in Seq(Records)
        /\ Len([calls EXCEPT ![This] = x]) = Len(calls)
        /\ DOMAIN [calls EXCEPT ![This] = x] = DOMAIN calls
    BY <2>1, <2>2, <2>4, Replaced
  <2> QED BY <2>1, <2>2, <2>3, <2>5
<1>2. TypeOK'
  <2>1. caller' \in Threcs
    BY DEF IInv, TypeOK, Threcs, Returns
  <2>2. inbox' \in Seq(Packets)
    BY Singleton DEF Nothing
  <2> QED BY <1>1, <2>1, <2>2 DEF IInv, TypeOK
<1>3. OneCall'
  BY <1>1 DEF IInv, TypeOK, OneCall, This, Returns
<1>4. OneInFlight'
  BY <1>1 DEF IInv, TypeOK, OneInFlight, NotSent, Nothing, This, Returns
<1> QED BY <1>2, <1>3, <1>4 DEF IInv

(* A step that is neither the beginning nor the end of a call. *)
LEMMA CallGoesOn ==
  ASSUME OneCall, calls' = calls, caller'.pc = "idle" <=> caller.pc = "idle"
  PROVE  OneCall'
  BY DEF OneCall, This

(* A turn of fs_sendandreceive begins. *)
LEMMA TurnStep ==
  ASSUME IInv, Turn
  PROVE  IInv'
<1>1. NotSent /\ Nothing /\ calls \in Seq(Records) /\ caller \in Threcs
  BY DEF IInv, TypeOK, OneInFlight, NotSent, Asked, Answered, Cut, Released, Waits, Turn
<1>2. CASE caller.cnt = RETRIES /\ Returns(<<0>>)
  BY <1>1, <1>2, ReturnsStep DEF Turn, NotSent, Nothing, ser
<1>3. CASE calls' = calls /\ caller.cnt < RETRIES /\ caller' = [caller EXCEPT !.cnt = @ + 1]
  <2>1. caller' \in Threcs
    <3>1. caller.cnt + 1 \in 0 .. RETRIES
      BY <1>1, <1>3, RetriesAssumption DEF Threcs
    <3> QED BY <1>1, <1>3, <3>1 DEF Threcs
  <2>2. TypeOK'
    BY <1>3, <2>1 DEF IInv, TypeOK, Turn, ser
  <2>3. OneCall'
    BY <1>1, <1>3, CallGoesOn DEF IInv, Threcs
  <2>4. OneInFlight'
    BY <1>1, <1>3 DEF IInv, OneInFlight, NotSent, Nothing, Turn, ser, This, Threcs
  <2> QED BY <2>2, <2>3, <2>4 DEF IInv
<1>4. CASE /\ calls' = calls /\ caller.cnt < RETRIES
           /\ caller' = [caller EXCEPT !.pc = "write", !.release = FALSE]
  <2>1. caller' \in Threcs
    BY <1>1, <1>4 DEF Threcs
  <2>2. TypeOK'
    BY <1>4, <2>1 DEF IInv, TypeOK, Turn, ser
  <2>3. OneCall'
    BY <1>1, <1>4, CallGoesOn DEF IInv, Threcs, Turn
  <2>4. OneInFlight'
    BY <1>1, <1>4 DEF IInv, OneInFlight, NotSent, Nothing, Turn, ser, This, Threcs
  <2> QED BY <2>2, <2>3, <2>4 DEF IInv
<1> QED BY <1>2, <1>3, <1>4 DEF Turn

(* A request goes out, or a write fails, or is lost. *)
LEMMA WriteStep ==
  ASSUME IInv, WriteFails \/ Write \/ WriteLost
  PROVE  IInv'
<1> USE DEF ser
<1>1. /\ NotSent /\ Nothing /\ caller \in Threcs /\ caller.pc = "write"
      /\ This \in 1 .. MaxCalls /\ caller.cmd \in Commands
  BY DEF IInv, TypeOK, OneInFlight, NotSent, Asked, Answered, Cut, Released, Waits,
     WriteFails, Write, WriteLost, This
<1>2. caller' \in Threcs /\ calls' = calls /\ caller'.pc # "idle"
  <2>1. \/ caller' = [caller EXCEPT !.pc = "failed"]
        \/ caller' = [caller EXCEPT !.pc = "wait"]
        \/ caller' = [caller EXCEPT !.pc = "wait", !.cut = TRUE]
    BY DEF WriteFails, Write, WriteLost
  <2>2. calls' = calls
    BY DEF WriteFails, Write, WriteLost
  <2>3. caller' \in Threcs /\ caller'.pc \in {"failed", "wait"}
    <3>1. CASE caller' = [caller EXCEPT !.pc = "failed"]
      BY <1>1, <3>1 DEF Threcs
    <3>2. CASE caller' = [caller EXCEPT !.pc = "wait"]
      BY <1>1, <3>2 DEF Threcs
    <3>3. CASE caller' = [caller EXCEPT !.pc = "wait", !.cut = TRUE]
      BY <1>1, <3>3 DEF Threcs
    <3> QED BY <2>1, <3>1, <3>2, <3>3
  <2> QED BY <2>2, <2>3
<1>3. OneCall'
  BY <1>1, <1>2, CallGoesOn DEF IInv
<1>4. CASE Write
  <2>1. requests' = <<Packet>> /\ Packet \in [call : 1 .. MaxCalls, cmd : Commands, open : BOOLEAN]
    BY <1>1, <1>4, Singleton DEF Write, Nothing, Packet
  <2>2. TypeOK'
    BY <1>2, <1>4, <2>1, Singleton DEF IInv, TypeOK, Write
  <2>3. ~caller.release
    BY <1>1 DEF IInv, OneInFlight, NotSent
  <2>4. This' = This /\ caller'.cmd = caller.cmd
    BY <1>1, <1>4 DEF Write, This, Threcs
  <2>5. Asked'
    <3>1. Waits' /\ calls'[This'].executed = 0 /\ replies' = <<>> /\ inbox' = <<>>
      BY <1>1, <1>4, <2>3 DEF NotSent, Nothing, Waits, Write, This, Threcs
    <3>2. requests' = <<[call |-> This', cmd |-> caller'.cmd, open |-> TRUE]>>
      BY <2>1, <2>4 DEF Packet
    <3> QED BY <3>1, <3>2 DEF Asked
  <2>6. OneInFlight'
    BY <1>1, <1>4, <2>5 DEF IInv, OneInFlight, Write, This, Threcs
  <2> QED BY <1>3, <2>2, <2>6 DEF IInv
<1>5. CASE WriteFails
  <2>1. TypeOK'
    BY <1>2, <1>5 DEF IInv, TypeOK, WriteFails
  <2>2. OneInFlight'
    BY <1>1, <1>5 DEF IInv, OneInFlight, NotSent, Nothing, WriteFails, This, Threcs
  <2> QED BY <1>3, <2>1, <2>2 DEF IInv
<1>6. CASE WriteLost
  <2>1. TypeOK'
    BY <1>2, <1>6 DEF IInv, TypeOK, WriteLost
  <2>2. ~caller.release
    BY <1>1 DEF IInv, OneInFlight, NotSent
  <2>3. OneInFlight'
    BY <1>1, <1>6, <2>2 DEF IInv, OneInFlight, NotSent, Nothing, Cut, Waits, WriteLost, This, Threcs
  <2> QED BY <1>3, <2>1, <2>3 DEF IInv
<1> QED BY <1>4, <1>5, <1>6

(* The end of a turn whose write failed. *)
LEMMA SetDisconnectStep ==
  ASSUME IInv, SetDisconnect
  PROVE  IInv'
<1> USE DEF ser
<1>1. NotSent /\ Nothing /\ caller \in Threcs /\ caller.pc = "failed" /\ caller.cnt < RETRIES
  BY DEF IInv, TypeOK, OneInFlight, NotSent, Asked, Answered, Cut, Released, Waits, SetDisconnect
<1>2. caller' \in Threcs
  <2>1. caller.cnt + 1 \in 0 .. RETRIES
    BY <1>1, RetriesAssumption DEF Threcs
  <2> QED BY <1>1, <2>1 DEF Threcs, SetDisconnect
<1>3. TypeOK'
  BY <1>2 DEF IInv, TypeOK, SetDisconnect
<1>4. OneCall'
  BY <1>1, CallGoesOn DEF IInv, Threcs, SetDisconnect
<1>5. OneInFlight'
  BY <1>1 DEF IInv, OneInFlight, NotSent, Nothing, SetDisconnect, This, Threcs
<1> QED BY <1>3, <1>4, <1>5 DEF IInv

(* The caller wakes up: with its answer, because one is all it can be       *)
(* released for.                                                            *)
LEMMA WakeStep ==
  ASSUME IInv, Wake
  PROVE  IInv' /\ Returns(<<This>>) /\ calls[This].executed = 1
<1>1. Released /\ This > 0 /\ caller.status = 0 /\ Nothing
  BY DEF IInv, OneInFlight, NotSent, Asked, Answered, Cut, Released, Waits, Wake
<1>2. Returns(<<This>>) /\ UNCHANGED disconnect
  BY <1>1 DEF Wake, Released, TheReply
<1>3. Nothing' /\ This \in 0 .. MaxCalls /\ UNCHANGED ser
  BY <1>1 DEF IInv, TypeOK, Wake, Nothing, ser, This
<1>4. IInv'
  BY <1>1, <1>2, <1>3, ReturnsStep DEF Wake, Released
<1> QED BY <1>1, <1>2, <1>4 DEF Released
-----------------------------------------------------------------------------
(* A step of receive_thread that touches neither a packet nor the caller. *)
LEMMA NothingMoves ==
  ASSUME IInv, UNCHANGED <<caller, inbox, requests, replies, calls>>,
         fd' \in {"none", "new", "up", "gone"}, disconnect' \in BOOLEAN,
         receiver' \in {"top", "connect", "test", "read"},
         serUp' \in BOOLEAN, crashes' \in 0 .. MaxCrashes
  PROVE  IInv'
<1>1. TypeOK'
  BY DEF IInv, TypeOK
<1>2. OneCall'
  BY CallGoesOn DEF IInv
<1>3. OneInFlight'
  BY DEF IInv, OneInFlight, NotSent, Asked, Answered, Cut, Released, Waits, Nothing, This,
     Packet, TheReply
<1> QED BY <1>1, <1>2, <1>3 DEF IInv

(* The length of a queue that is empty or has one element. *)
LEMMA Lengths == Len(<<>>) = 0 /\ \A x : Len(<<x>>) = 1 /\ <<x>> # <<>>
  OBVIOUS

(* What is in the queues, and in what types. *)
LEMMA Queues ==
  ASSUME IInv
  PROVE  /\ Len(requests) <= 1 /\ Len(replies) <= 1 /\ Len(inbox) <= 1
         /\ requests # <<>> => Asked
         /\ replies # <<>> => Answered /\ replies = <<TheReply>> /\ inbox = <<>>
         /\ inbox # <<>> => Answered /\ inbox = <<TheReply>> /\ replies = <<>>
<1>1. CASE NotSent \/ Cut \/ Released
  BY <1>1, Lengths DEF NotSent, Cut, Released, Nothing
<1>2. CASE Asked
  BY <1>2, Lengths DEF Asked
<1>3. CASE Answered
  <2>1. /\ requests = <<>>
        /\ \/ replies = <<TheReply>> /\ inbox = <<>>
           \/ replies = <<>> /\ inbox = <<TheReply>>
    BY <1>3 DEF Answered
  <2>2. CASE replies = <<TheReply>> /\ inbox = <<>>
    BY <1>3, <2>1, <2>2, Lengths
  <2>3. CASE replies = <<>> /\ inbox = <<TheReply>>
    BY <1>3, <2>1, <2>3, Lengths
  <2> QED BY <2>1, <2>2, <2>3
<1> QED BY <1>1, <1>2, <1>3 DEF IInv, OneInFlight

(* receive_thread closes a marked connection, with what was on it. *)
LEMMA TestStep ==
  ASSUME IInv, Test
  PROVE  IInv'
<1>1. CASE ~disconnect
  BY <1>1, NothingMoves DEF Test, IInv, TypeOK
<1>2. CASE disconnect
  <2>1. /\ replies' = <<>> /\ inbox' = <<>> /\ requests' = Orphans
        /\ caller' = [caller EXCEPT !.cut = @ \/ Waits]
        /\ UNCHANGED <<calls, serUp, crashes, disconnect>>
        /\ fd' = "none" /\ receiver' = "top"
    BY <1>2 DEF Test
  <2>2. caller' \in Threcs
    BY <2>1 DEF IInv, TypeOK, Threcs, Waits
  <2>3. requests = <<>> => requests' = <<>>
    BY <2>1 DEF Orphans
  <2>4. ASSUME NEW open, requests = <<[call |-> This, cmd |-> caller.cmd, open |-> open]>>
        PROVE  requests' = <<[call |-> This, cmd |-> caller.cmd, open |-> FALSE]>>
    <3> DEFINE r == [call |-> This, cmd |-> caller.cmd, open |-> open]
                f == [call |-> This, cmd |-> caller.cmd, open |-> FALSE]
    <3>1. Len(requests) = 1 /\ requests[1] = r
      BY <2>4
    <3>2. r.call = This /\ r.cmd = caller.cmd
      OBVIOUS
    <3>3. Orphans = [i \in 1 .. 1 |-> f]
      <4>1. \A i \in 1 .. 1 : requests[i] = r
        BY <3>1
      <4>2. requests[1].call = This /\ requests[1].cmd = caller.cmd
        BY <3>1, <3>2
      <4> QED BY <3>1, <4>1, <4>2 DEF Orphans
    <3> HIDE DEF f
    <3>4. [i \in 1 .. 1 |-> f] = <<f>>
      OBVIOUS
    <3> QED BY <2>1, <3>3, <3>4 DEF f
  <2>5. requests' \in Seq([call : 1 .. MaxCalls, cmd : Commands, open : BOOLEAN])
    <3>1. CASE requests = <<>>
      BY <2>3, <3>1, Singleton
    <3>2. CASE requests # <<>>
      <4>1. Asked /\ This \in 1 .. MaxCalls /\ caller.cmd \in Commands
        BY <3>2, Queues DEF IInv, TypeOK, OneInFlight, Asked, Waits, This
      <4>2. requests' = <<[call |-> This, cmd |-> caller.cmd, open |-> FALSE]>>
        BY <2>4, <4>1 DEF Asked
      <4>3. [call |-> This, cmd |-> caller.cmd, open |-> FALSE]
              \in [call : 1 .. MaxCalls, cmd : Commands, open : BOOLEAN]
        BY <4>1
      <4> QED BY <4>2, <4>3, Singleton
    <3> QED BY <3>1, <3>2
  <2>6. TypeOK'
    BY <2>1, <2>2, <2>5, Singleton DEF IInv, TypeOK
  <2>7. OneCall'
    BY <2>1, CallGoesOn DEF IInv, TypeOK, Threcs
  <2>8. /\ This' = This /\ Waits' = Waits /\ TheReply' = TheReply /\ caller'.pc = caller.pc
        /\ caller'.release = caller.release /\ caller'.got = caller.got
        /\ caller'.status = caller.status /\ caller'.cmd = caller.cmd /\ caller'.cnt = caller.cnt
    BY <2>1 DEF IInv, TypeOK, Threcs, This, Waits, TheReply
  <2>9. (NotSent \/ Asked \/ Answered \/ Cut \/ Released)'
    <3>1. NotSent => NotSent'
      BY <2>1, <2>3, <2>8 DEF NotSent, Nothing
    <3>2. Asked => Asked'
      BY <2>1, <2>4, <2>8 DEF Asked
    <3>3. Answered \/ Cut => Cut'
      BY <2>1, <2>3, <2>8 DEF Answered, Cut, Nothing
    <3>4. Released => Released'
      BY <2>1, <2>3, <2>8 DEF Released, Nothing
    <3> QED BY <3>1, <3>2, <3>3, <3>4 DEF IInv, OneInFlight
  <2>10. OneInFlight'
    BY <2>8, <2>9 DEF IInv, OneInFlight
  <2> QED BY <2>6, <2>7, <2>10 DEF IInv
<1> QED BY <1>1, <1>2 DEF IInv, TypeOK

(* receive_thread reads the answer. *)
LEMMA ReadStep ==
  ASSUME IInv, Read
  PROVE  IInv'
<1>1. Answered /\ inbox = <<TheReply>> /\ requests = <<>> /\ replies = <<>>
  BY Queues DEF Read, Answered
<1>2. /\ TheReply \in Packets /\ caller \in Threcs
      /\ TheReply \in [call : 0 .. MaxCalls, cmd : Commands \cup {"none"}]
  BY <1>1, Singleton DEF IInv, TypeOK, OneInFlight, Answered, Waits, TheReply, Packets, This
<1>3. /\ caller' = [caller EXCEPT !.release = TRUE, !.status = 0, !.got = TheReply]
      /\ inbox' = <<>> /\ UNCHANGED <<requests, replies, calls>>
  BY <1>1, <1>2, Singleton DEF Read, ser
<1>4. caller' \in Threcs
  <2> DEFINE got == TheReply
  <2> HIDE DEF got
  <2>1. got \in [call : 0 .. MaxCalls, cmd : Commands \cup {"none"}] /\ 0 \in 0 .. 1
    BY <1>2 DEF got
  <2>2. caller' = [caller EXCEPT !.release = TRUE, !.status = 0, !.got = got]
    BY <1>3 DEF got
  <2> QED BY <1>2, <2>1, <2>2 DEF Threcs
<1>5. TypeOK'
  BY <1>3, <1>4, Singleton DEF IInv, TypeOK, Read, ser
<1>6. OneCall'
  BY <1>2, <1>3, CallGoesOn DEF IInv, Threcs
<1>7. Released'
  BY <1>1, <1>2, <1>3 DEF Released, Answered, Waits, Nothing, TheReply, This, Threcs
<1>8. OneInFlight'
  BY <1>2, <1>3, <1>7 DEF IInv, OneInFlight, This, Threcs
<1> QED BY <1>5, <1>6, <1>8 DEF IInv
-----------------------------------------------------------------------------
(* The server executes a request: that of the present call, for the first   *)
(* time.                                                                    *)
LEMMA ServeStep ==
  ASSUME IInv, Serve
  PROVE  IInv' /\ This \in DOMAIN calls /\ calls[This].result = <<>>
         /\ calls[This].executed = 0 /\ calls' = [calls EXCEPT ![This].executed = 1]
<1> USE DEF drw
<1>1. Asked
  BY Queues DEF Serve
<1>2. PICK open \in BOOLEAN : requests = <<[call |-> This, cmd |-> caller.cmd, open |-> open]>>
  BY <1>1 DEF Asked
<1>3. /\ Head(requests).call = This /\ Head(requests).cmd = caller.cmd
      /\ Head(requests).open = open /\ Tail(requests) = <<>>
  BY <1>2
<1>4. /\ This \in 1 .. MaxCalls /\ This \in DOMAIN calls /\ calls[This] \in Records
      /\ calls[This].executed = 0 /\ calls[This].result = <<>>
      /\ caller.cmd \in Commands /\ caller \in Threcs
  BY <1>1 DEF IInv, TypeOK, OneInFlight, OneCall, Asked, Waits, This
<1>5. /\ calls' = [calls EXCEPT ![This].executed = @ + 1] /\ requests' = <<>>
      /\ UNCHANGED <<fd, disconnect, receiver, caller, inbox, serUp, crashes>>
      /\ replies' \in {<<>>, <<TheReply>>}
  BY <1>1, <1>3, Singleton DEF Serve, Reply, TheReply, Asked
<1>6. /\ calls' = [calls EXCEPT ![This].executed = 1] /\ calls' \in Seq(Records)
      /\ Len(calls') = Len(calls) /\ DOMAIN calls' = DOMAIN calls
      /\ calls'[This].executed = 1
      /\ \A k \in DOMAIN calls : calls'[k].result = calls[k].result
  <2> DEFINE x == [calls[This] EXCEPT !.executed = 1]
  <2>1. x \in Records /\ x.executed = 1 /\ x.result = calls[This].result
    BY <1>4 DEF Records
  <2>2. calls' = [calls EXCEPT ![This] = x]
    BY <1>4, <1>5
  <2>3. calls \in Seq(Records)
    BY DEF IInv, TypeOK
  <2>4. /\ [calls EXCEPT ![This] = x] \in Seq(Records)
        /\ Len([calls EXCEPT ![This] = x]) = Len(calls)
        /\ DOMAIN [calls EXCEPT ![This] = x] = DOMAIN calls
    BY <1>4, <2>1, <2>3, Replaced
  <2> QED BY <1>4, <2>1, <2>2, <2>4
<1>7. TypeOK'
  <2>1. TheReply \in Packets
    BY <1>4 DEF TheReply, Packets
  <2>2. replies' \in Seq(Packets)
    BY <1>5, <2>1, Singleton
  <2>3. requests' \in Seq([call : 1 .. MaxCalls, cmd : Commands, open : BOOLEAN])
    BY <1>5, Singleton
  <2> QED BY <1>5, <1>6, <2>2, <2>3 DEF IInv, TypeOK
<1>8. OneCall'
  BY <1>5, <1>6 DEF IInv, OneCall, This
<1>9. OneInFlight'
  <2>1. This' = This /\ TheReply' = TheReply /\ Waits'
    BY <1>1, <1>5, <1>6 DEF This, TheReply, Waits, Asked
  <2>2. (Answered \/ Cut)'
    BY <1>1, <1>5, <1>6, <2>1 DEF Asked, Answered, Cut, Nothing
  <2> QED BY <1>5, <2>1, <2>2 DEF IInv, OneInFlight
<1> QED BY <1>4, <1>6, <1>7, <1>8, <1>9 DEF IInv

(* A request is lost with its connection. *)
LEMMA ReapStep ==
  ASSUME IInv, Reap
  PROVE  IInv'
<1>1. Asked /\ Tail(requests) = <<>>
  BY Queues DEF Reap, Asked
<1>2. requests' = <<>> /\ UNCHANGED <<fd, disconnect, receiver, caller, inbox, replies, serUp, crashes, calls>>
  BY <1>1 DEF Reap, drw
<1>3. TypeOK'
  BY <1>2, Singleton DEF IInv, TypeOK
<1>4. OneCall'
  BY <1>2, CallGoesOn DEF IInv
<1>5. Cut'
  BY <1>1, <1>2 DEF Asked, Cut, Nothing, Waits, This
<1>6. OneInFlight'
  BY <1>2, <1>5 DEF IInv, OneInFlight, This
<1> QED BY <1>3, <1>4, <1>6 DEF IInv

(* The answer leaves the server. *)
LEMMA WriteToCliStep ==
  ASSUME IInv, WriteToCli
  PROVE  IInv'
<1>1. Answered /\ replies = <<TheReply>> /\ inbox = <<>> /\ requests = <<>>
  BY Queues DEF WriteToCli, Answered
<1>2. /\ inbox' = <<TheReply>> /\ replies' = <<>>
      /\ UNCHANGED <<fd, disconnect, receiver, caller, requests, serUp, crashes, calls>>
  BY <1>1, Singleton DEF WriteToCli
<1>3. TypeOK'
  <2>1. TheReply \in Packets
    BY <1>1, Singleton DEF IInv, TypeOK, OneInFlight, Answered, Waits, TheReply, Packets, This
  <2> QED BY <1>2, <2>1, Singleton DEF IInv, TypeOK
<1>4. OneCall'
  BY <1>2, CallGoesOn DEF IInv
<1>5. Answered'
  BY <1>1, <1>2 DEF Answered, Waits, This, TheReply
<1>6. OneInFlight'
  BY <1>2, <1>5 DEF IInv, OneInFlight, This
<1> QED BY <1>3, <1>4, <1>6 DEF IInv

(* The server dies, with what it had not sent, and perhaps with what it had.*)
LEMMA SerCrashStep ==
  ASSUME IInv, SerCrash
  PROVE  IInv'
<1>1. /\ requests' = <<>> /\ replies' = <<>> /\ inbox' \in {inbox, <<>>}
      /\ caller' = [caller EXCEPT !.cut = @ \/ Waits]
      /\ UNCHANGED <<calls, disconnect, receiver>>
      /\ fd' \in {fd, "gone"} /\ serUp' \in BOOLEAN
  BY DEF SerCrash
<1>2. caller' \in Threcs
  BY <1>1 DEF IInv, TypeOK, Threcs, Waits
<1>3. crashes' \in 0 .. MaxCrashes
  BY BoundsAssumption DEF IInv, TypeOK, SerCrash
<1>4. TypeOK'
  <2>1. inbox \in Seq(Packets) /\ <<>> \in Seq(Packets)
    BY DEF IInv, TypeOK
  <2>2. requests' \in Seq([call : 1 .. MaxCalls, cmd : Commands, open : BOOLEAN])
    BY <1>1, Singleton
  <2> QED BY <1>1, <1>2, <1>3, <2>1, <2>2 DEF IInv, TypeOK
<1>5. OneCall'
  BY <1>1, CallGoesOn DEF IInv, TypeOK, Threcs
<1>6. /\ This' = This /\ Waits' = Waits /\ TheReply' = TheReply /\ caller'.pc = caller.pc
      /\ caller'.release = caller.release /\ caller'.got = caller.got
      /\ caller'.status = caller.status /\ caller'.cmd = caller.cmd /\ caller'.cnt = caller.cnt
  BY <1>1 DEF IInv, TypeOK, Threcs, This, Waits, TheReply
<1>7. (NotSent \/ Asked \/ Answered \/ Cut \/ Released)'
  <2>1. NotSent => NotSent'
    BY <1>1, <1>6 DEF NotSent, Nothing
  <2>2. Asked \/ Cut => Cut'
    BY <1>1, <1>6 DEF Asked, Cut, Nothing
  <2>3. Answered => (Answered \/ Cut)'
    BY <1>1, <1>6 DEF Answered, Cut, Nothing
  <2>4. Released => Released'
    BY <1>1, <1>6 DEF Released, Nothing
  <2> QED BY <2>1, <2>2, <2>3, <2>4 DEF IInv, OneInFlight
<1>8. OneInFlight'
  BY <1>6, <1>7 DEF IInv, OneInFlight
<1> QED BY <1>4, <1>5, <1>8 DEF IInv

-----------------------------------------------------------------------------
(* The initial states satisfy the invariant. *)
LEMMA Initially == Init => IInv
<1> SUFFICES ASSUME Init PROVE IInv
  OBVIOUS
<1>1. NewThrec \in Threcs
  BY RetriesAssumption, BoundsAssumption DEF NewThrec, Threcs
<1>2. TypeOK
  BY <1>1, Singleton, BoundsAssumption DEF Init, TypeOK
<1>3. OneCall /\ OneInFlight
  BY DEF Init, OneCall, OneInFlight, NotSent, Nothing, NewThrec
<1> QED BY <1>2, <1>3 DEF IInv

(* Every step preserves the invariant. *)
LEMMA EveryStep == IInv /\ [Next]_vars => IInv'
<1> SUFFICES ASSUME IInv, [Next]_vars PROVE IInv'
  OBVIOUS
<1>1. CASE Call
  BY <1>1, CallStep
<1>2. CASE SendAndReceive
  BY <1>2, TurnStep, WriteStep, SetDisconnectStep, WakeStep DEF SendAndReceive
<1>3. CASE Top \/ Connect \/ ReadEof
  BY <1>3, NothingMoves DEF Top, Connect, ReadEof, ser, IInv, TypeOK
<1>4. CASE Test \/ Read
  BY <1>4, TestStep, ReadStep
<1>5. CASE SelectLoop
  BY <1>5, ServeStep, ReapStep, WriteToCliStep DEF SelectLoop
<1>6. CASE SerCrash
  BY <1>6, SerCrashStep
<1>7. CASE SerRestart
  BY <1>7, NothingMoves DEF SerRestart, drw, IInv, TypeOK
<1>8. CASE UNCHANGED vars
  BY <1>8, NothingMoves DEF vars, IInv, TypeOK
<1> QED BY <1>1, <1>2, <1>3, <1>4, <1>5, <1>6, <1>7, <1>8 DEF Next, ReceiveThread

(* IInv holds of every behaviour: a request or its answer is in one place,  *)
(* the caller waits for it, and it is what fs_sendandreceive returns.       *)
THEOREM Invariance == Spec => []IInv
BY Initially, EveryStep, PTL DEF Spec

(* Every variable of DrwCalls keeps its type. *)
THEOREM TypeCorrect == Spec => []TypeOK
BY Invariance, PTL DEF IInv

(* Every step of drw and the server is one that a call may take.            *)
LEMMA StepOfCalls == IInv /\ [Next]_vars => [Abstract!Next]_calls
<1> SUFFICES ASSUME IInv, [Next]_vars PROVE [Abstract!Next]_calls
  OBVIOUS
<1>1. CASE Call
  BY <1>1 DEF Call, Abstract!Next, Abstract!Call
<1>2. CASE Turn
  <2>1. CASE Returns(<<0>>)
    <3>1. NotSent /\ caller.pc # "idle"
      BY <1>2 DEF IInv, OneInFlight, NotSent, Asked, Answered, Cut, Released, Waits, Turn
    <3>2. This \in DOMAIN calls /\ calls[This].result = <<>> /\ calls[This].executed = 0
      BY <3>1 DEF IInv, TypeOK, OneCall, NotSent, This
    <3> QED BY <2>1, <3>2 DEF Returns, Abstract!Next, Abstract!GiveUp, Abstract!Pending
  <2> QED BY <1>2, <2>1 DEF Turn
<1>3. CASE Wake
  <2>1. Returns(<<This>>) /\ calls[This].executed = 1 /\ This > 0 /\ caller.pc # "idle"
    BY <1>3, WakeStep DEF IInv, OneInFlight, Wake
  <2>2. This \in DOMAIN calls /\ calls[This].result = <<>>
    BY <2>1 DEF IInv, TypeOK, OneCall, This
  <2> QED BY <2>1, <2>2 DEF Returns, Abstract!Next, Abstract!Return, Abstract!Pending
<1>4. CASE Serve
  BY <1>4, ServeStep DEF Abstract!Next, Abstract!Execute, Abstract!Pending
<1>5. CASE WriteFails \/ Write \/ WriteLost \/ SetDisconnect \/ ReceiveThread
           \/ Reap \/ WriteToCli \/ SerCrash \/ SerRestart \/ UNCHANGED vars
  BY <1>5 DEF WriteFails, Write, WriteLost, SetDisconnect, ReceiveThread, Top, Connect, Test,
     Read, ReadEof, Reap, WriteToCli, SerCrash, SerRestart, vars
<1> QED BY <1>1, <1>2, <1>3, <1>4, <1>5 DEF Next, SendAndReceive, SelectLoop

(* fs_sendandreceive keeps the promises of RemoteCalls through any losses   *)
(* of the connection: at most one execution, the call's own answer, and no  *)
(* effect of a call that gives up.                                          *)
THEOREM CallsKeepPromises == Spec => CallsAtMostOnce
<1>1. Init => calls = <<>>
  BY DEF Init
<1> QED BY <1>1, Invariance, StepOfCalls, PTL DEF Spec, CallsAtMostOnce, Abstract!Spec
=============================================================================
