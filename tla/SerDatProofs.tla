---------------------------- MODULE SerDatProofs ----------------------------
(***************************************************************************)
(* Proofs about SerDat, for any number of data servers and of connections: *)
(* IInv is an inductive invariant, and with it OneCreation,                *)
(* LockAwaitsAnswer, and what is promised about the list hold of every     *)
(* behaviour, crashes included.                                            *)
(***************************************************************************)
EXTENDS SerDat, FiniteSetTheorems, TLAPS

USE NullAssumption DEF Modes

(* A sequence that has an element has a head and a tail of the same type. *)
LEMMA Queue ==
  ASSUME NEW S, NEW s \in Seq(S)
  PROVE  /\ s # <<>> => Head(s) \in S /\ Tail(s) \in Seq(S) /\ Len(Tail(s)) = Len(s) - 1
         /\ Len(s) \in Nat /\ (Len(s) = 0 <=> s = <<>>)
         /\ \A x \in S : /\ Append(s, x) \in Seq(S) /\ Append(s, x) # <<>>
                          /\ Len(Append(s, x)) = Len(s) + 1
  OBVIOUS

(* The places that hold something, now and after a step. *)
LEMMA OutstandingPlaces ==
  ASSUME NEW p
  PROVE  p \in Outstanding <=>
           \/ \E d \in Dats : p = <<"inbox", d>> /\ peer[d] \in Infos /\ inbox[d] # <<>>
           \/ \E d \in Dats : p = <<"answer", d>> /\ peer[d] \in Infos /\ answer[d] # <<>>
           \/ \E i \in Infos : p = <<"received", i>> /\ received[i] # <<>>
  BY DEF Outstanding, Places, Holds

(* The same after a step. *)
LEMMA OutstandingPlacesPrime ==
  ASSUME NEW p
  PROVE  p \in Outstanding' <=>
           \/ \E d \in Dats : p = <<"inbox", d>> /\ peer'[d] \in Infos /\ inbox'[d] # <<>>
           \/ \E d \in Dats : p = <<"answer", d>> /\ peer'[d] \in Infos /\ answer'[d] # <<>>
           \/ \E i \in Infos : p = <<"received", i>> /\ received'[i] # <<>>
  BY DEF Outstanding, Places, Holds

(* A step after which every place is as it was, or empty. *)
LEMMA PlacesEmptied ==
  ASSUME \A e \in Dats : peer'[e] \in Infos =>
           /\ inbox'[e] # <<>> => peer[e] = peer'[e] /\ inbox'[e] = inbox[e]
           /\ answer'[e] # <<>> => peer[e] = peer'[e] /\ answer'[e] = answer[e],
         \A i \in Infos : received'[i] # <<>> => received'[i] = received[i]
  PROVE  \A p \in Outstanding' : p \in Outstanding /\ Holds(p)' = Holds(p)
<1> SUFFICES ASSUME NEW p \in Outstanding' PROVE p \in Outstanding /\ Holds(p)' = Holds(p)
  OBVIOUS
<1>1. CASE \E d \in Dats : p = <<"inbox", d>> /\ peer'[d] \in Infos /\ inbox'[d] # <<>>
  BY <1>1, OutstandingPlaces DEF Holds
<1>2. CASE \E d \in Dats : p = <<"answer", d>> /\ peer'[d] \in Infos /\ answer'[d] # <<>>
  BY <1>2, OutstandingPlaces DEF Holds
<1>3. CASE \E i \in Infos : p = <<"received", i>> /\ received'[i] # <<>>
  BY <1>3, OutstandingPlaces DEF Holds
<1> QED
  BY <1>1, <1>2, <1>3, OutstandingPlacesPrime

(* A step after which at most one place, with one element, is in use, and   *)
(* the mutex is held.                                                       *)
LEMMA OneMoves ==
  ASSUME sock_lock', NEW r, \A p \in Outstanding' : p = r, Len(Holds(r)') = 1
  PROVE  OneCreation'
  BY DEF OneCreation

(* A step that only takes something away. *)
LEMMA OneShrinks ==
  ASSUME OneCreation, sock_lock' = sock_lock,
         \A p \in Outstanding' : p \in Outstanding /\ Holds(p)' = Holds(p)
  PROVE  OneCreation'
  BY DEF OneCreation

(* A new connection at the head of the list preserves the invariant. *)
LEMMA AcceptLinkStep ==
  ASSUME CreationInv, NEW d \in Dats, NEW i \in Infos, AcceptLink(d, i)
  PROVE  CreationInv'
<1>1. TypeOK'
  BY DEF CreationInv, TypeOK, AcceptLink
<1>2. ListShape'
  BY DEF CreationInv, TypeOK, AcceptLink, ListShape
<1>3. FreedShape'
  BY DEF CreationInv, AcceptLink, FreedShape
<1>4. PeerShape'
  BY DEF CreationInv, AcceptLink, PeerShape
<1>5. ReceiverShape'
  BY NullAssumption DEF CreationInv, TypeOK, AcceptLink, ReceiverShape, IsLinked
<1>6. LinksUp'
  BY DEF CreationInv, TypeOK, ReceiverShape, AcceptLink, Looping, LinksUp, IsLinked
<1>7. OneCreation'
  <2>1. \A p \in Outstanding' : p \in Outstanding /\ Holds(p)' = Holds(p)
    BY OutstandingPlaces, OutstandingPlacesPrime DEF CreationInv, TypeOK, AcceptLink, dats, PeerShape, Holds
  <2> QED
    BY <2>1, OneShrinks DEF CreationInv, AcceptLink
<1>8. LockAwaitsAnswer'
  BY DEF CreationInv, AcceptLink, LockAwaitsAnswer, Outstanding, Places, Holds, FreedShape
<1> QED
  BY <1>1, <1>2, <1>3, <1>4, <1>5, <1>6, <1>7, <1>8 DEF CreationInv

(* And so does setting what it holds. *)
LEMMA AcceptInitStep ==
  ASSUME CreationInv, AcceptInit
  PROVE  CreationInv'
<1>1. TypeOK'
  BY DEF CreationInv, TypeOK, AcceptInit, list, dats, Modes
<1>2. ListShape'
  BY DEF CreationInv, AcceptInit, list, ListShape
<1>3. FreedShape'
  BY DEF CreationInv, TypeOK, AcceptInit, list, FreedShape
<1>4. PeerShape'
  BY DEF CreationInv, AcceptInit, list, dats, PeerShape
<1>5. ReceiverShape'
  BY DEF CreationInv, TypeOK, AcceptInit, list, dats, ReceiverShape, IsLinked
<1>6. LinksUp'
  BY DEF CreationInv, TypeOK, AcceptInit, list, dats, LinksUp, IsLinked
<1>7. OneCreation'
  BY DEF CreationInv, AcceptInit, dats, OneCreation, Outstanding, Holds
<1>8. LockAwaitsAnswer'
  BY DEF CreationInv, AcceptInit, dats, LockAwaitsAnswer, Outstanding, Holds
<1> QED
  BY <1>1, <1>2, <1>3, <1>4, <1>5, <1>6, <1>7, <1>8 DEF CreationInv

(* Freeing a connection marked KILL preserves the invariant. *)
LEMMA ReapStep ==
  ASSUME CreationInv, NEW i \in Infos, Reap(i)
  PROVE  CreationInv'
<1>1. TypeOK'
  <2>1. dat_info_head' \in Infos \cup {NULL}
    BY DEF CreationInv, TypeOK, Reap
  <2>2. next' \in [Infos -> Infos \cup {NULL}]
    BY DEF CreationInv, TypeOK, Reap
  <2>3. received' \in [Infos -> Seq({0, 1})]
    BY DEF CreationInv, TypeOK, Reap
  <2>4. peer' \in [Dats -> Infos \cup {NULL, Lost}]
    BY DEF CreationInv, TypeOK, Reap
  <2> QED
    BY <2>1, <2>2, <2>3, <2>4 DEF CreationInv, TypeOK, Reap, Looping, loop
<1>2. ListShape'
  <2>1. CASE i = dat_info_head
    BY <2>1 DEF CreationInv, TypeOK, Reap, ListShape
  <2>2. CASE i # dat_info_head
    <3>1. PICK pre_info \in live :
            next[pre_info] = i /\ next' = [next EXCEPT ![pre_info] = next[i], ![i] = NULL]
      BY <2>2 DEF Reap
    <3>2. \A j \in live' : next'[j] = IF j = pre_info THEN next[i] ELSE next[j]
      BY <3>1 DEF CreationInv, TypeOK, Reap
    <3>3. live' = live \ {i} /\ i \in live /\ dat_info_head' = dat_info_head
      BY <2>2 DEF Reap
    <3>4. /\ dat_info_head \in live \cup {NULL}
          /\ \A j \in live : /\ next[j] \in live \cup {NULL} /\ (next[j] = i => j = pre_info)
                             /\ next[j] # NULL => next[j] # dat_info_head
          /\ \A j, k \in live : next[j] = next[k] /\ next[j] # NULL => j = k
      BY <3>1 DEF CreationInv, TypeOK, ListShape
    <3>5. \A j \in live' : /\ next'[j] \in live' \cup {NULL}
                           /\ next'[j] # NULL => next'[j] # dat_info_head'
      <4>1. SUFFICES ASSUME NEW j \in live'
                     PROVE  /\ next'[j] \in live' \cup {NULL}
                            /\ next'[j] # NULL => next'[j] # dat_info_head'
        OBVIOUS
      <4>2. CASE j = pre_info
        <5>1. next'[j] = next[i] /\ i # pre_info
          BY <3>2, <3>3, <4>1, <4>2
        <5>2. next[i] # i /\ next[i] \in live \cup {NULL}
          BY <3>3, <3>4, <5>1
        <5> QED
          BY <3>3, <3>4, <5>1, <5>2
      <4>3. CASE j # pre_info
        BY <3>2, <3>3, <3>4, <4>1, <4>3
      <4> QED
        BY <4>2, <4>3
    <3>6. \A j, k \in live' : next'[j] = next'[k] /\ next'[j] # NULL => j = k
      BY <3>1, <3>2, <3>3, <3>4
    <3> QED
      BY <2>2, <3>3, <3>4, <3>5, <3>6 DEF ListShape
  <2> QED
    BY <2>1, <2>2
<1>3. FreedShape'
  BY DEF CreationInv, TypeOK, Reap, FreedShape
<1>4. PeerShape'
  BY DEF CreationInv, Reap, PeerShape
<1>5. ReceiverShape'
  BY NullAssumption DEF CreationInv, TypeOK, Reap, ReceiverShape, IsLinked
<1>6. LinksUp'
  BY DEF CreationInv, Reap, Looping, LinksUp
<1>7. OneCreation'
  BY DEF CreationInv, Reap, OneCreation, Outstanding, Places, Holds
<1>8. LockAwaitsAnswer'
  BY DEF CreationInv, Reap, Looping, LockAwaitsAnswer, LinksUp
<1> QED
  BY <1>1, <1>2, <1>3, <1>4, <1>5, <1>6, <1>7, <1>8 DEF CreationInv

(* create_new_chunk preserves the invariant. *)
LEMMA CreateChunkStep ==
  ASSUME CreationInv, CreateChunk
  PROVE  CreationInv'
<1>1. TypeOK'
  BY DEF CreationInv, TypeOK, CreateChunk, list, dats, ListShape
<1>2. ListShape'
  BY DEF CreationInv, CreateChunk, list, ListShape
<1>3. FreedShape'
  BY DEF CreationInv, CreateChunk, list, FreedShape
<1>4. PeerShape'
  BY DEF CreationInv, CreateChunk, list, dats, PeerShape
<1>5. ReceiverShape'
  BY DEF CreationInv, CreateChunk, list, dats, ReceiverShape, IsLinked
<1>6. LinksUp'
  BY DEF CreationInv, CreateChunk, list, dats, LinksUp, IsLinked
<1>7. OneCreation'
  BY DEF CreationInv, CreateChunk, dats, OneCreation, Outstanding, Holds
<1>8. LockAwaitsAnswer'
  BY DEF CreationInv, CreateChunk, dats, LockAwaitsAnswer, Outstanding, Holds
<1> QED
  BY <1>1, <1>2, <1>3, <1>4, <1>5, <1>6, <1>7, <1>8 DEF CreationInv

(* send_chunkid preserves the invariant: the one request is the one it sends. *)
LEMMA SendChunkStep ==
  ASSUME CreationInv, SendChunk
  PROVE  CreationInv'
<1>1. TypeOK'
  <2>1. inbox' \in [Dats -> Seq(Nat)]
    <3>1. CASE IsLinked(waiting)
      <4>1. \A d \in Dats : Append(inbox[d], next_chunkid) \in Seq(Nat)
        BY Queue DEF CreationInv, TypeOK
      <4> QED
        <5>1. inbox' = [e \in Dats |-> IF peer[e] = waiting THEN Append(inbox[e], next_chunkid)
                                                           ELSE inbox[e]]
          BY <3>1 DEF SendChunk
        <5>2. \A e \in Dats : inbox[e] \in Seq(Nat)
          BY DEF CreationInv, TypeOK
        <5> QED
          BY <4>1, <5>1, <5>2
    <3> QED
      BY <3>1 DEF CreationInv, TypeOK, SendChunk
  <2>2. mode' \in [Infos -> Modes]
    BY DEF CreationInv, TypeOK, SendChunk
  <2> QED
    BY <2>1, <2>2 DEF CreationInv, TypeOK, SendChunk, list
<1>2. ListShape'
  BY DEF CreationInv, SendChunk, list, ListShape
<1>3. FreedShape'
  BY DEF CreationInv, TypeOK, SendChunk, list, FreedShape
<1>4. PeerShape'
  BY DEF CreationInv, SendChunk, list, PeerShape
<1>5. ReceiverShape'
  <2>1. ASSUME reading = "yes" PROVE info \in Infos /\ received[info] = <<>>
    <3>1. info \in Infos
      BY <2>1 DEF CreationInv, TypeOK, ReceiverShape
    <3> QED
      BY <3>1, OutstandingPlaces DEF CreationInv, OneCreation, SendChunk
  <2> QED
    BY <2>1 DEF CreationInv, TypeOK, SendChunk, list, ReceiverShape, IsLinked
<1>6. LinksUp'
  BY DEF CreationInv, TypeOK, SendChunk, list, LinksUp, IsLinked
<1>7. OneCreation'
  <2>1. Outstanding = {}
    BY DEF CreationInv, SendChunk, OneCreation
  <2>2. CASE IsLinked(waiting)
    <3>1. PICK d \in Dats : peer[d] = waiting
      BY <2>2 DEF IsLinked
    <3>2. \A e \in Dats : peer[e] \in Infos =>
            inbox'[e] = (IF e = d THEN Append(inbox[d], next_chunkid) ELSE inbox[e])
      BY <2>2, <3>1 DEF CreationInv, TypeOK, SendChunk, PeerShape, ListShape
    <3>3. \A p \in Outstanding' : p = <<"inbox", d>>
      BY <2>1, <3>2, OutstandingPlaces, OutstandingPlacesPrime DEF SendChunk
    <3>4. inbox[d] = <<>> /\ peer[d] \in Infos
      BY <2>1, <3>1, OutstandingPlaces DEF CreationInv, TypeOK, SendChunk
    <3>5. Len(Holds(<<"inbox", d>>)') = 1
      BY <3>2, <3>4, Queue DEF CreationInv, TypeOK, SendChunk, Holds
    <3> QED
      BY <3>3, <3>5, OneMoves DEF SendChunk
  <2>3. CASE ~IsLinked(waiting)
    <3>1. Outstanding' = {}
      BY <2>1, <2>3, OutstandingPlaces, OutstandingPlacesPrime DEF SendChunk
    <3> QED
      BY <3>1 DEF OneCreation, SendChunk
  <2> QED
    BY <2>2, <2>3
<1>8. LockAwaitsAnswer'
  <2> SUFFICES ASSUME ~crashed, ~met
               PROVE  Outstanding' # {}
    BY DEF LockAwaitsAnswer, SendChunk
  <2>1. PICK d \in Dats : peer[d] = waiting /\ waiting \in Infos
    BY DEF CreationInv, TypeOK, LinksUp, IsLinked, SendChunk
  <2>2. inbox'[d] = Append(inbox[d], next_chunkid)
    BY <2>1 DEF CreationInv, TypeOK, SendChunk, IsLinked
  <2>3. Append(inbox[d], next_chunkid) # <<>>
    <3>1. inbox[d] \in Seq(Nat) /\ next_chunkid \in Nat
      BY DEF CreationInv, TypeOK
    <3> QED
      BY <3>1, Queue
  <2>4. inbox'[d] # <<>> /\ peer'[d] \in Infos
    BY <2>1, <2>2, <2>3 DEF SendChunk
  <2> QED
    BY <2>4, OutstandingPlacesPrime
<1> QED
  BY <1>1, <1>2, <1>3, <1>4, <1>5, <1>6, <1>7, <1>8 DEF CreationInv

(* receive_thread starts at the head of the list. *)
LEMMA RecvWakeStep ==
  ASSUME CreationInv, RecvWake
  PROVE  CreationInv'
<1>1. TypeOK'
  BY DEF CreationInv, TypeOK, RecvWake, loop, list, dats
<1>2. ListShape'
  BY DEF CreationInv, RecvWake, list, ListShape
<1>3. FreedShape'
  BY DEF CreationInv, RecvWake, list, FreedShape
<1>4. PeerShape'
  BY DEF CreationInv, RecvWake, list, dats, PeerShape
<1>5. ReceiverShape'
  BY DEF CreationInv, RecvWake, ReceiverShape
<1>6. LinksUp'
  BY DEF CreationInv, TypeOK, ReceiverShape, RecvWake, ListShape, loop, list, dats, LinksUp, IsLinked
<1>7. OneCreation'
  BY DEF CreationInv, RecvWake, dats, OneCreation, Outstanding, Holds
<1>8. LockAwaitsAnswer'
  BY DEF CreationInv, RecvWake, dats, LockAwaitsAnswer, Outstanding, Holds
<1> QED
  BY <1>1, <1>2, <1>3, <1>4, <1>5, <1>6, <1>7, <1>8 DEF CreationInv

(* receive_thread looks at a connection. *)
LEMMA RecvEnterStep ==
  ASSUME CreationInv, RecvEnter
  PROVE  CreationInv'
<1>1. TypeOK'
  BY DEF CreationInv, TypeOK, RecvEnter, loop, list, dats
<1>2. ListShape'
  BY DEF CreationInv, RecvEnter, list, ListShape
<1>3. FreedShape'
  BY DEF CreationInv, RecvEnter, list, FreedShape
<1>4. PeerShape'
  BY DEF CreationInv, RecvEnter, list, dats, PeerShape
<1>5. ReceiverShape'
  <2>1. mode[info] # "KILL" => info \in live
    BY DEF CreationInv, TypeOK, RecvEnter, FreedShape
  <2> QED
    BY <2>1 DEF RecvEnter, ReceiverShape, list
<1>6. LinksUp'
  BY DEF CreationInv, TypeOK, ReceiverShape, RecvEnter, loop, list, dats, LinksUp, IsLinked
<1>7. OneCreation'
  BY DEF CreationInv, RecvEnter, dats, OneCreation, Outstanding, Holds
<1>8. LockAwaitsAnswer'
  <2>1. Outstanding' = Outstanding /\ sock_lock' = sock_lock /\ crashed' = crashed
    BY DEF RecvEnter, dats, Outstanding, Holds
  <2>2. ~met' => ~met
    BY DEF RecvEnter
  <2> QED
    BY <2>1, <2>2 DEF CreationInv, LockAwaitsAnswer
<1> QED
  BY <1>1, <1>2, <1>3, <1>4, <1>5, <1>6, <1>7, <1>8 DEF CreationInv

(* Reading the header of an answer preserves the invariant. *)
LEMMA RecvHeaderStep ==
  ASSUME CreationInv, RecvHeader
  PROVE  CreationInv'
<1>1. TypeOK'
  BY DEF CreationInv, TypeOK, RecvHeader, loop, list, dats
<1>2. ListShape'
  BY DEF CreationInv, RecvHeader, list, ListShape
<1>3. FreedShape'
  BY DEF CreationInv, RecvHeader, list, FreedShape
<1>4. PeerShape'
  BY DEF CreationInv, RecvHeader, list, dats, PeerShape
<1>5. ReceiverShape'
  BY DEF CreationInv, RecvHeader, ReceiverShape
<1>6. LinksUp'
  BY DEF CreationInv, TypeOK, ReceiverShape, RecvHeader, loop, list, dats, LinksUp, IsLinked
<1>7. OneCreation'
  BY DEF CreationInv, RecvHeader, dats, OneCreation, Outstanding, Holds
<1>8. LockAwaitsAnswer'
  BY DEF CreationInv, RecvHeader, dats, LockAwaitsAnswer, Outstanding, Holds
<1> QED
  BY <1>1, <1>2, <1>3, <1>4, <1>5, <1>6, <1>7, <1>8 DEF CreationInv

(* get_dat_chunk_status takes the one answer and gives the mutex back. *)
LEMMA RecvDataStep ==
  ASSUME CreationInv, RecvData
  PROVE  CreationInv'
<1>1. TypeOK'
  <2>1. info \in Infos
    BY DEF CreationInv, TypeOK, RecvData, ReceiverShape
  <2>2. received' \in [Infos -> Seq({0, 1})]
    BY <2>1, Queue DEF CreationInv, TypeOK, RecvData
  <2>3. dat_errors' \in Nat
    BY DEF CreationInv, TypeOK, RecvData
  <2> QED
    BY <2>1, <2>2, <2>3 DEF CreationInv, TypeOK, RecvData, loop, list, dats
<1>2. ListShape'
  BY DEF CreationInv, RecvData, list, ListShape
<1>3. FreedShape'
  BY DEF CreationInv, RecvData, list, FreedShape
<1>4. PeerShape'
  BY DEF CreationInv, RecvData, list, dats, PeerShape
<1>5. ReceiverShape'
  BY DEF CreationInv, RecvData, ReceiverShape
<1>6. LinksUp'
  BY DEF CreationInv, TypeOK, ReceiverShape, RecvData, loop, list, dats, LinksUp, IsLinked
<1>7. OneCreation'
  <2>1. info \in Infos /\ <<"received", info>> \in Outstanding
    BY OutstandingPlaces DEF CreationInv, TypeOK, RecvData, ReceiverShape
  <2>2. Len(received[info]) = 1
    BY <2>1 DEF CreationInv, OneCreation, Holds
  <2>3. received'[info] = <<>>
    BY <2>1, <2>2, Queue DEF CreationInv, TypeOK, RecvData
  <2>4. \A i \in Infos \ {info} : received'[i] = received[i]
    BY DEF CreationInv, TypeOK, RecvData
  <2>5. peer' = peer /\ inbox' = inbox /\ answer' = answer
    BY DEF RecvData, dats
  <2>6. ASSUME NEW q \in Outstanding'
        PROVE  q \in Outstanding /\ q # <<"received", info>>
    BY <2>1, <2>3, <2>4, <2>5, OutstandingPlaces, OutstandingPlacesPrime
  <2>7. Outstanding' = {}
    BY <2>1, <2>6 DEF CreationInv, OneCreation
  <2> QED
    BY <2>7 DEF OneCreation
<1>8. LockAwaitsAnswer'
  BY DEF RecvData, LockAwaitsAnswer
<1> QED
  BY <1>1, <1>2, <1>3, <1>4, <1>5, <1>6, <1>7, <1>8 DEF CreationInv

(* A read that meets the end of file preserves the invariant. *)
LEMMA RecvEofStep ==
  ASSUME CreationInv, RecvEof
  PROVE  CreationInv'
<1>1. TypeOK'
  BY DEF CreationInv, TypeOK, RecvEof, loop, list, dats
<1>2. ListShape'
  BY DEF CreationInv, RecvEof, list, ListShape
<1>3. FreedShape'
  BY DEF CreationInv, RecvEof, list, FreedShape
<1>4. PeerShape'
  BY DEF CreationInv, RecvEof, list, dats, PeerShape
<1>5. ReceiverShape'
  BY DEF CreationInv, RecvEof, ReceiverShape
<1>6. LinksUp'
  BY DEF CreationInv, TypeOK, ReceiverShape, RecvEof, loop, list, dats, LinksUp, IsLinked
<1>7. OneCreation'
  BY DEF CreationInv, RecvEof, dats, OneCreation, Outstanding, Holds
<1>8. LockAwaitsAnswer'
  BY DEF CreationInv, RecvEof, dats, LockAwaitsAnswer, Outstanding, Holds
<1> QED
  BY <1>1, <1>2, <1>3, <1>4, <1>5, <1>6, <1>7, <1>8 DEF CreationInv

(* receive_thread goes on to the next connection. *)
LEMMA RecvNextStep ==
  ASSUME CreationInv, RecvNext
  PROVE  CreationInv'
<1>1. TypeOK'
  BY DEF CreationInv, TypeOK, RecvNext, loop, list, dats, ReceiverShape
<1>2. ListShape'
  BY DEF CreationInv, RecvNext, list, ListShape
<1>3. FreedShape'
  BY DEF CreationInv, RecvNext, list, FreedShape
<1>4. PeerShape'
  BY DEF CreationInv, RecvNext, list, dats, PeerShape
<1>5. ReceiverShape'
  BY DEF RecvNext, ReceiverShape
<1>6. LinksUp'
  BY DEF CreationInv, TypeOK, ReceiverShape, RecvNext, ListShape, loop, list, dats, LinksUp, IsLinked
<1>7. OneCreation'
  BY DEF CreationInv, RecvNext, dats, OneCreation, Outstanding, Holds
<1>8. LockAwaitsAnswer'
  BY DEF CreationInv, RecvNext, dats, LockAwaitsAnswer, Outstanding, Holds
<1> QED
  BY <1>1, <1>2, <1>3, <1>4, <1>5, <1>6, <1>7, <1>8 DEF CreationInv

(* create_file moves the one request from the inbox to the answer. *)
LEMMA DatCreateFacts ==
  ASSUME CreationInv, NEW d \in Dats, DatCreate(d)
  PROVE  /\ inbox[d] # <<>> /\ Head(inbox[d]) \in Nat
         /\ inbox' \in [Dats -> Seq(Nat)] /\ Len(inbox'[d]) = Len(inbox[d]) - 1
         /\ answer' \in [Dats -> Seq({0, 1})] /\ Len(answer'[d]) = 1 /\ answer'[d] # <<>>
         /\ files' \in [Dats -> SUBSET Nat]
         /\ \A e \in Dats \ {d} : inbox'[e] = inbox[e] /\ answer'[e] = answer[e]
         /\ peer' = peer /\ received' = received
         /\ sock_lock' = sock_lock /\ crashed' = crashed
<1>1. inbox \in [Dats -> Seq(Nat)] /\ answer \in [Dats -> Seq({0, 1})] /\ files \in [Dats -> SUBSET Nat]
  BY DEF CreationInv, TypeOK
<1>2. inbox[d] # <<>> /\ Head(inbox[d]) \in Nat /\ Tail(inbox[d]) \in Seq(Nat)
      /\ Len(Tail(inbox[d])) = Len(inbox[d]) - 1
  BY <1>1, Queue DEF DatCreate
<1>3. inbox' = [inbox EXCEPT ![d] = Tail(inbox[d])]
  BY DEF DatCreate
<1>4. PICK status \in {0, 1} : answer' = [answer EXCEPT ![d] = <<status>>]
  BY DEF DatCreate
<1>5. <<status>> \in Seq({0, 1}) /\ Len(<<status>>) = 1 /\ <<status>> # <<>>
  OBVIOUS
<1>6. files' = [files EXCEPT ![d] = files[d] \cup {Head(inbox[d])}] \/ files' = files
  BY DEF DatCreate
<1>7. files' \in [Dats -> SUBSET Nat]
  BY <1>1, <1>2, <1>6
<1>8. /\ answer' \in [Dats -> Seq({0, 1})] /\ answer'[d] = <<status>>
      /\ \A e \in Dats \ {d} : answer'[e] = answer[e]
  BY <1>1, <1>4, <1>5
<1>9. /\ inbox' \in [Dats -> Seq(Nat)] /\ inbox'[d] = Tail(inbox[d])
      /\ \A e \in Dats \ {d} : inbox'[e] = inbox[e]
  BY <1>1, <1>2, <1>3
<1> QED
  BY <1>2, <1>5, <1>7, <1>8, <1>9 DEF DatCreate

(* create_file preserves the invariant. *)
LEMMA DatCreateStep ==
  ASSUME CreationInv, NEW d \in Dats, DatCreate(d)
  PROVE  CreationInv'
<1>1. TypeOK'
  BY DatCreateFacts DEF CreationInv, TypeOK, DatCreate, loop, list
<1>2. ListShape'
  BY DEF CreationInv, DatCreate, list, ListShape
<1>3. FreedShape'
  BY DEF CreationInv, DatCreate, list, FreedShape
<1>4. PeerShape'
  BY DEF CreationInv, TypeOK, DatCreate, list, PeerShape
<1>5. ReceiverShape'
  BY DEF CreationInv, DatCreate, list, ReceiverShape, IsLinked
<1>6. LinksUp'
  BY DEF CreationInv, TypeOK, ReceiverShape, DatCreate, loop, list, LinksUp, IsLinked
<1>7. OneCreation'
  <2>1. CASE peer[d] \in Infos
    <3>1. <<"inbox", d>> \in Outstanding
      BY <2>1, OutstandingPlaces DEF DatCreate
    <3>2. Len(inbox[d]) = 1
      BY <2>1, <3>1 DEF CreationInv, OneCreation, Holds
    <3>3. inbox'[d] = <<>>
      BY <3>2, DatCreateFacts, Queue
    <3>4. ASSUME NEW q \in Outstanding'
          PROVE  q = <<"answer", d>> \/ (q \in Outstanding /\ q # <<"inbox", d>>)
      <4>1. CASE \E e \in Dats : q = <<"inbox", e>> /\ peer'[e] \in Infos /\ inbox'[e] # <<>>
        <5>1. PICK e \in Dats : q = <<"inbox", e>> /\ peer'[e] \in Infos /\ inbox'[e] # <<>>
          BY <4>1
        <5>2. e # d /\ peer[e] \in Infos /\ inbox[e] # <<>>
          BY <3>3, <5>1, DatCreateFacts
        <5> QED
          BY <5>1, <5>2, OutstandingPlaces
      <4>2. CASE \E e \in Dats : q = <<"answer", e>> /\ peer'[e] \in Infos /\ answer'[e] # <<>>
        <5>1. PICK e \in Dats : q = <<"answer", e>> /\ peer'[e] \in Infos /\ answer'[e] # <<>>
          BY <4>2
        <5>2. e # d => peer[e] \in Infos /\ answer[e] # <<>>
          BY <5>1, DatCreateFacts
        <5> QED
          BY <5>1, <5>2, OutstandingPlaces
      <4>3. CASE \E i \in Infos : q = <<"received", i>> /\ received'[i] # <<>>
        BY <4>3, DatCreateFacts, OutstandingPlaces
      <4> QED
        BY <4>1, <4>2, <4>3, OutstandingPlacesPrime
    <3>5. \A q \in Outstanding' : q = <<"answer", d>>
      BY <3>1, <3>4 DEF CreationInv, OneCreation
    <3>6. Len(Holds(<<"answer", d>>)') = 1
      BY <2>1, DatCreateFacts DEF Holds
    <3>7. sock_lock'
      BY <3>1, DatCreateFacts DEF CreationInv, OneCreation
    <3> QED
      BY <3>5, <3>6, <3>7, OneMoves
  <2>2. CASE peer[d] \notin Infos
    <3>1. \A e \in Dats : peer'[e] \in Infos =>
            peer[e] = peer'[e] /\ inbox[e] = inbox'[e] /\ answer[e] = answer'[e]
      BY <2>2, DatCreateFacts
    <3>2. received' = received
      BY DatCreateFacts
    <3>3. ASSUME NEW q \in Outstanding'
          PROVE  q \in Outstanding /\ Holds(q)' = Holds(q)
      BY <3>1, <3>2, OutstandingPlaces, OutstandingPlacesPrime DEF Holds
    <3> QED
      BY <3>3, OneShrinks, DatCreateFacts DEF CreationInv
  <2> QED
    BY <2>1, <2>2
<1>8. LockAwaitsAnswer'
  <2>1. CASE peer[d] \in Infos
    BY <2>1, DatCreateFacts, OutstandingPlacesPrime DEF LockAwaitsAnswer
  <2>2. CASE peer[d] \notin Infos
    <3>1. \A e \in Dats : peer[e] \in Infos =>
            peer[e] = peer'[e] /\ inbox[e] = inbox'[e] /\ answer[e] = answer'[e]
      BY <2>2, DatCreateFacts
    <3>2. received' = received
      BY DatCreateFacts
    <3>3. ASSUME NEW q \in Outstanding
          PROVE  q \in Outstanding'
      BY <3>1, <3>2, OutstandingPlaces, OutstandingPlacesPrime
    <3> QED
      BY <3>3, DatCreateFacts DEF CreationInv, LockAwaitsAnswer, DatCreate
  <2> QED
    BY <2>1, <2>2
<1> QED
  BY <1>1, <1>2, <1>3, <1>4, <1>5, <1>6, <1>7, <1>8 DEF CreationInv

(* A dat's reply preserves the invariant: the one request becomes the one answer. *)
LEMMA DatReplyStep ==
  ASSUME CreationInv, NEW d \in Dats, DatReply(d)
  PROVE  CreationInv'
<1>1. TypeOK'
  BY DEF CreationInv, TypeOK, DatReply, loop, list
<1>2. ListShape'
  BY DEF CreationInv, DatReply, list, ListShape
<1>3. FreedShape'
  BY DEF CreationInv, DatReply, list, FreedShape, PeerShape
<1>4. PeerShape'
  BY DEF CreationInv, DatReply, list, PeerShape
<1>5. ReceiverShape'
  BY DEF CreationInv, TypeOK, DatReply, list, ReceiverShape, IsLinked
<1>6. LinksUp'
  BY DEF CreationInv, TypeOK, ReceiverShape, DatReply, loop, list, LinksUp, IsLinked
<1>7. OneCreation'
  <2>1. CASE peer[d] \in Infos
    <3>1. <<"answer", d>> \in Outstanding
      BY <2>1, OutstandingPlaces DEF DatReply
    <3>2. <<"received", peer[d]>> \notin Outstanding
      BY <3>1 DEF CreationInv, OneCreation
    <3>3. received[peer[d]] = <<>>
      BY <2>1, <3>2, OutstandingPlaces DEF CreationInv, TypeOK
    <3>4. answer[d][1] \in {0, 1}
      BY Queue DEF CreationInv, TypeOK, DatReply
    <3>5. received'[peer[d]] = Append(received[peer[d]], answer[d][1])
      BY <2>1 DEF CreationInv, TypeOK, DatReply
    <3>6. PICK r : r = <<"received", peer[d]>>
      OBVIOUS
    <3>7. Len(Holds(r)') = 1
      BY <2>1, <3>3, <3>4, <3>5, <3>6, Queue DEF CreationInv, TypeOK, DatReply, Holds
    <3>8. \A p \in Outstanding' : \/ p = <<"received", peer[d]>>
                                  \/ p \in Outstanding /\ p # <<"answer", d>>
      BY <2>1, OutstandingPlaces, OutstandingPlacesPrime DEF CreationInv, TypeOK, DatReply
    <3>9. \A p \in Outstanding' : p = <<"received", peer[d]>>
      BY <3>1, <3>8 DEF CreationInv, OneCreation
    <3>10. sock_lock'
      BY <3>1 DEF CreationInv, OneCreation, DatReply
    <3> QED
      BY <3>6, <3>9, <3>10, <3>7, OneMoves
  <2>2. CASE peer[d] \notin Infos
    <3>1. \A p \in Outstanding' : p \in Outstanding /\ Holds(p)' = Holds(p)
      BY <2>2, OutstandingPlaces, OutstandingPlacesPrime DEF CreationInv, TypeOK, DatReply, Holds
    <3> QED
      BY <3>1, OneShrinks DEF CreationInv, DatReply
  <2> QED
    BY <2>1, <2>2
<1>8. LockAwaitsAnswer'
  <2>1. CASE peer[d] \in Infos
    <3>1. received'[peer[d]] = Append(received[peer[d]], answer[d][1])
      BY <2>1 DEF CreationInv, TypeOK, DatReply
    <3>2. answer[d][1] \in {0, 1}
      BY Queue DEF CreationInv, TypeOK, DatReply
    <3>3. received[peer[d]] \in Seq({0, 1}) /\ peer' = peer
      BY <2>1 DEF CreationInv, TypeOK, DatReply
    <3>4. received'[peer[d]] # <<>>
      BY <3>1, <3>2, <3>3, Queue
    <3> QED
      BY <2>1, <3>3, <3>4, OutstandingPlacesPrime DEF LockAwaitsAnswer
  <2>2. CASE peer[d] \notin Infos
    <3>1. Outstanding \subseteq Outstanding'
      BY <2>2, OutstandingPlaces, OutstandingPlacesPrime DEF CreationInv, TypeOK, DatReply
    <3> QED
      BY <3>1 DEF CreationInv, LockAwaitsAnswer, DatReply
  <2> QED
    BY <2>1, <2>2
<1> QED
  BY <1>1, <1>2, <1>3, <1>4, <1>5, <1>6, <1>7, <1>8 DEF CreationInv

(* A dat that closes its socket preserves the invariant. *)
LEMMA DatDisconnectStep ==
  ASSUME CreationInv, NEW d \in Dats, DatDisconnect(d)
  PROVE  CreationInv'
<1>1. TypeOK'
  BY DEF CreationInv, TypeOK, DatDisconnect, loop, list
<1>2. ListShape'
  BY DEF CreationInv, DatDisconnect, list, ListShape
<1>3. FreedShape'
  BY DEF CreationInv, DatDisconnect, list, FreedShape
<1>4. PeerShape'
  BY DEF CreationInv, TypeOK, DatDisconnect, list, PeerShape
<1>5. ReceiverShape'
  BY NullAssumption DEF CreationInv, TypeOK, DatDisconnect, list, ReceiverShape, IsLinked
<1>6. LinksUp'
  BY DEF CreationInv, TypeOK, ReceiverShape, DatDisconnect, loop, list, LinksUp, IsLinked
<1>7. OneCreation'
  <2>1. \A p \in Outstanding' : p \in Outstanding /\ Holds(p)' = Holds(p)
    BY PlacesEmptied DEF CreationInv, TypeOK, DatDisconnect
  <2> QED
    BY <2>1, OneShrinks DEF CreationInv, DatDisconnect
<1>8. LockAwaitsAnswer'
  <2>1. \A e \in Dats : peer[e] \in Infos =>
          peer'[e] = peer[e] /\ inbox'[e] = inbox[e] /\ answer'[e] = answer[e]
    BY DEF CreationInv, TypeOK, DatDisconnect
  <2>2. received' = received
    BY DEF DatDisconnect
  <2>3. ASSUME NEW q \in Outstanding
        PROVE  q \in Outstanding'
    BY <2>1, <2>2, OutstandingPlaces, OutstandingPlacesPrime
  <2> QED
    BY <2>3 DEF CreationInv, LockAwaitsAnswer, DatDisconnect
<1> QED
  BY <1>1, <1>2, <1>3, <1>4, <1>5, <1>6, <1>7, <1>8 DEF CreationInv

(* The death of a dat preserves the invariant: what is under way can only vanish. *)
LEMMA DatCrashStep ==
  ASSUME CreationInv, NEW d \in Dats, DatCrash(d)
  PROVE  CreationInv'
<1>1. TypeOK'
  <2>1. received' \in [Infos -> Seq({0, 1})]
    <3>1. <<>> \in Seq({0, 1})
      OBVIOUS
    <3>2. received \in [Infos -> Seq({0, 1})]
      BY DEF CreationInv, TypeOK
    <3>3. received' = received \/ received' = [received EXCEPT ![peer[d]] = <<>>]
      BY DEF DatCrash
    <3> QED
      BY <3>1, <3>2, <3>3
  <2>2. /\ inbox' \in [Dats -> Seq(Nat)]
        /\ answer' \in [Dats -> Seq({0, 1})]
        /\ files' \in [Dats -> SUBSET Nat]
        /\ peer' \in [Dats -> Infos \cup {NULL, Lost}]
    BY DEF CreationInv, TypeOK, DatCrash
  <2> QED
    BY <2>1, <2>2 DEF CreationInv, TypeOK, DatCrash, loop, list
<1>2. ListShape'
  BY DEF CreationInv, DatCrash, list, ListShape
<1>3. FreedShape'
  BY DEF CreationInv, TypeOK, DatCrash, list, FreedShape
<1>4. PeerShape'
  BY DEF CreationInv, TypeOK, DatCrash, list, PeerShape
<1>5. ReceiverShape'
  BY NullAssumption DEF CreationInv, TypeOK, DatCrash, list, ReceiverShape, IsLinked
<1>6. LinksUp'
  BY DEF DatCrash, LinksUp
<1>7. OneCreation'
  <2>1. \A p \in Outstanding' : p \in Outstanding /\ Holds(p)' = Holds(p)
    BY PlacesEmptied DEF CreationInv, TypeOK, DatCrash
  <2> QED
    BY <2>1, OneShrinks DEF CreationInv, DatCrash
<1>8. LockAwaitsAnswer'
  BY DEF DatCrash, LockAwaitsAnswer
<1> QED
  BY <1>1, <1>2, <1>3, <1>4, <1>5, <1>6, <1>7, <1>8 DEF CreationInv

(* The restart of ser preserves the invariant. *)
LEMMA RestartStep ==
  ASSUME CreationInv, Restart
  PROVE  CreationInv'
<1>1. TypeOK'
  <2>1. next_chunkid' \in Nat
    BY DEF CreationInv, TypeOK, Restart, FirstChunk
  <2>2. received' \in [Infos -> Seq({0, 1})]
    BY DEF Restart
  <2> QED
    BY <2>1, <2>2 DEF CreationInv, TypeOK, Restart
<1>2. ListShape'
  BY DEF Restart, ListShape
<1>3. FreedShape'
  BY DEF Restart, FreedShape
<1>4. PeerShape'
  BY DEF CreationInv, Restart, PeerShape
<1>5. ReceiverShape'
  BY DEF Restart, ReceiverShape
<1>6. LinksUp'
  BY DEF Restart, LinksUp
<1>7. OneCreation'
  BY DEF Restart, OneCreation, Outstanding, Places, Holds
<1>8. LockAwaitsAnswer'
  BY DEF Restart, LockAwaitsAnswer
<1> QED
  BY <1>1, <1>2, <1>3, <1>4, <1>5, <1>6, <1>7, <1>8 DEF CreationInv

(* A system that was just started satisfies the invariant. *)
LEMMA InitCreationInv == Init => CreationInv
<1> SUFFICES ASSUME Init PROVE CreationInv
  OBVIOUS
<1>1. <<>> \in Seq({0, 1}) /\ <<>> \in Seq(Nat) /\ FirstChunk \in Nat
  BY DEF FirstChunk
<1>2. TypeOK
  BY <1>1 DEF Init, TypeOK
<1>3. Outstanding = {}
  BY OutstandingPlaces DEF Init
<1>4. ListShape /\ FreedShape /\ PeerShape /\ ReceiverShape /\ LinksUp
  BY DEF Init, ListShape, FreedShape, PeerShape, ReceiverShape, LinksUp
<1> QED
  BY <1>2, <1>3, <1>4 DEF Init, CreationInv, OneCreation, LockAwaitsAnswer

(* A step that changes nothing preserves the invariant. *)
LEMMA StutterStep ==
  ASSUME CreationInv, UNCHANGED vars
  PROVE  CreationInv'
<1>1. TypeOK' /\ ListShape' /\ FreedShape' /\ PeerShape' /\ ReceiverShape' /\ LinksUp'
  BY DEF CreationInv, vars, TypeOK, ListShape, FreedShape, PeerShape, ReceiverShape, LinksUp, IsLinked
<1>2. OneCreation' /\ LockAwaitsAnswer'
  BY DEF CreationInv, vars, OneCreation, LockAwaitsAnswer, Outstanding, Places, Holds
<1> QED
  BY <1>1, <1>2 DEF CreationInv

(* Every step preserves the invariant. *)
LEMMA NextCreationInv == CreationInv /\ [Next]_vars => CreationInv'
<1> SUFFICES ASSUME CreationInv, [Next]_vars PROVE CreationInv'
  OBVIOUS
<1>1. CASE Select
  BY <1>1, AcceptLinkStep, AcceptInitStep, ReapStep, CreateChunkStep, SendChunkStep
     DEF Select, AcceptAny, ReapAny
<1>2. CASE Receive
  BY <1>2, RecvWakeStep, RecvEnterStep, RecvHeaderStep, RecvDataStep, RecvEofStep,
     RecvNextStep DEF Receive
<1>3. CASE \E d \in Dats : Dat(d)
  BY <1>3, DatCreateStep, DatReplyStep, DatDisconnectStep DEF Dat
<1>4. CASE Crash
  BY <1>4, RestartStep, DatCrashStep DEF Crash
<1>5. CASE UNCHANGED vars
  BY <1>5, StutterStep
<1> QED
  BY <1>1, <1>2, <1>3, <1>4, <1>5 DEF Next

(***************************************************************************)
(* The list.                                                               *)
(***************************************************************************)

(* Every closed set that the head leads into has all that is allocated.     *)
LEMMA ReachedLive ==
  ASSUME ListHoldsLive, NEW S \in SUBSET Infos, dat_info_head \in S \cup {NULL}, Closed(S)
  PROVE  live \subseteq S
BY DEF ListHoldsLive, Reached

(* And where allocated Infos lead to allocated Infos only, that is enough   *)
(* for the list to hold what is allocated.  (The state is that after a      *)
(* step, where this is used.)                                               *)
LEMMA ReachedLivePrime ==
  ASSUME TypeOK', ListShape',
         \A S \in SUBSET Infos :
           dat_info_head' \in S \cup {NULL} /\ Closed(S)' => live' \subseteq S
  PROVE  ListHoldsLive'
<1>1. live' \in SUBSET Infos /\ Closed(live)' /\ dat_info_head' \in live' \cup {NULL}
  BY DEF TypeOK, ListShape, Closed
<1>2. Reached(dat_info_head)' \subseteq live'
  BY <1>1 DEF Reached, Closed
<1>3. live' \subseteq Reached(dat_info_head)'
  BY <1>1 DEF Reached, Closed
<1> QED
  BY <1>2, <1>3 DEF ListHoldsLive

(* A new head is in front of all others. *)
LEMMA AcceptList ==
  ASSUME CreationInv, WalksEnd, ListHoldsLive, NEW d \in Dats, NEW i \in Infos, AcceptLink(d, i),
         CreationInv'
  PROVE  WalksEnd' /\ ListHoldsLive'
<1>1. /\ next \in [Infos -> Infos \cup {NULL}] /\ i \notin live /\ live \subseteq Infos
      /\ live' = live \cup {i} /\ dat_info_head' = i
      /\ next'[i] = dat_info_head /\ dat_info_head \in live \cup {NULL}
      /\ \A j \in Infos \ {i} : next'[j] = next[j]
      /\ \A j \in live : next[j] \in live \cup {NULL}
  BY DEF CreationInv, TypeOK, ListShape, AcceptLink
<1>2. WalksEnd'
  <2> SUFFICES ASSUME NEW S \in SUBSET live', S # {}, \A j \in S : next'[j] \in S
               PROVE  FALSE
    BY DEF WalksEnd
  <2>1. CASE i \notin S
    BY <1>1, <2>1 DEF WalksEnd
  <2>2. CASE i \in S
    <3>1. dat_info_head \in S \cap live
      BY <1>1, <2>2
    <3>2. PICK j \in S \cap live : next[j] \notin S \cap live
      BY <3>1, <1>1 DEF WalksEnd
    <3>3. next'[j] = next[j] /\ next[j] \in live \cup {NULL} /\ next'[j] \in S /\ NULL \notin S
      BY <1>1, <3>2
    <3> QED
      BY <3>2, <3>3
  <2> QED
    BY <2>1, <2>2
<1>3. ListHoldsLive'
  <2> SUFFICES ASSUME NEW S \in SUBSET Infos, i \in S \cup {NULL}, Closed(S)'
               PROVE  live' \subseteq S
    BY <1>1, ReachedLivePrime DEF CreationInv
  <2>1. i \in S /\ \A j \in S : next'[j] \in S \cup {NULL}
    BY DEF Closed
  <2>2. Closed(S \cap live)
    BY <1>1, <2>1 DEF Closed
  <2>3. dat_info_head \in (S \cap live) \cup {NULL}
    BY <1>1, <2>1
  <2>4. live \subseteq S \cap live
    BY <2>2, <2>3, <1>1, ReachedLive
  <2> QED
    BY <1>1, <2>1, <2>4
<1> QED
  BY <1>2, <1>3

(* What is freed is taken out, and its successor takes its place. *)
LEMMA ReapList ==
  ASSUME CreationInv, WalksEnd, ListHoldsLive, NEW i \in Infos, Reap(i), CreationInv'
  PROVE  WalksEnd' /\ ListHoldsLive'
<1>1. /\ next \in [Infos -> Infos \cup {NULL}] /\ i \in live /\ live \subseteq Infos
      /\ live' = live \ {i}
  BY DEF CreationInv, TypeOK, Reap
<1>2. ASSUME NEW S \in SUBSET Infos, dat_info_head \in S \cup {NULL}, Closed(S)
      PROVE  live \subseteq S
  BY <1>2, ReachedLive
<1>3. CASE i = dat_info_head
  <2>1. next' = [next EXCEPT ![i] = NULL] /\ dat_info_head' = next[i]
    BY <1>3 DEF Reap
  <2>2. WalksEnd'
    BY <1>1, <2>1 DEF WalksEnd
  <2>3. ListHoldsLive'
    <3> SUFFICES ASSUME NEW S \in SUBSET Infos, next[i] \in S \cup {NULL}, Closed(S)'
                 PROVE  live' \subseteq S
      BY <2>1, ReachedLivePrime DEF CreationInv
    <3>1. Closed(S \cup {i})
      BY <2>1 DEF Closed
    <3> QED
      BY <1>1, <1>2, <1>3, <3>1
  <2> QED
    BY <2>2, <2>3
<1>4. CASE i # dat_info_head
  <2>1. PICK pre_info \in live :
            next[pre_info] = i /\ next' = [next EXCEPT ![pre_info] = next[i], ![i] = NULL]
    BY <1>4 DEF Reap
  <2>5. pre_info # i
    <3>1. {i} \subseteq live /\ {i} # {}
      BY <1>1
    <3>2. \E j \in {i} : next[j] \notin {i}
      BY <3>1 DEF WalksEnd
    <3> QED
      BY <2>1, <3>2
  <2>2. /\ next'[pre_info] = next[i] /\ \A j \in Infos \ {pre_info, i} : next'[j] = next[j]
        /\ dat_info_head' = dat_info_head
    BY <1>1, <1>4, <2>1, <2>5 DEF Reap
  <2>3. WalksEnd'
    <3> SUFFICES ASSUME NEW S \in SUBSET live', S # {}, \A j \in S : next'[j] \in S
                 PROVE  FALSE
      BY DEF WalksEnd
    <3>1. CASE pre_info \notin S
      <4>1. S \subseteq live /\ \A j \in S : next'[j] = next[j]
        BY <1>1, <2>2, <3>1
      <4> QED
        BY <4>1 DEF WalksEnd
    <3>2. CASE pre_info \in S
      <4>1. S \cup {i} \subseteq live /\ S \cup {i} # {}
        BY <1>1
      <4>2. PICK j \in S \cup {i} : next[j] \notin S \cup {i}
        BY ZenonT(30), <4>1 DEF WalksEnd
      <4>3. j # pre_info /\ j # i /\ j \in Infos
        BY <1>1, <2>1, <2>2, <3>2, <4>1, <4>2
      <4> QED
        BY <2>2, <4>2, <4>3
    <3> QED
      BY <3>1, <3>2
  <2>4. ListHoldsLive'
    <3> SUFFICES ASSUME NEW S \in SUBSET Infos, dat_info_head \in S \cup {NULL}, Closed(S)'
                 PROVE  live' \subseteq S
      BY <2>2, ReachedLivePrime DEF CreationInv
    <3>1. \A j \in S : next'[j] \in S \cup {NULL}
      BY DEF Closed
    <3>2. pre_info \in S
      <4>1. CASE pre_info \notin S
        <5>1. /\ \A j \in live : next[j] \in live \cup {NULL} /\ (next[j] = i => j = pre_info)
              /\ dat_info_head \in live \cup {NULL}
          BY <1>1, <2>1 DEF CreationInv, ListShape
        <5>2. Closed((S \cap live) \ {i})
          BY <1>1, <2>2, <3>1, <4>1, <5>1 DEF Closed
        <5>3. live \subseteq (S \cap live) \ {i}
          BY <1>1, <1>2, <1>4, <5>1, <5>2
        <5> QED
          BY <2>1, <5>3
      <4> QED
        BY <4>1
    <3>3. Closed(S \cup {i})
      BY <2>1, <2>2, <3>1, <3>2 DEF Closed
    <3> QED
      BY <1>1, <1>2, <3>3
  <2> QED
    BY <2>3, <2>4
<1> QED
  BY <1>3, <1>4

(* A step that leaves the list alone. *)
LEMMA SameList ==
  ASSUME WalksEnd, ListHoldsLive, UNCHANGED list
  PROVE  WalksEnd' /\ ListHoldsLive'
  BY DEF WalksEnd, ListHoldsLive, Reached, Closed, list

(* After a restart there is no list. *)
LEMMA RestartList ==
  ASSUME Restart
  PROVE  WalksEnd' /\ ListHoldsLive'
<1>1. /\ \A i \in Infos : next'[i] = NULL
      /\ dat_info_head' = NULL /\ live' = {}
  BY DEF Restart
<1>2. WalksEnd'
  BY <1>1, NullAssumption DEF WalksEnd
<1>3. Closed({})'
  BY DEF Closed
<1>4. Reached(dat_info_head)' = {}
  BY <1>1, <1>3 DEF Reached
<1> QED
  BY <1>1, <1>2, <1>4 DEF ListHoldsLive

(* At the start the invariant holds. *)
LEMMA InitIInv == Init => IInv
<1> SUFFICES ASSUME Init PROVE IInv
  OBVIOUS
<1>1. WalksEnd
  BY NullAssumption DEF Init, WalksEnd
<1>2. Closed({})
  BY DEF Closed
<1>3. ListHoldsLive
  BY <1>2 DEF Init, ListHoldsLive, Reached
<1> QED
  BY <1>1, <1>3, InitCreationInv DEF IInv

(* Every step preserves the invariant. *)
LEMMA NextIInv == IInv /\ [Next]_vars => IInv'
<1> SUFFICES ASSUME IInv, [Next]_vars PROVE IInv'
  OBVIOUS
<1>1. CreationInv /\ CreationInv' /\ WalksEnd /\ ListHoldsLive
  BY NextCreationInv DEF IInv
<1>2. CASE AcceptAny
  BY <1>1, <1>2, AcceptList, SameList DEF AcceptAny, AcceptInit, IInv
<1>3. CASE ReapAny
  BY <1>1, <1>3, ReapList DEF ReapAny, IInv
<1>4. CASE Restart
  BY <1>1, <1>4, RestartList DEF IInv
<1>5. CASE UNCHANGED list
  BY <1>1, <1>5, SameList DEF IInv
<1>6. CreateChunk \/ SendChunk \/ Receive => UNCHANGED list
  BY DEF CreateChunk, SendChunk, Receive, RecvWake, RecvEnter, RecvHeader, RecvData,
         RecvEof, RecvNext
<1>7. (\E d \in Dats : Dat(d) \/ DatCrash(d)) \/ UNCHANGED vars => UNCHANGED list
  BY DEF Dat, DatCreate, DatReply, DatDisconnect, DatCrash, vars, list
<1> QED
  BY <1>2, <1>3, <1>4, <1>5, <1>6, <1>7 DEF Next, Select, Crash

(* The invariant holds in every state ser and its dats reach. *)
THEOREM Invariance == Spec => []IInv
  BY InitIInv, NextIInv, PTL DEF Spec

(* Every variable keeps its type; waiting in particular never points to     *)
(* memory that dat_serv has freed.                                          *)
THEOREM TypeCorrect == Spec => []TypeOK
<1>1. IInv => TypeOK
  BY DEF IInv, CreationInv
<1> QED
  BY <1>1, Invariance, PTL

(* While sock_lock is free no creation is under way, and while it is held   *)
(* at most one is, whatever dies or reconnects.                             *)
THEOREM CreationsAreSerialised == Spec => []OneCreation
<1>1. IInv => OneCreation
  BY DEF IInv, CreationInv
<1> QED
  BY <1>1, Invariance, PTL

(* As long as no dat dies and receive_thread reads from no connection that  *)
(* is not yet set, sock_lock is only held while its answer is on the way.   *)
THEOREM LockIsAnswered == Spec => []LockAwaitsAnswer
<1>1. IInv => LockAwaitsAnswer
  BY DEF IInv, CreationInv
<1> QED
  BY <1>1, Invariance, PTL

(* ser closes no connection of a live dat unless some dat has died, or      *)
(* receive_thread has read from one that was not yet set.                   *)
THEOREM LinksAreKept == Spec => []LiveDatsKeepTheirLink
<1>1. IInv => LiveDatsKeepTheirLink
  BY DEF IInv, CreationInv, PeerShape, LinksUp, LiveDatsKeepTheirLink
<1> QED
  BY <1>1, Invariance, PTL

(* The unlocked list holds the connections that are allocated, whatever is  *)
(* inserted and removed: none is lost and none on it is freed.              *)
THEOREM ListIsKept == Spec => []ListHoldsLive
<1>1. IInv => ListHoldsLive
  BY DEF IInv
<1> QED
  BY <1>1, Invariance, PTL

(* receive_thread is never caught in a circle of allocated connections,     *)
(* whatever is inserted and freed around it.                                *)
THEOREM WalksAlongTheListEnd == Spec => []WalksEnd
<1>1. IInv => WalksEnd
  BY DEF IInv
<1> QED
  BY <1>1, Invariance, PTL

(***************************************************************************)
(* The count of the ids, as long as no process dies.                       *)
(***************************************************************************)

(* A request, and an answer, is the only one.                               *)
LEMMA OnlyOne ==
  ASSUME SteadyInv, ~met
  PROVE  /\ \A d \in Dats : inbox[d] # <<>> =>
              /\ Len(inbox[d]) = 1 /\ \A e \in Dats : answer[e] = <<>>
              /\ \A e \in Dats : inbox[e] # <<>> => e = d
              /\ \A i \in Infos : received[i] = <<>>
         /\ \A d \in Dats : answer[d] # <<>> =>
              /\ Len(answer[d]) = 1 /\ \A e \in Dats : answer[e] # <<>> => e = d
              /\ \A i \in Infos : received[i] = <<>>
         /\ \A i \in Infos : received[i] # <<>> =>
              /\ Len(received[i]) = 1 /\ \A j \in Infos : received[j] # <<>> => j = i
              /\ \A e \in Dats : answer[e] = <<>>
<1>1. \A d \in Dats : peer[d] \in Infos \/ (inbox[d] = <<>> /\ answer[d] = <<>>)
  <2>1. \A d \in Dats : peer[d] \in Infos \cup {NULL}
    BY DEF SteadyInv, CreationInv, TypeOK
  <2> QED
    BY <2>1 DEF SteadyInv, CreationInv, PeerShape
<1>2. \A d \in Dats : inbox[d] # <<>> => <<"inbox", d>> \in Outstanding
  BY <1>1, OutstandingPlaces
<1>3. \A d \in Dats : answer[d] # <<>> => <<"answer", d>> \in Outstanding
  BY <1>1, OutstandingPlaces
<1>4. \A i \in Infos : received[i] # <<>> => <<"received", i>> \in Outstanding
  BY OutstandingPlaces
<1>5. \A p, q \in Outstanding : p = q /\ Len(Holds(p)) = 1
  BY DEF SteadyInv, CreationInv, OneCreation
<1>6. /\ \A d \in Dats : inbox[d] # <<>> => Len(inbox[d]) = 1
      /\ \A d \in Dats : answer[d] # <<>> => Len(answer[d]) = 1
      /\ \A i \in Infos : received[i] # <<>> => Len(received[i]) = 1
  BY <1>1, <1>2, <1>3, <1>4, <1>5 DEF Holds
<1> QED
  BY <1>2, <1>3, <1>4, <1>5, <1>6

(* So there are as many failures to be read as there is one.                *)
LEMMA FailuresAre ==
  ASSUME SteadyInv, ~met
  PROVE  Failures = (IF Failing THEN 1 ELSE 0)
<1> DEFINE F == {d \in Dats : answer[d] = <<1>>}
           R == {i \in Infos : received[i] = <<1>>}
<1>1. Failures = Cardinality(F) + Cardinality(R)
  BY DEF Failures
<1>2. <<1>> # <<>>
  OBVIOUS
<1>3. CASE F = {} /\ R = {}
  <2>1. Cardinality(F) = 0 /\ Cardinality(R) = 0
    BY <1>3, FS_EmptySet, ZenonT(30)
  <2>2. ~Failing
    BY <1>3 DEF Failing
  <2> HIDE DEF F, R
  <2> QED
    BY <1>1, <2>1, <2>2
<1>4. ASSUME NEW d \in F
      PROVE  Failures = (IF Failing THEN 1 ELSE 0)
  <2>1. F = {d} /\ R = {} /\ Failing
    BY <1>2, <1>4, OnlyOne DEF Failing
  <2>2. Cardinality(F) = 1 /\ Cardinality(R) = 0
    BY <2>1, FS_EmptySet, FS_Singleton, ZenonT(30)
  <2> HIDE DEF F, R
  <2> QED
    BY <1>1, <2>1, <2>2
<1>5. ASSUME NEW i \in R
      PROVE  Failures = (IF Failing THEN 1 ELSE 0)
  <2>1. F = {} /\ R = {i} /\ Failing
    BY <1>2, <1>5, OnlyOne DEF Failing
  <2>2. Cardinality(F) = 0 /\ Cardinality(R) = 1
    BY <2>1, FS_EmptySet, FS_Singleton, ZenonT(30)
  <2> HIDE DEF F, R
  <2> QED
    BY <1>1, <2>1, <2>2
<1> QED
  BY <1>3, <1>4, <1>5

(* A step that moves no id and no failure changes no number.                *)
LEMMA SilentStep ==
  ASSUME SteadyInv, ~met, UNCHANGED <<next_chunkid, waiting, inbox, files, dat_errors>>,
         Failing' <=> Failing
  PROVE  OnItsWay' /\ Counted'
<1>1. Granted' = Granted /\ Stored' = Stored /\ UnderWay' = UnderWay
  BY DEF Granted, Stored, UnderWay
<1>2. OnItsWay'
  BY <1>1 DEF SteadyInv, OnItsWay
<1>3. Uncreated' = Uncreated
  BY <1>1 DEF Uncreated
<1> QED
  BY <1>2, <1>3 DEF SteadyInv, Counted

(* The new id is on its way. *)
LEMMA CreateChunkCount ==
  ASSUME SteadyInv, ~met, CreateChunk
  PROVE  OnItsWay' /\ Counted'
<1>1. /\ waiting = NULL /\ waiting' # NULL /\ next_chunkid' = next_chunkid + 1
      /\ next_chunkid \in Nat /\ next_chunkid >= FirstChunk
      /\ UNCHANGED <<dat_errors, received, inbox, answer, files>>
  BY DEF CreateChunk, Looping, SteadyInv, OnItsWay, CreationInv, TypeOK, dats
<1>2. Stored' = Stored /\ (Failing' <=> Failing)
  BY <1>1 DEF Stored, Failing
<1>3. Granted' = Granted \cup {next_chunkid'} /\ next_chunkid' \notin Granted
  BY <1>1 DEF Granted, FirstChunk
<1>4. UnderWay' = UnderWay \cup {next_chunkid'}
  BY <1>1, <1>3 DEF UnderWay, SteadyInv, OnItsWay
<1>5. OnItsWay'
  <2>1. next_chunkid' >= FirstChunk
    BY <1>1 DEF FirstChunk
  <2>2. Stored' \subseteq Granted' /\ next_chunkid' \in Granted' \ Stored'
    BY <1>2, <1>3 DEF SteadyInv, OnItsWay
  <2>3. \A d \in Dats : \A k \in DOMAIN inbox'[d] :
          inbox'[d][k] \in Granted' \ Stored' /\ inbox'[d][k] # next_chunkid'
    BY <1>1, <1>2, <1>3 DEF SteadyInv, OnItsWay
  <2> QED
    BY <2>1, <2>2, <2>3 DEF OnItsWay
<1>6. Uncreated' = Uncreated
  BY <1>2, <1>3, <1>4 DEF Uncreated
<1> QED
  BY <1>1, <1>2, <1>5, <1>6 DEF SteadyInv, Counted

(* It goes from the loop to the dat. *)
LEMMA SendChunkCount ==
  ASSUME SteadyInv, ~met, SendChunk
  PROVE  OnItsWay' /\ Counted'
<1>0. next_chunkid \in Nat /\ Append(<<>>, next_chunkid) = <<next_chunkid>>
  BY DEF SteadyInv, CreationInv, TypeOK
<1>1. /\ waiting # NULL /\ waiting' = NULL /\ ~sock_lock
      /\ UNCHANGED <<next_chunkid, dat_errors, received, answer, files>>
  BY DEF SendChunk
<1>2. IsLinked(waiting)
  BY <1>1 DEF SteadyInv, CreationInv, TypeOK, LinksUp
<1>3. inbox' = [d \in Dats |-> IF peer[d] = waiting
                               THEN Append(inbox[d], next_chunkid) ELSE inbox[d]]
  BY <1>2 DEF SendChunk
<1>4. \A d \in Dats : inbox[d] = <<>>
  BY <1>1, OutstandingPlaces DEF SteadyInv, CreationInv, TypeOK, PeerShape, OneCreation
<1>5. \A d \in Dats : inbox'[d] = IF peer[d] = waiting THEN <<next_chunkid>> ELSE <<>>
  BY <1>0, <1>3, <1>4
<1>6. PICK d \in Dats : peer[d] = waiting
  BY <1>2 DEF IsLinked
<1>7. Stored' = Stored /\ Granted' = Granted /\ (Failing' <=> Failing)
  BY <1>1 DEF Stored, Granted, Failing
<1>8. UnderWay = {next_chunkid} /\ next_chunkid \in Granted \ Stored
  BY <1>1, <1>4 DEF UnderWay, SteadyInv, OnItsWay
<1>9. UnderWay' = {next_chunkid}
  BY <1>1, <1>5, <1>6, <1>7, <1>8 DEF UnderWay
<1>10. OnItsWay'
  BY <1>1, <1>5, <1>7, <1>8 DEF SteadyInv, OnItsWay
<1>11. Uncreated' = Uncreated
  BY <1>7, <1>8, <1>9 DEF Uncreated
<1> QED
  BY <1>1, <1>7, <1>10, <1>11 DEF SteadyInv, Counted

(* An answer that is read is counted, if it is a failure. *)
LEMMA RecvDataCount ==
  ASSUME SteadyInv, ~met, RecvData
  PROVE  OnItsWay' /\ Counted'
<1>1. /\ info \in Infos /\ received[info] # <<>> /\ received[info] \in Seq({0, 1})
      /\ received' = [received EXCEPT ![info] = Tail(@)]
      /\ dat_errors' = IF Head(received[info]) # 0 THEN dat_errors + 1 ELSE dat_errors
      /\ UNCHANGED <<next_chunkid, waiting, inbox, answer, files>> /\ dat_errors \in Nat
  BY DEF RecvData, SteadyInv, CreationInv, TypeOK, ReceiverShape, loop, dats
<1>2. Len(received[info]) = 1 /\ (\A d \in Dats : answer[d] = <<>>)
      /\ \A i \in Infos : i # info => received[i] = <<>>
  BY <1>1, OnlyOne
<1>3. PICK status \in {0, 1} : received[info] = <<status>>
  BY <1>1, <1>2
<1>4. received'[info] = <<>> /\ \A i \in Infos : i # info => received'[i] = <<>>
  BY <1>1, <1>2, <1>3 DEF SteadyInv, CreationInv, TypeOK
<1>5. ~Failing' /\ (Failing <=> status = 1)
  <2>1. answer' = answer /\ \A d \in Dats : answer[d] # <<1>>
    BY <1>1, <1>2
  <2>2. \A i \in Infos : received'[i] # <<1>>
    BY <1>4
  <2>3. \A i \in Infos : received[i] = <<1>> => i = info
    BY <1>2
  <2>4. received[info] = <<1>> <=> status = 1
    BY <1>3
  <2>5. ~Failing'
    BY <2>1, <2>2 DEF Failing
  <2> QED
    BY <1>1, <2>1, <2>3, <2>4, <2>5 DEF Failing
<1>6. Granted' = Granted /\ Stored' = Stored /\ UnderWay' = UnderWay
  BY <1>1 DEF Granted, Stored, UnderWay
<1>7. OnItsWay'
  BY <1>1, <1>6 DEF SteadyInv, OnItsWay
<1>8. Uncreated' = Uncreated
  BY <1>6 DEF Uncreated
<1>9. dat_errors' = dat_errors + (IF Failing THEN 1 ELSE 0)
  BY <1>1, <1>3, <1>5
<1> QED
  BY <1>1, <1>5, <1>7, <1>8, <1>9 DEF SteadyInv, Counted

(* A request that reaches its dat becomes a file, or a failure. *)
LEMMA DatCreateCount ==
  ASSUME SteadyInv, ~met, NEW d \in Dats, DatCreate(d)
  PROVE  OnItsWay' /\ Counted'
<1>1. /\ inbox[d] # <<>> /\ inbox' = [inbox EXCEPT ![d] = Tail(@)] /\ inbox[d] \in Seq(Nat)
      /\ UNCHANGED <<next_chunkid, waiting, dat_errors, received>> /\ dat_errors \in Nat
      /\ next_chunkid \in Nat /\ next_chunkid >= FirstChunk
  BY DEF DatCreate, SteadyInv, OnItsWay, CreationInv, TypeOK, loop
<1>2. /\ Len(inbox[d]) = 1 /\ \A e \in Dats : e # d => inbox[e] = <<>>
      /\ \A e \in Dats : answer[e] = <<>>
      /\ \A i \in Infos : received[i] = <<>>
  BY <1>1, OnlyOne
<1>3. PICK id \in Nat : inbox[d] = <<id>>
  BY <1>1, <1>2
<1>4. \A e \in Dats : inbox'[e] = <<>>
  BY <1>1, <1>2, <1>3 DEF SteadyInv, CreationInv, TypeOK
<1>5. /\ id \in Granted /\ id \notin Stored /\ (waiting # NULL => id # next_chunkid)
      /\ Granted' = Granted /\ ~Failing
  BY <1>1, <1>2, <1>3 DEF SteadyInv, OnItsWay, Granted, Failing
<1>6. UnderWay = UnderWay' \cup {id} /\ id \notin UnderWay'
  BY <1>1, <1>2, <1>3, <1>4, <1>5 DEF UnderWay
<1>7. CASE files' = [files EXCEPT ![d] = @ \cup {id}] /\ answer' = [answer EXCEPT ![d] = <<0>>]
  <2>1. Stored' = Stored \cup {id} /\ ~Failing'
    BY <1>1, <1>2, <1>7 DEF Stored, Failing, SteadyInv, CreationInv, TypeOK
  <2>2. OnItsWay'
    BY <1>1, <1>4, <1>5, <2>1 DEF SteadyInv, OnItsWay
  <2>3. Uncreated' = Uncreated
    BY <1>5, <1>6, <2>1 DEF Uncreated
  <2> QED
    BY <1>1, <1>5, <2>1, <2>2, <2>3 DEF SteadyInv, Counted
<1>8. CASE answer' = [answer EXCEPT ![d] = <<1>>] /\ UNCHANGED files
  <2>1. Stored' = Stored /\ Failing'
    <3>1. answer'[d] = <<1>>
      BY <1>8 DEF SteadyInv, CreationInv, TypeOK
    <3> QED
      BY <1>8, <3>1 DEF Stored, Failing
  <2>2. OnItsWay'
    BY <1>1, <1>4, <1>5, <2>1 DEF SteadyInv, OnItsWay
  <2>3. Uncreated' = Uncreated \cup {id} /\ id \notin Uncreated
    BY <1>5, <1>6, <2>1 DEF Uncreated
  <2>4. IsFiniteSet(Uncreated)
    <3>1. IsFiniteSet(Granted)
      BY <1>1, FS_Interval DEF Granted, FirstChunk
    <3> QED
      BY <3>1, FS_Subset DEF Uncreated
  <2>5. Cardinality(Uncreated') = Cardinality(Uncreated) + 1
    BY <2>3, <2>4, FS_AddElement
  <2> QED
    BY <1>1, <1>5, <2>1, <2>2, <2>5 DEF SteadyInv, Counted
<1> QED
  BY <1>3, <1>7, <1>8 DEF DatCreate

(* Its answer is received by ser. *)
LEMMA DatReplyCount ==
  ASSUME SteadyInv, ~met, NEW d \in Dats, DatReply(d)
  PROVE  OnItsWay' /\ Counted'
<1>1. /\ answer[d] # <<>> /\ answer[d] \in Seq({0, 1}) /\ peer[d] \in Infos
      /\ answer' = [answer EXCEPT ![d] = <<>>]
      /\ received' = [received EXCEPT ![peer[d]] = Append(@, answer[d][1])]
      /\ UNCHANGED <<next_chunkid, waiting, inbox, files, dat_errors>>
  BY DEF DatReply, SteadyInv, CreationInv, TypeOK, PeerShape, loop
<1>2. /\ Len(answer[d]) = 1 /\ \A e \in Dats : e # d => answer[e] = <<>>
      /\ \A i \in Infos : received[i] = <<>>
  BY <1>1, OnlyOne
<1>3. PICK status \in {0, 1} : answer[d] = <<status>>
  BY <1>1, <1>2
<1>4. /\ \A e \in Dats : answer'[e] = <<>>
      /\ received'[peer[d]] = <<status>>
      /\ \A i \in Infos : i # peer[d] => received'[i] = <<>>
  <2>1. received \in [Infos -> Seq({0, 1})] /\ answer \in [Dats -> Seq({0, 1})]
    BY DEF SteadyInv, CreationInv, TypeOK
  <2>2. answer[d][1] = status /\ Append(<<>>, status) = <<status>>
    BY <1>3
  <2>3. received'[peer[d]] = <<status>>
    BY <1>1, <1>2, <2>1, <2>2
  <2> QED
    BY <1>1, <1>2, <2>1, <2>3
<1>5. Failing' <=> Failing
  BY <1>1, <1>2, <1>3, <1>4 DEF Failing
<1> QED
  BY <1>1, <1>5, SilentStep

(* The invariant of a system in which nothing dies. *)
LEMMA SteadyStep ==
  ASSUME SteadyInv, [Select \/ Receive \/ \E d \in Dats : Dat(d)]_vars
  PROVE  SteadyInv'
<1>1. CreationInv'
  <2>1. [Next]_vars
    BY DEF Next
  <2> QED
    BY <2>1, NextCreationInv DEF SteadyInv
<1>2. ~crashed /\ ~crashed' /\ (~met' => ~met)
  BY DEF SteadyInv, Select, AcceptAny, AcceptLink, AcceptInit, ReapAny, Reap, CreateChunk, SendChunk,
         Receive, RecvWake, RecvEnter, RecvHeader, RecvData, RecvEof, RecvNext,
         Dat, DatCreate, DatReply, DatDisconnect, vars
<1> SUFFICES ASSUME ~met'
             PROVE  (\A d \in Dats : peer'[d] # Lost) /\ OnItsWay' /\ Counted'
  BY <1>1, <1>2 DEF SteadyInv
<1>3. ~met /\ (\A d \in Dats : peer[d] # Lost) /\ peer \in [Dats -> Infos \cup {NULL, Lost}]
  BY <1>2 DEF SteadyInv, CreationInv, TypeOK
<1>4. ~(\E i \in Infos : Reap(i)) /\ ~(\E d \in Dats : DatDisconnect(d))
  BY <1>2, <1>3 DEF Reap, Looping, DatDisconnect, SteadyInv, CreationInv, LinksUp
<1>5. ASSUME NEW d \in Dats, NEW i \in Infos, AcceptLink(d, i)
      PROVE  (\A e \in Dats : peer'[e] # Lost) /\ OnItsWay' /\ Counted'
  <2>1. \A e \in Dats : peer'[e] # Lost
    BY <1>3, <1>5 DEF AcceptLink
  <2> QED
    BY <1>3, <1>5, <2>1, SilentStep DEF AcceptLink, Failing
<1>6. CASE CreateChunk
  BY <1>3, <1>6, CreateChunkCount DEF CreateChunk, dats
<1>7. CASE SendChunk
  BY <1>3, <1>7, SendChunkCount DEF SendChunk
<1>8. CASE RecvData
  BY <1>3, <1>8, RecvDataCount DEF RecvData, dats
<1>9. CASE AcceptInit \/ RecvWake \/ RecvEnter \/ RecvHeader \/ RecvEof \/ RecvNext \/ UNCHANGED vars
  <2>1. UNCHANGED <<next_chunkid, waiting, dat_errors, received, dats>>
    BY <1>9 DEF AcceptInit, RecvWake, RecvEnter, RecvHeader, RecvEof, RecvNext, vars, loop, dats
  <2>2. OnItsWay' /\ Counted'
    BY <1>3, <2>1, SilentStep DEF dats, Failing
  <2> QED
    BY <1>3, <2>1, <2>2 DEF dats
<1>10. ASSUME NEW d \in Dats, DatCreate(d)
       PROVE  peer' = peer /\ OnItsWay' /\ Counted'
  BY <1>3, <1>10, DatCreateCount DEF DatCreate
<1>11. ASSUME NEW d \in Dats, DatReply(d)
       PROVE  peer' = peer /\ OnItsWay' /\ Counted'
  BY <1>3, <1>11, DatReplyCount DEF DatReply
<1> QED
  BY <1>3, <1>4, <1>5, <1>6, <1>7, <1>8, <1>9, <1>10, <1>11
     DEF Select, AcceptAny, ReapAny, Receive, Dat

(* It holds at first: no id has been given out. *)
LEMMA SteadyInit ==
  ASSUME Init
  PROVE  SteadyInv
<1>1. Granted = {}
  BY DEF Init, Granted, FirstChunk
<1>2. Stored = {} /\ Uncreated = {}
  BY <1>1 DEF Init, Stored, Uncreated
<1>3. OnItsWay
  BY <1>1, <1>2 DEF Init, OnItsWay, FirstChunk
<1>4. <<1>> # <<>>
  OBVIOUS
<1>5. ~Failing
  BY <1>4 DEF Init, Failing
<1>6. Counted
  BY <1>2, <1>5, FS_EmptySet DEF Init, Counted
<1> QED
  BY <1>3, <1>6, InitCreationInv DEF Init, SteadyInv

(* As long as no process dies, every id that ser gives out is a file on a   *)
(* dat, or on its way there, or one of the failures in dat_errors and in    *)
(* the answers still to be read; nothing is counted twice.                  *)
THEOREM NoIdIsForgotten == Steady => []GrantsAccounted
<1>1. SteadyInv => GrantsAccounted
  BY FailuresAre DEF SteadyInv, Counted, GrantsAccounted
<1> QED
  BY <1>1, SteadyInit, SteadyStep, PTL DEF Steady

(***************************************************************************)
(* The refinement: SerDat implements Creations.                            *)
(***************************************************************************)

(* Where the request is tells the phase, for there is only one. *)
LEMMA PhaseFacts ==
  ASSUME OneCreation
  PROVE  /\ ~sock_lock => Phase = "free" /\ AskedId = 0
         /\ sock_lock /\ Outstanding = {} => Phase = "lost" /\ AskedId = 0
         /\ \A d \in Dats : AskedOf(d) => Phase = "asked" /\ AskedId = Head(inbox[d])
         /\ \A p \in Outstanding :
              (\A d \in Dats : p # <<"inbox", d>>) => Phase = "answering" /\ AskedId = 0
<1>1. ~sock_lock => Phase = "free" /\ AskedId = 0
  BY DEF Phase, AskedId
<1>2. ASSUME sock_lock, Outstanding = {} PROVE Phase = "lost" /\ AskedId = 0
  <2>1. ~\E d \in Dats : AskedOf(d)
    BY <1>2 DEF AskedOf
  <2>2. Phase = "lost"
    BY <1>2, <2>1 DEF Phase
  <2> QED
    BY <2>2 DEF AskedId
<1>3. ASSUME NEW d \in Dats, AskedOf(d) PROVE Phase = "asked" /\ AskedId = Head(inbox[d])
  <2>1. sock_lock /\ Outstanding # {}
    BY <1>3 DEF OneCreation, AskedOf
  <2>2. Phase = "asked"
    BY <1>3, <2>1 DEF Phase
  <2>3. \A e \in Dats : AskedOf(e) => e = d
    BY <1>3 DEF OneCreation, AskedOf
  <2> QED
    BY <1>3, <2>2, <2>3 DEF AskedId
<1>4. ASSUME NEW p \in Outstanding, \A d \in Dats : p # <<"inbox", d>>
      PROVE  Phase = "answering" /\ AskedId = 0
  <2>1. sock_lock /\ \A d \in Dats : ~AskedOf(d)
    BY <1>4 DEF OneCreation, AskedOf
  <2>2. Phase = "answering"
    BY <1>4, <2>1 DEF Phase
  <2> QED
    BY <2>2 DEF AskedId
<1> QED
  BY <1>1, <1>2, <1>3, <1>4

(* The same after a step. *)
LEMMA PhaseFactsPrime ==
  ASSUME OneCreation'
  PROVE  /\ ~sock_lock' => Phase' = "free" /\ AskedId' = 0
         /\ sock_lock' /\ Outstanding' = {} => Phase' = "lost" /\ AskedId' = 0
         /\ \A d \in Dats : AskedOf(d)' => Phase' = "asked" /\ AskedId' = Head(inbox'[d])
         /\ \A p \in Outstanding' :
              (\A d \in Dats : p # <<"inbox", d>>) => Phase' = "answering" /\ AskedId' = 0
<1>1. ~sock_lock' => Phase' = "free" /\ AskedId' = 0
  BY DEF Phase, AskedId
<1>2. ASSUME sock_lock', Outstanding' = {} PROVE Phase' = "lost" /\ AskedId' = 0
  <2>1. ~\E d \in Dats : AskedOf(d)'
    BY <1>2 DEF AskedOf
  <2>2. Phase' = "lost"
    BY <1>2, <2>1 DEF Phase
  <2> QED
    BY <2>2 DEF AskedId
<1>3. ASSUME NEW d \in Dats, AskedOf(d)' PROVE Phase' = "asked" /\ AskedId' = Head(inbox'[d])
  <2>1. sock_lock' /\ Outstanding' # {}
    BY <1>3 DEF OneCreation, AskedOf
  <2>2. Phase' = "asked"
    BY <1>3, <2>1 DEF Phase
  <2>3. \A e \in Dats : AskedOf(e)' => e = d
    BY <1>3 DEF OneCreation, AskedOf
  <2> QED
    BY <1>3, <2>2, <2>3 DEF AskedId
<1>4. ASSUME NEW p \in Outstanding', \A d \in Dats : p # <<"inbox", d>>
      PROVE  Phase' = "answering" /\ AskedId' = 0
  <2>1. sock_lock' /\ \A d \in Dats : ~AskedOf(d)'
    BY <1>4 DEF OneCreation, AskedOf
  <2>2. Phase' = "answering"
    BY <1>4, <2>1 DEF Phase
  <2> QED
    BY <2>2 DEF AskedId
<1> QED
  BY <1>1, <1>2, <1>3, <1>4

(* A step that leaves the request where it is. *)
LEMMA RequestStays ==
  ASSUME UNCHANGED <<sock_lock, peer, inbox, answer, received>>
  PROVE  Phase' = Phase /\ AskedId' = AskedId
<1>1. Outstanding' = Outstanding /\ inbox' = inbox /\ sock_lock' = sock_lock
  BY DEF Outstanding, Places, Holds
<1> QED
  BY <1>1 DEF Phase, AskedId, AskedOf

(* A step that at most takes the request away. *)
LEMMA RequestVanishes ==
  ASSUME CreationInv, CreationInv', sock_lock' = sock_lock, waiting' = waiting,
         next_chunkid' = next_chunkid,
         \A p \in Outstanding' : p \in Outstanding /\ Holds(p)' = Holds(p)
  PROVE  \/ Turns!Lose
         \/ UNCHANGED <<next_chunkid, waiting, Phase, AskedId>>
<1>1. OneCreation /\ OneCreation'
  BY DEF CreationInv
<1>2. CASE ~sock_lock
  BY <1>1, <1>2, PhaseFacts, PhaseFactsPrime
<1>3. CASE sock_lock /\ Outstanding' = {}
  <2>1. Phase' = "lost" /\ AskedId' = 0
    BY <1>1, <1>3, PhaseFactsPrime
  <2>2. Phase # "free"
    BY <1>3 DEF Phase
  <2> QED
    BY <2>1, <2>2 DEF Turns!Lose
<1>4. CASE sock_lock /\ Outstanding' # {}
  <2>1. PICK p \in Outstanding' : p \in Outstanding /\ Holds(p)' = Holds(p)
    BY <1>4
  <2>2. CASE \E d \in Dats : p = <<"inbox", d>>
    <3>1. PICK d \in Dats : p = <<"inbox", d>>
      BY <2>2
    <3>2. AskedOf(d) /\ AskedOf(d)'
      BY <2>1, <3>1 DEF AskedOf
    <3>3. peer[d] \in Infos /\ peer'[d] \in Infos
      BY <2>1, <3>1, OutstandingPlaces, OutstandingPlacesPrime
    <3>4. Holds(p) = inbox[d] /\ Holds(p)' = inbox'[d]
      BY <3>1, <3>3 DEF Holds
    <3> QED
      BY <1>1, <2>1, <3>2, <3>4, PhaseFacts, PhaseFactsPrime
  <2>3. CASE \A d \in Dats : p # <<"inbox", d>>
    BY <1>1, <2>1, <2>3, PhaseFacts, PhaseFactsPrime
  <2> QED
    BY <2>2, <2>3
<1> QED
  BY <1>2, <1>3, <1>4

(* The select loop asks a dat for the id, or nobody. *)
LEMMA SendChunkTurn ==
  ASSUME CreationInv, CreationInv', SendChunk
  PROVE  Turns!Send
<1>1. OneCreation /\ OneCreation' /\ ~sock_lock /\ sock_lock' /\ Outstanding = {}
  BY DEF CreationInv, OneCreation, SendChunk
<1>2. waiting # NULL /\ waiting' = NULL /\ Phase = "free" /\ next_chunkid' = next_chunkid
  BY <1>1, PhaseFacts DEF SendChunk
<1>3. CASE IsLinked(waiting)
  <2>1. PICK d \in Dats : peer[d] = waiting
    BY <1>3 DEF IsLinked
  <2>2. peer'[d] \in Infos /\ peer[d] \in Infos
    BY <2>1 DEF CreationInv, TypeOK, SendChunk
  <2>3. inbox[d] = <<>>
    BY <1>1, <2>2, OutstandingPlaces
  <2>4. inbox'[d] = Append(inbox[d], next_chunkid) /\ next_chunkid \in Nat
    BY <1>3, <2>1 DEF SendChunk, CreationInv, TypeOK
  <2>5. inbox'[d] # <<>> /\ Head(inbox'[d]) = next_chunkid
    BY <2>3, <2>4
  <2>6. AskedOf(d)'
    BY <2>2, <2>5, OutstandingPlacesPrime DEF AskedOf
  <2>7. Phase' = "asked" /\ AskedId' = next_chunkid
    BY <1>1, <2>5, <2>6, PhaseFactsPrime
  <2> QED
    BY <1>2, <2>7 DEF Turns!Send
<1>4. CASE ~IsLinked(waiting)
  <2>1. Outstanding' = {}
    BY <1>1, <1>4, OutstandingPlaces, OutstandingPlacesPrime DEF SendChunk
  <2>2. Phase' = "lost" /\ AskedId' = 0
    BY <1>1, <2>1, PhaseFactsPrime
  <2> QED
    BY <1>2, <2>2 DEF Turns!Send
<1> QED
  BY <1>3, <1>4

(* A dat creates the chunk file. *)
LEMMA DatCreateTurn ==
  ASSUME CreationInv, CreationInv', NEW d \in Dats, DatCreate(d)
  PROVE  \/ Turns!Create
         \/ Turns!Lose
         \/ UNCHANGED <<next_chunkid, waiting, Phase, AskedId>>
<1>1. OneCreation /\ OneCreation'
  BY DEF CreationInv
<1>2. waiting' = waiting /\ next_chunkid' = next_chunkid
  BY DEF DatCreate, loop
<1>3. CASE peer[d] \in Infos
  <2>1. AskedOf(d)
    BY <1>3, OutstandingPlaces DEF AskedOf, DatCreate
  <2>2. <<"answer", d>> \in Outstanding'
    BY <1>3, DatCreateFacts, OutstandingPlacesPrime
  <2>3. \A e \in Dats : <<"answer", d>> # <<"inbox", e>>
    OBVIOUS
  <2>4. Phase = "asked" /\ Phase' = "answering" /\ AskedId' = 0
    BY <1>1, <2>1, <2>2, <2>3, PhaseFacts, PhaseFactsPrime
  <2> QED
    BY <1>2, <2>4 DEF Turns!Create
<1>4. CASE peer[d] \notin Infos
  <2>1. \A e \in Dats : peer'[e] \in Infos =>
          peer[e] = peer'[e] /\ inbox[e] = inbox'[e] /\ answer[e] = answer'[e]
    BY <1>4, DatCreateFacts
  <2>2. received' = received /\ sock_lock' = sock_lock
    BY DatCreateFacts
  <2>3. ASSUME NEW q \in Outstanding'
        PROVE  q \in Outstanding /\ Holds(q)' = Holds(q)
    BY <2>1, <2>2, OutstandingPlaces, OutstandingPlacesPrime DEF Holds
  <2> QED
    BY <1>2, <2>2, <2>3, RequestVanishes
<1> QED
  BY <1>3, <1>4

(* A dat answers: the phase stays. *)
LEMMA DatReplyTurn ==
  ASSUME CreationInv, CreationInv', NEW d \in Dats, DatReply(d)
  PROVE  Turns!Lose \/ UNCHANGED <<next_chunkid, waiting, Phase, AskedId>>
<1>1. OneCreation /\ OneCreation'
  BY DEF CreationInv
<1>2. waiting' = waiting /\ next_chunkid' = next_chunkid /\ sock_lock' = sock_lock
  BY DEF DatReply, loop
<1>3. CASE peer[d] \in Infos
  <2>1. <<"answer", d>> \in Outstanding
    BY <1>3, OutstandingPlaces DEF DatReply
  <2>2. <<"received", peer[d]>> \in Outstanding'
    <3>1. received'[peer[d]] = Append(received[peer[d]], answer[d][1])
      BY <1>3 DEF CreationInv, TypeOK, DatReply
    <3>2. answer[d][1] \in {0, 1}
      BY Queue DEF CreationInv, TypeOK, DatReply
    <3>3. received[peer[d]] \in Seq({0, 1}) /\ peer' = peer
      BY <1>3 DEF CreationInv, TypeOK, DatReply
    <3>4. received'[peer[d]] # <<>>
      BY <3>1, <3>2, <3>3, Queue
    <3> QED
      BY <1>3, <3>3, <3>4, OutstandingPlacesPrime
  <2>3. \A e \in Dats : <<"answer", d>> # <<"inbox", e>> /\ <<"received", peer[d]>> # <<"inbox", e>>
    OBVIOUS
  <2> QED
    BY <1>1, <1>2, <2>1, <2>2, <2>3, PhaseFacts, PhaseFactsPrime
<1>4. CASE peer[d] \notin Infos
  <2>1. \A p \in Outstanding' : p \in Outstanding /\ Holds(p)' = Holds(p)
    BY <1>4, OutstandingPlaces, OutstandingPlacesPrime DEF CreationInv, TypeOK, DatReply, Holds
  <2> QED
    BY <1>2, <2>1, RequestVanishes
<1> QED
  BY <1>3, <1>4

(* The other steps at most take the request away: a connection is accepted  *)
(* or freed, a dat closes its socket or dies.                               *)
LEMMA LosingTurn ==
  ASSUME CreationInv, CreationInv',
         AcceptAny \/ ReapAny \/ \E d \in Dats : DatDisconnect(d) \/ DatCrash(d)
  PROVE  Turns!Lose \/ UNCHANGED <<next_chunkid, waiting, Phase, AskedId>>
<1>1. waiting' = waiting /\ next_chunkid' = next_chunkid /\ sock_lock' = sock_lock
  BY DEF AcceptAny, AcceptLink, AcceptInit, ReapAny, Reap, DatDisconnect, DatCrash, loop
<1>2. \A p \in Outstanding' : p \in Outstanding /\ Holds(p)' = Holds(p)
  <2>1. ASSUME NEW d \in Dats, NEW i \in Infos, AcceptLink(d, i)
        PROVE  \A p \in Outstanding' : p \in Outstanding /\ Holds(p)' = Holds(p)
    BY <2>1, PlacesEmptied DEF CreationInv, TypeOK, PeerShape, FreedShape, AcceptLink
  <2>5. ASSUME AcceptInit
        PROVE  \A p \in Outstanding' : p \in Outstanding /\ Holds(p)' = Holds(p)
    BY <2>5, PlacesEmptied DEF AcceptInit, dats
  <2>2. ASSUME NEW i \in Infos, Reap(i)
        PROVE  \A p \in Outstanding' : p \in Outstanding /\ Holds(p)' = Holds(p)
    BY <2>2, PlacesEmptied DEF CreationInv, TypeOK, Reap
  <2>3. ASSUME NEW d \in Dats, DatDisconnect(d)
        PROVE  \A p \in Outstanding' : p \in Outstanding /\ Holds(p)' = Holds(p)
    BY <2>3, PlacesEmptied DEF CreationInv, TypeOK, DatDisconnect
  <2>4. ASSUME NEW d \in Dats, DatCrash(d)
        PROVE  \A p \in Outstanding' : p \in Outstanding /\ Holds(p)' = Holds(p)
    BY <2>4, PlacesEmptied DEF CreationInv, TypeOK, DatCrash
  <2> QED
    BY <2>1, <2>2, <2>3, <2>4, <2>5 DEF AcceptAny, ReapAny
<1> QED
  BY <1>1, <1>2, RequestVanishes

(* get_dat_chunk_status: the answer is read, and the turn is over. *)
LEMMA RecvDataTurn ==
  ASSUME CreationInv, CreationInv', RecvData
  PROVE  Turns!Answer
<1>1. OneCreation /\ OneCreation'
  BY DEF CreationInv
<1>2. <<"received", info>> \in Outstanding
  BY OutstandingPlaces DEF CreationInv, TypeOK, RecvData, ReceiverShape
<1>3. \A e \in Dats : <<"received", info>> # <<"inbox", e>>
  OBVIOUS
<1>4. Phase = "answering" /\ AskedId = 0
  BY <1>1, <1>2, <1>3, PhaseFacts
<1>5. Phase' = "free" /\ AskedId' = 0
  BY <1>1, PhaseFactsPrime DEF RecvData
<1> QED
  BY <1>4, <1>5 DEF RecvData, loop, Turns!Answer

(* The steps of receive_thread before and after the answer leave the        *)
(* request where it is.                                                     *)
LEMMA SilentTurn ==
  ASSUME RecvWake \/ RecvEnter \/ RecvHeader \/ RecvEof \/ RecvNext \/ UNCHANGED vars
  PROVE  UNCHANGED <<next_chunkid, waiting, Phase, AskedId>>
<1>1. UNCHANGED <<loop, sock_lock, peer, inbox, answer, received>>
  BY DEF RecvWake, RecvEnter, RecvHeader, RecvEof, RecvNext, vars, loop, dats
<1> QED
  BY <1>1, RequestStays DEF loop

(* create_new_chunk takes the next id. *)
LEMMA CreateChunkTurn ==
  ASSUME CreationInv, CreateChunk
  PROVE  Turns!Take
<1>1. UNCHANGED <<sock_lock, peer, inbox, answer, received>>
  BY DEF CreateChunk, dats
<1>2. waiting = NULL /\ waiting' # NULL /\ next_chunkid' = next_chunkid + 1
  BY NullAssumption DEF CreationInv, TypeOK, CreateChunk, Looping
<1> QED
  BY <1>1, <1>2, RequestStays DEF Turns!Take

(* Started anew, ser waits for nothing. *)
LEMMA RestartTurn ==
  ASSUME CreationInv', Restart
  PROVE  Turns!Restart
<1>1. Phase' = "free" /\ AskedId' = 0
  BY PhaseFactsPrime DEF CreationInv, Restart
<1> QED
  BY <1>1 DEF Restart, Turns!Restart

(* A step of SerDat is a step of Creations, or changes nothing there. *)
LEMMA StepTurn ==
  ASSUME CreationInv, CreationInv', [Next]_vars
  PROVE  [Turns!Next]_<<next_chunkid, waiting # NULL, Phase, AskedId>>
<1>1. ASSUME NEW d \in Dats, DatCreate(d) \/ DatReply(d)
      PROVE  \/ Turns!Create
             \/ Turns!Lose
             \/ UNCHANGED <<next_chunkid, waiting, Phase, AskedId>>
  BY <1>1, DatCreateTurn, DatReplyTurn
<1> QED
  BY <1>1, LosingTurn, CreateChunkTurn, SendChunkTurn, RecvDataTurn, SilentTurn, RestartTurn
     DEF Next, Select, Receive, Dat, Crash, Turns!Next

(* Whatever becomes of the dats, the links and the list, ser gives out its  *)
(* chunk ids one at a time, each is asked for at most once and before the   *)
(* next, and nobody asks for any other: SerDat implements Creations.        *)
THEOREM IdsAreAskedInTurn == Spec => CreationsInTurn
<1>1. Init => Turns!Init
  <2> SUFFICES ASSUME Init PROVE Turns!Init
    OBVIOUS
  <2>1. Phase = "free" /\ AskedId = 0
    BY InitCreationInv, PhaseFacts DEF Init, CreationInv
  <2> QED
    BY <2>1 DEF Init, Turns!Init
<1>2. CreationInv /\ [Next]_vars => CreationInv'
  BY NextCreationInv
<1>3. CreationInv /\ CreationInv' /\ [Next]_vars
        => [Turns!Next]_<<next_chunkid, waiting # NULL, Phase, AskedId>>
  BY StepTurn
<1> QED
  BY <1>1, <1>2, <1>3, InitCreationInv, PTL DEF Spec, CreationsInTurn, Turns!Spec
=============================================================================
