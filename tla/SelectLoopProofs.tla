-------------------------- MODULE SelectLoopProofs --------------------------
(***************************************************************************)
(* Proofs about SelectLoop, for any number of connections, descriptors and *)
(* kinds of request: the inductive invariant, and from it the invariants   *)
(* that the runs check and the refinement of Exchanges.                    *)
(***************************************************************************)
EXTENDS SelectLoop, Integers, TLAPS

(* The constants, as the provers need them. *)
LEMMA Constants ==
  /\ ReplySize \in Nat /\ ReplySize >= 1 /\ MaxPacketSize \in Nat
  /\ \A fd \in Fds : fd \in Nat /\ fd # 0
  /\ \A r \in Requests : r \in [size : Nat, known : BOOLEAN] /\ r.size \in Nat
  /\ Header = 2 /\ 0 \notin Fds
  BY FdsAssumption, RequestsAssumption, SizesAssumption DEF Header

-----------------------------------------------------------------------------
(* Sequences as sets of elements in different places *)

(* A new head. *)
LEMMA ConsFacts ==
  ASSUME NEW S, NEW s \in Seq(S), NEW e \in S
  PROVE  /\ <<e>> \o s \in Seq(S) /\ <<e>> \o s # <<>>
         /\ DOMAIN (<<e>> \o s) = 1..(Len(s) + 1) /\ (<<e>> \o s)[1] = e
         /\ \A j \in DOMAIN s : j + 1 \in DOMAIN (<<e>> \o s) /\ (<<e>> \o s)[j + 1] = s[j]
         /\ \A x : In(x, <<e>> \o s) <=> x = e \/ In(x, s)
         /\ Distinct(s) /\ ~In(e, s) => Distinct(<<e>> \o s)
<1> DEFINE t == <<e>> \o s
<1>1. /\ t \in Seq(S) /\ Len(s) \in Nat /\ Len(t) = Len(s) + 1
      /\ DOMAIN t = 1..(Len(s) + 1) /\ DOMAIN s = 1..Len(s)
      /\ \A j \in 1..(Len(s) + 1) : t[j] = IF j = 1 THEN e ELSE s[j - 1]
  OBVIOUS
<1> HIDE DEF t
<1>2. t # <<>> /\ t[1] = e
  BY <1>1
<1>3. \A j \in DOMAIN s : j + 1 \in DOMAIN t /\ t[j + 1] = s[j]
  BY <1>1
<1>4. \A j \in DOMAIN t : j = 1 \/ (j - 1 \in DOMAIN s /\ t[j] = s[j - 1])
  BY <1>1
<1>5. ASSUME NEW x PROVE In(x, t) <=> x = e \/ In(x, s)
  <2>1. 1 \in DOMAIN t
    BY <1>1
  <2> QED
    BY <2>1, <1>2, <1>3, <1>4 DEF In
<1>6. ASSUME Distinct(s), ~In(e, s) PROVE Distinct(t)
  <2>1. ASSUME NEW i \in DOMAIN t, NEW j \in DOMAIN t, t[i] = t[j] PROVE i = j
    <3>0. i \in Int /\ j \in Int
      BY <1>1, <2>1
    <3>1. CASE i = 1 /\ j # 1
      BY <1>2, <1>4, <1>6, <2>1, <3>1 DEF In
    <3>2. CASE i # 1 /\ j = 1
      BY <1>2, <1>4, <1>6, <2>1, <3>2 DEF In
    <3>3. CASE i # 1 /\ j # 1
      <4>1. s[i - 1] = s[j - 1] /\ i - 1 \in DOMAIN s /\ j - 1 \in DOMAIN s
        BY <1>4, <2>1, <3>3
      <4>2. i - 1 = j - 1
        BY <1>6, <4>1 DEF Distinct
      <4> QED
        BY <3>0, <4>2
    <3> QED
      BY <3>1, <3>2, <3>3
  <2> QED
    BY <2>1 DEF Distinct
<1> QED
  BY <1>1, <1>2, <1>3, <1>5, <1>6 DEF t

(* The sequence of no elements. *)
LEMMA EmptyFacts ==
  ASSUME NEW S, NEW s \in Seq(S)
  PROVE  Len(s) \in Nat /\ (Len(s) = 0 <=> s = <<>>)
  OBVIOUS

(* Two sequences, one after the other. *)
LEMMA ConcatFacts ==
  ASSUME NEW S, NEW s \in Seq(S), NEW t \in Seq(S)
  PROVE  /\ s \o t \in Seq(S) /\ Len(s) \in Nat /\ Len(t) \in Nat
         /\ Len(s \o t) = Len(s) + Len(t) /\ DOMAIN (s \o t) = 1 .. (Len(s) + Len(t))
         /\ \A k \in 1 .. (Len(s) + Len(t)) :
              (s \o t)[k] = IF k <= Len(s) THEN s[k] ELSE t[k - Len(s)]
  OBVIOUS

(* The head is taken away. *)
LEMMA TailFacts ==
  ASSUME NEW S, NEW s \in Seq(S), s # <<>>
  PROVE  /\ Tail(s) \in Seq(S) /\ Head(s) \in S /\ In(Head(s), s)
         /\ \A x : In(x, Tail(s)) => In(x, s)
         /\ \A x : In(x, s) => x = Head(s) \/ In(x, Tail(s))
         /\ Distinct(s) => Distinct(Tail(s)) /\ ~In(Head(s), Tail(s))
<1> DEFINE t == Tail(s)
<1>1. /\ t \in Seq(S) /\ Len(s) \in Nat /\ Len(s) >= 1 /\ Len(t) = Len(s) - 1
      /\ DOMAIN t = 1..(Len(s) - 1) /\ DOMAIN s = 1..Len(s)
      /\ \A j \in 1..(Len(s) - 1) : t[j] = s[j + 1]
      /\ Head(s) = s[1] /\ s[1] \in S
  OBVIOUS
<1> HIDE DEF t
<1>2. \A j \in DOMAIN t : /\ j \in Int /\ j >= 1
                          /\ j + 1 \in DOMAIN s /\ j + 1 # 1 /\ t[j] = s[j + 1]
  BY <1>1
<1>3. \A j \in DOMAIN s : j = 1 \/ (j - 1 \in DOMAIN t /\ t[j - 1] = s[j])
  BY <1>1
<1>4. 1 \in DOMAIN s
  BY <1>1
<1>5. In(Head(s), s)
  BY <1>1, <1>4 DEF In
<1>6. ASSUME NEW x PROVE /\ In(x, t) => In(x, s)
                         /\ In(x, s) => x = Head(s) \/ In(x, t)
  <2>1. ASSUME NEW j \in DOMAIN t, t[j] = x PROVE In(x, s)
    BY <1>2, <2>1 DEF In
  <2>2. ASSUME NEW j \in DOMAIN s, s[j] = x PROVE x = Head(s) \/ In(x, t)
    BY <1>1, <1>3, <2>2 DEF In
  <2> QED
    BY <2>1, <2>2 DEF In
<1>7. ASSUME Distinct(s) PROVE Distinct(t) /\ ~In(Head(s), t)
  <2>1. ASSUME NEW i \in DOMAIN t, NEW j \in DOMAIN t, t[i] = t[j] PROVE i = j
    <3>1. i + 1 = j + 1
      BY <1>2, <1>7, <2>1 DEF Distinct
    <3> QED
      BY <1>2, <3>1
  <2>2. ASSUME NEW i \in DOMAIN t, t[i] = Head(s) PROVE FALSE
    BY <1>1, <1>2, <1>4, <1>7, <2>2 DEF Distinct
  <2> QED
    BY <2>1, <2>2 DEF Distinct, In
<1> QED
  BY <1>1, <1>5, <1>6, <1>7 DEF t

(* A new last element. *)
LEMMA AppendFacts ==
  ASSUME NEW S, NEW s \in Seq(S), NEW e \in S
  PROVE  /\ Append(s, e) \in Seq(S) /\ Append(s, e) # <<>>
         /\ \A x : In(x, Append(s, e)) <=> x = e \/ In(x, s)
         /\ Distinct(s) /\ ~In(e, s) => Distinct(Append(s, e))
<1> DEFINE t == Append(s, e)
<1>1. /\ t \in Seq(S) /\ t # <<>> /\ Len(s) \in Nat
      /\ DOMAIN t = 1..(Len(s) + 1) /\ DOMAIN s = 1..Len(s)
      /\ \A j \in 1..(Len(s) + 1) : t[j] = IF j = Len(s) + 1 THEN e ELSE s[j]
  OBVIOUS
<1> HIDE DEF t
<1>2. Len(s) + 1 \in DOMAIN t /\ t[Len(s) + 1] = e
  BY <1>1
<1>3. \A j \in DOMAIN s : j \in DOMAIN t /\ t[j] = s[j]
  BY <1>1
<1>4. \A j \in DOMAIN t : j = Len(s) + 1 \/ (j \in DOMAIN s /\ t[j] = s[j])
  BY <1>1
<1>5. ASSUME NEW x PROVE In(x, t) <=> x = e \/ In(x, s)
  BY <1>2, <1>3, <1>4 DEF In
<1>6. ASSUME Distinct(s), ~In(e, s) PROVE Distinct(t)
  BY <1>2, <1>4, <1>6 DEF In, Distinct
<1> QED
  BY <1>1, <1>5, <1>6 DEF t

(* A sequence without its element at place i. *)
Without(s, i) == [k \in 1 .. Len(s) - 1 |-> IF k < i THEN s[k] ELSE s[k + 1]]

(* An element in the middle is taken out (con_cli.c:721). *)
LEMMA RemoveFacts ==
  ASSUME NEW S, NEW s \in Seq(S), NEW i \in DOMAIN s, NEW t, t = Without(s, i)
  PROVE  /\ t \in Seq(S)
         /\ \A k \in DOMAIN t : \/ k \in DOMAIN s /\ k # i /\ t[k] = s[k]
                                \/ k + 1 \in DOMAIN s /\ k + 1 # i /\ k >= i /\ t[k] = s[k + 1]
         /\ \A x : In(x, t) => In(x, s)
         /\ \A x : In(x, s) => x = s[i] \/ In(x, t)
         /\ Distinct(s) => Distinct(t) /\ ~In(s[i], t)
<1>1. /\ Len(s) \in Nat /\ Len(s) >= 1 /\ DOMAIN s = 1..Len(s) /\ i \in Nat /\ i >= 1
      /\ i <= Len(s) /\ \A k \in DOMAIN s : s[k] \in S
  OBVIOUS
<1>2. /\ t \in Seq(S) /\ DOMAIN t = 1..(Len(s) - 1)
      /\ \A k \in DOMAIN t : t[k] = IF k < i THEN s[k] ELSE s[k + 1]
  BY <1>1 DEF Without
<1>3. ASSUME NEW k \in DOMAIN t
      PROVE  /\ k \in Int
             /\ \/ k \in DOMAIN s /\ k < i /\ k # i /\ t[k] = s[k]
                \/ k + 1 \in DOMAIN s /\ k + 1 > i /\ k + 1 # i /\ k >= i /\ t[k] = s[k + 1]
  BY <1>1, <1>2
<1>4. ASSUME NEW k \in DOMAIN s, k # i
      PROVE  \/ k \in DOMAIN t /\ t[k] = s[k]
             \/ k - 1 \in DOMAIN t /\ t[k - 1] = s[k]
  <2>1. CASE k < i
    BY <1>1, <1>2, <2>1
  <2>2. CASE k > i
    BY <1>1, <1>2, <2>2
  <2> QED
    BY <1>1, <1>4, <2>1, <2>2
<1>5. ASSUME NEW x PROVE (In(x, t) => In(x, s)) /\ (In(x, s) => x = s[i] \/ In(x, t))
  <2>1. ASSUME NEW k \in DOMAIN t, t[k] = x PROVE In(x, s)
    BY <1>3, <2>1 DEF In
  <2>2. ASSUME NEW k \in DOMAIN s, s[k] = x PROVE x = s[i] \/ In(x, t)
    BY <1>4, <2>2 DEF In
  <2> QED
    BY <2>1, <2>2 DEF In
<1>6. ASSUME Distinct(s) PROVE Distinct(t) /\ ~In(s[i], t)
  <2>1. ASSUME NEW k \in DOMAIN t, NEW l \in DOMAIN t, t[k] = t[l] PROVE k = l
    <3>1. CASE t[k] = s[k] /\ k \in DOMAIN s /\ k < i /\ t[l] = s[l] /\ l \in DOMAIN s
      BY <1>6, <2>1, <3>1 DEF Distinct
    <3>2. CASE t[k] = s[k + 1] /\ k + 1 \in DOMAIN s /\ t[l] = s[l + 1] /\ l + 1 \in DOMAIN s
      <4>1. k + 1 = l + 1
        BY <1>6, <2>1, <3>2 DEF Distinct
      <4> QED
        BY <1>3, <4>1
    <3>3. CASE t[k] = s[k] /\ k \in DOMAIN s /\ k < i /\ t[l] = s[l + 1] /\ l + 1 \in DOMAIN s /\ l + 1 > i
      <4>1. k = l + 1
        BY <1>6, <2>1, <3>3 DEF Distinct
      <4> QED
        BY <1>1, <1>3, <3>3, <4>1
    <3>4. CASE t[l] = s[l] /\ l \in DOMAIN s /\ l < i /\ t[k] = s[k + 1] /\ k + 1 \in DOMAIN s /\ k + 1 > i
      <4>1. l = k + 1
        BY <1>6, <2>1, <3>4 DEF Distinct
      <4> QED
        BY <1>1, <1>3, <3>4, <4>1
    <3> QED
      BY <1>3, <3>1, <3>2, <3>3, <3>4
  <2>2. ASSUME NEW k \in DOMAIN t, t[k] = s[i] PROVE FALSE
    BY <1>3, <1>6, <2>2 DEF Distinct
  <2> QED
    BY <2>1, <2>2 DEF Distinct, In
<1> QED
  BY <1>2, <1>3, <1>5, <1>6

-----------------------------------------------------------------------------
(* Types *)

(* What the information on a connection holds. *)
LEMMA InfoFields ==
  ASSUME NEW it \in Infos
  PROVE  /\ it.sock \in Fds \cup {0} /\ it.mode \in {"KILL", "HEADER", "DATA"}
         /\ it.got \in Nat /\ it.bytes \in Nat \ {0}
         /\ it.out \in Seq([no : 0 .. 1, bytes : Nat \ {0}])
  BY DEF Infos

(* Each field of the information may be replaced. *)
LEMMA InfoWith ==
  ASSUME NEW fd \in Fds \cup {0}, NEW mode \in {"KILL", "HEADER", "DATA"}, NEW got \in Nat,
         NEW bytes \in Nat \ {0}, NEW out \in Seq([no : 0 .. 1, bytes : Nat \ {0}])
  PROVE  [sock |-> fd, mode |-> mode, got |-> got, bytes |-> bytes, out |-> out] \in Infos
  BY DEF Infos

(* A connection that is accepted, and one that is to be closed. *)
LEMMA NewInfoFacts ==
  ASSUME NEW fd \in Fds \cup {0}
  PROVE  /\ NewInfo(fd) \in Infos /\ [NewInfo(fd) EXCEPT !.mode = "KILL"] \in Infos
         /\ NewInfo(fd).sock = fd /\ NewInfo(fd).mode = "HEADER"
         /\ NewInfo(fd).out = <<>> /\ Fresh(NewInfo(fd))
         /\ LET k == [NewInfo(fd) EXCEPT !.mode = "KILL"]
            IN k.sock = fd /\ k.mode = "KILL" /\ k.out = <<>> /\ Fresh(k)
<1>1. <<>> \in Seq([no : 0 .. 1, bytes : Nat \ {0}])
  OBVIOUS
<1>2. Header \in Nat \ {0}
  BY DEF Header
<1>3. /\ NewInfo(fd) = [sock |-> fd, mode |-> "HEADER", got |-> 0, bytes |-> Header, out |-> <<>>]
      /\ [NewInfo(fd) EXCEPT !.mode = "KILL"]
           = [sock |-> fd, mode |-> "KILL", got |-> 0, bytes |-> Header, out |-> <<>>]
  BY DEF NewInfo
<1>4. NewInfo(fd) \in Infos /\ [NewInfo(fd) EXCEPT !.mode = "KILL"] \in Infos
  <2>1. ASSUME NEW mode \in {"HEADER", "KILL"}
        PROVE  [sock |-> fd, mode |-> mode, got |-> 0, bytes |-> Header, out |-> <<>>] \in Infos
    BY <1>1, <1>2, <2>1 DEF Infos
  <2>2. "HEADER" \in {"HEADER", "KILL"} /\ "KILL" \in {"HEADER", "KILL"}
    OBVIOUS
  <2> QED
    BY <1>3, <2>1, <2>2
<1> QED
  BY <1>3, <1>4 DEF Fresh

(* What the other end of a connection holds. *)
LEMMA DrwFields ==
  ASSUME NEW d \in Drws
  PROVE  /\ d.on \in BOOLEAN /\ d.up \in Nat /\ d.down \in Seq(0 .. 1)
         /\ d.request \in [size : Nat, known : BOOLEAN]
         /\ d.request.size \in Nat /\ d.request.known \in BOOLEAN
  BY DEF Drws

(* Each field of the other end may be replaced. *)
LEMMA DrwWith ==
  ASSUME NEW on \in BOOLEAN, NEW up \in Nat, NEW down \in Seq(0 .. 1),
         NEW request \in [size : Nat, known : BOOLEAN]
  PROVE  [on |-> on, request |-> request, up |-> up, down |-> down] \in Drws
  BY DEF Drws

(* The closed connection, and the start of its history. *)
LEMMA GoneFacts ==
  /\ Gone \in Drws /\ ~Gone.on /\ Gone.up = 0 /\ Gone.down = <<>>
  /\ NoRequest \in [size : Nat, known : BOOLEAN]
  /\ NoTalk \in [no : 0 .. 1, ran : 0 .. 2, answer : 0 .. 2]
  /\ NoTalk.no = 0 /\ NoTalk.ran = 1 /\ NoTalk.answer = 0
<1>1. NoRequest \in [size : Nat, known : BOOLEAN] /\ <<>> \in Seq(0 .. 1)
  BY DEF NoRequest
<1>2. Gone \in Drws
  BY <1>1, DrwWith DEF Gone
<1> QED
  BY <1>1, <1>2 DEF Gone, NoTalk

(* What the main thread's variables hold. *)
LEMMA LoopFields ==
  ASSUME NEW l \in Loops
  PROVE  /\ l.pc \in {"select", "serve", "conns", "exit"} /\ l.todo \in Seq(Handlers)
         /\ l.at \in Nat /\ l.rset \subseteq Fds /\ l.wset \subseteq Fds
         /\ l.knocks \subseteq Handlers /\ l.closed \subseteq Fds
  BY DEF Loops

(* Each of them may be replaced. *)
LEMMA LoopWith ==
  ASSUME NEW pc \in {"select", "serve", "conns", "exit"}, NEW todo \in Seq(Handlers),
         NEW at \in Nat, NEW rset \in SUBSET Fds, NEW wset \in SUBSET Fds,
         NEW knocks \in SUBSET Handlers, NEW closed \in SUBSET Fds
  PROVE  [pc |-> pc, todo |-> todo, at |-> at, rset |-> rset, wset |-> wset,
          knocks |-> knocks, closed |-> closed] \in Loops
  BY DEF Loops

(* The typed facts that the steps below build on. *)
LEMMA TypeFacts ==
  ASSUME TypeOK
  PROVE  /\ selhead \in Seq(Handlers) /\ loop \in Loops
         /\ aux \in [Handlers -> [pc : {"start", "link", "done"}, next : Seq(Handlers)]]
         /\ cli_info \in Seq(Conns) /\ backlog \in Seq(Conns)
         /\ info \in [Conns -> Infos] /\ drw \in [Conns -> Drws]
         /\ used \subseteq Fds /\ dats \subseteq Fds /\ dead \subseteq Fds
         /\ datKnocks \in BOOLEAN
         /\ talk \in [Conns -> [no : 0 .. 1, ran : 0 .. 2, answer : 0 .. 2]]
         /\ \A c \in Conns : /\ info[c] \in Infos /\ drw[c] \in Drws
                             /\ talk[c].no \in 0 .. 1 /\ talk[c].ran \in 0 .. 2
                             /\ talk[c].answer \in 0 .. 2
         /\ \A i \in DOMAIN cli_info : cli_info[i] \in Conns /\ i \in Nat /\ i >= 1
  BY DEF TypeOK

(* What the loop's variables hold when it goes on to the next handler. *)
LEMMA NextHandlerFacts ==
  ASSUME TypeOK, loop.todo # <<>>
  PROVE  /\ NextHandler \in Loops /\ NextHandler.at = 1
         /\ \/ /\ NextHandler.pc = "serve" /\ NextHandler.todo = Tail(loop.todo)
               /\ NextHandler.rset = loop.rset /\ NextHandler.knocks = loop.knocks
               /\ NextHandler.closed = loop.closed
            \/ /\ NextHandler.pc = "select" /\ NextHandler.todo = <<>>
               /\ NextHandler.closed = {}
         /\ \A gone \in SUBSET Fds :
              /\ [NextHandler EXCEPT !.closed = gone] \in Loops
              /\ LET l == [NextHandler EXCEPT !.closed = gone]
                 IN /\ l.pc = NextHandler.pc /\ l.todo = NextHandler.todo /\ l.at = 1
                    /\ l.rset = NextHandler.rset /\ l.knocks = NextHandler.knocks
                    /\ l.closed = gone
<1>1. /\ loop.pc \in {"select", "serve", "conns", "exit"} /\ loop.todo \in Seq(Handlers)
      /\ loop.at \in Nat /\ loop.rset \in SUBSET Fds /\ loop.wset \in SUBSET Fds
      /\ loop.knocks \in SUBSET Handlers /\ loop.closed \in SUBSET Fds
  BY TypeFacts, LoopFields
<1>2. /\ Tail(loop.todo) \in Seq(Handlers) /\ <<>> \in Seq(Handlers)
  BY <1>1
<1>3. loop = [pc |-> loop.pc, todo |-> loop.todo, at |-> loop.at, rset |-> loop.rset,
              wset |-> loop.wset, knocks |-> loop.knocks, closed |-> loop.closed]
  BY TypeFacts DEF Loops
<1>4. \/ NextHandler = [pc |-> "serve", todo |-> Tail(loop.todo), at |-> 1, rset |-> loop.rset,
                        wset |-> loop.wset, knocks |-> loop.knocks, closed |-> loop.closed]
      \/ NextHandler = [pc |-> "select", todo |-> <<>>, at |-> 1, rset |-> {},
                        wset |-> {}, knocks |-> {}, closed |-> {}]
  BY <1>3 DEF NextHandler
<1>5. NextHandler \in Loops
  <2>1. [pc |-> "serve", todo |-> Tail(loop.todo), at |-> 1, rset |-> loop.rset,
         wset |-> loop.wset, knocks |-> loop.knocks, closed |-> loop.closed] \in Loops
    BY <1>1, <1>2 DEF Loops
  <2>2. [pc |-> "select", todo |-> <<>>, at |-> 1, rset |-> {},
         wset |-> {}, knocks |-> {}, closed |-> {}] \in Loops
    BY <1>2 DEF Loops
  <2> QED
    BY <1>4, <2>1, <2>2
<1>6. ASSUME NEW gone \in SUBSET Fds
      PROVE  /\ [NextHandler EXCEPT !.closed = gone] \in Loops
             /\ LET l == [NextHandler EXCEPT !.closed = gone]
                IN /\ l.pc = NextHandler.pc /\ l.todo = NextHandler.todo /\ l.at = NextHandler.at
                   /\ l.rset = NextHandler.rset /\ l.knocks = NextHandler.knocks
                   /\ l.closed = gone
  BY <1>5 DEF Loops
<1>7. /\ NextHandler.at = 1
      /\ \/ /\ NextHandler.pc = "serve" /\ NextHandler.todo = Tail(loop.todo)
            /\ NextHandler.rset = loop.rset /\ NextHandler.knocks = loop.knocks
            /\ NextHandler.closed = loop.closed
         \/ /\ NextHandler.pc = "select" /\ NextHandler.todo = <<>>
            /\ NextHandler.closed = {}
  <2>1. CASE NextHandler = [pc |-> "serve", todo |-> Tail(loop.todo), at |-> 1,
                            rset |-> loop.rset, wset |-> loop.wset,
                            knocks |-> loop.knocks, closed |-> loop.closed]
    BY <2>1, Zenon
  <2>2. CASE NextHandler = [pc |-> "select", todo |-> <<>>, at |-> 1, rset |-> {},
                            wset |-> {}, knocks |-> {}, closed |-> {}]
    BY <2>2, Zenon
  <2> QED
    BY <1>4, <2>1, <2>2
<1> QED
  BY <1>5, <1>6, <1>7

-----------------------------------------------------------------------------
(* What a step leaves alone keeps its part of the invariant *)

Connections == <<cli_info, info, backlog, drw, talk>>

(* A step that does not touch the connections. *)
LEMMA KeepConnections ==
  ASSUME \A c \in Conns : ConnectionInv(c), UNCHANGED Connections
  PROVE  \A c \in Conns : ConnectionInv(c)'
<1> SUFFICES ASSUME NEW c \in Conns PROVE ConnectionInv(c)'
  OBVIOUS
<1>1. ConnectionInv(c)
  OBVIOUS
<1>2. UNCHANGED <<cli_info, info, backlog, drw, talk>>
  BY DEF Connections
<1> QED
  BY <1>1, <1>2 DEF ConnectionInv, RequestUnderWay, AnswerUnderWay, Awaiting, Fresh,
                    Listed, Waiting, In

(* A step on one connection. *)
LEMMA OtherConnections ==
  ASSUME \A d \in Conns : ConnectionInv(d), NEW c \in Conns, ConnectionInv(c)',
         \A d \in Conns : d # c => /\ info'[d] = info[d] /\ drw'[d] = drw[d] /\ talk'[d] = talk[d]
                                   /\ Listed(d)' = Listed(d) /\ Waiting(d)' = Waiting(d)
  PROVE  \A d \in Conns : ConnectionInv(d)'
<1> SUFFICES ASSUME NEW d \in Conns, d # c PROVE ConnectionInv(d)'
  OBVIOUS
<1>1. ConnectionInv(d)
  OBVIOUS
<1>2. /\ info'[d] = info[d] /\ drw'[d] = drw[d] /\ talk'[d] = talk[d]
      /\ Listed(d)' = Listed(d) /\ Waiting(d)' = Waiting(d)
  OBVIOUS
<1> QED
  BY <1>1, <1>2 DEF ConnectionInv, RequestUnderWay, AnswerUnderWay, Awaiting, Fresh

(* A step that does not touch the lists and the descriptors. *)
LEMMA KeepLists ==
  ASSUME ListsInv, DescriptorsHaveOwners,
         UNCHANGED <<cli_info, info, backlog, used, dats, dead>>
  PROVE  ListsInv' /\ DescriptorsHaveOwners'
  BY DEF ListsInv, DescriptorsHaveOwners, Listed, Waiting, In, Distinct, NewInfo

(* A step that does not touch the handlers. *)
LEMMA KeepHandlers ==
  ASSUME HandlersInv, UNCHANGED main, loop'.todo = loop.todo
  PROVE  HandlersInv'
  BY DEF HandlersInv, Registered, In, Distinct, main

(* A step that the main thread does not take: what it has found stays. *)
LEMMA KeepTurn ==
  ASSUME TurnInv, TypeOK, UNCHANGED <<loop, cli_info, info, used>>,
         backlog # <<>> => backlog' # <<>>,
         \A c \in Conns : Listed(c) /\ Readable(c) => Readable(c)'
  PROVE  TurnInv'
<1>1. \A i \in DOMAIN cli_info : cli_info[i] \in Conns /\ Listed(cli_info[i])
  BY TypeFacts DEF Listed, In
<1>2. (ToCome("cli"))' = ToCome("cli") /\ In("dat", loop.todo)' = In("dat", loop.todo)
  BY DEF ToCome, In
<1>3. \A c \in Conns : Readies(c)' = Readies(c) /\ Excused(c)' = Excused(c)
  BY DEF Readies, Excused
<1> QED
  BY <1>1, <1>2, <1>3 DEF TurnInv

(* At the start the lists are empty, and no thread has done anything. *)
LEMMA InitIInv == Init => IInv
<1> SUFFICES ASSUME Init PROVE IInv
  OBVIOUS
<1>1. TypeOK
  <2>1. <<>> \in Seq(Handlers) /\ <<>> \in Seq(Conns)
    OBVIOUS
  <2>2. info \in [Conns -> Infos]
    BY NewInfoFacts DEF Init
  <2>3. loop \in Loops
    BY <2>1 DEF Init, Loops
  <2> QED
    BY <2>1, <2>2, <2>3, GoneFacts DEF Init, TypeOK
<1>2. \A h \in Handlers : aux[h].pc = "start" /\ aux[h].next = <<>>
  BY DEF Init
<1>3. \A x : ~In(x, <<>>)
  BY DEF In
<1>4. Distinct(<<>>)
  BY DEF Distinct
<1>5. HandlersInv
  BY <1>2, <1>3, <1>4 DEF Init, HandlersInv, Registered
<1>6. ListsInv
  BY <1>3, <1>4 DEF Init, ListsInv, Listed
<1>7. TurnInv
  BY DEF Init, TurnInv, ToCome
<1>8. DescriptorsHaveOwners
  BY <1>3 DEF Init, DescriptorsHaveOwners, Listed
<1>9. ASSUME NEW c \in Conns PROVE ConnectionInv(c)
  <2>1. /\ info[c] = NewInfo(0) /\ drw[c] = Gone /\ talk[c] = NoTalk
    BY DEF Init
  <2>2. info[c].mode = "HEADER" /\ info[c].got = 0 /\ info[c].bytes = Header
    BY <2>1 DEF NewInfo
  <2>3. ~drw[c].on /\ drw[c].up = 0 /\ drw[c].down = <<>>
        /\ talk[c].ran = 1 /\ talk[c].answer = 0
    BY <2>1, GoneFacts
  <2> QED
    BY <2>1, <2>2, <2>3, Constants DEF ConnectionInv, RequestUnderWay, AnswerUnderWay, Awaiting, Fresh
<1> QED
  BY <1>1, <1>5, <1>6, <1>7, <1>8, <1>9 DEF IInv

-----------------------------------------------------------------------------
(* Start, and the dats *)

(* A thread reads the head of the list. *)
LEMMA RegisterReadStep ==
  ASSUME IInv, NEW h \in Handlers, RegisterRead(h)
  PROVE  IInv'
<1>1. /\ aux[h].pc = "start" /\ aux' = [aux EXCEPT ![h] = [pc |-> "link", next |-> selhead]]
      /\ UNCHANGED <<selhead, loop, cli_info, info, backlog, used, dats, dead, datKnocks, drw, talk>>
  BY DEF RegisterRead, dat
<1>2. TypeOK /\ HandlersInv /\ TurnInv
  BY DEF IInv
<1>3. /\ aux'[h].pc = "link" /\ aux'[h].next = selhead
      /\ \A g \in Handlers : g # h => aux'[g] = aux[g]
      /\ aux' \in [Handlers -> [pc : {"start", "link", "done"}, next : Seq(Handlers)]]
  BY <1>1, <1>2, TypeFacts
<1>4. TypeOK'
  BY <1>1, <1>2, <1>3 DEF TypeOK
<1>5. HandlersInv'
  <2>1. ~Registered(h)
    BY <1>1, <1>2 DEF HandlersInv
  <2>2. \A g \in Handlers : Registered(g)' = Registered(g)
    BY <1>1 DEF Registered
  <2>3. ASSUME NEW g \in Handlers PROVE Registered(g) => aux'[g].pc = "done"
    BY <1>2, <1>3, <2>1 DEF HandlersInv
  <2>4. ASSUME NEW g \in Handlers, NEW k \in Handlers, In(k, aux'[g].next)
        PROVE  aux'[k].pc = "done"
    <3>1. aux[k].pc = "done"
      <4>1. CASE g = h
        BY <1>2, <1>3, <2>4, <4>1 DEF HandlersInv, Registered
      <4>2. CASE g # h
        BY <1>2, <1>3, <2>4, <4>2 DEF HandlersInv
      <4> QED
        BY <4>1, <4>2
    <3> QED
      BY <1>1, <1>3, <3>1
  <2>5. \A g \in Handlers : Distinct(aux'[g].next)
    BY <1>2, <1>3 DEF HandlersInv
  <2>6. Distinct(selhead)' /\ Distinct(loop.todo)'
    BY <1>1, <1>2 DEF HandlersInv
  <2> QED
    BY <2>2, <2>3, <2>4, <2>5, <2>6 DEF HandlersInv
<1> QED
  BY <1>1, <1>4, <1>5, KeepConnections, KeepLists, KeepTurn DEF IInv, Connections, Readable

(* A thread replaces the head of the list; what it has read was registered, *)
(* and it was not.                                                          *)
LEMMA RegisterLinkStep ==
  ASSUME IInv, NEW h \in Handlers, RegisterLink(h)
  PROVE  IInv'
<1>1. /\ aux[h].pc = "link" /\ aux' = [aux EXCEPT ![h] = [pc |-> "done", next |-> <<>>]]
      /\ selhead' = <<h>> \o aux[h].next
      /\ UNCHANGED <<loop, cli_info, info, backlog, used, dats, dead, datKnocks, drw, talk>>
  BY DEF RegisterLink, dat
<1>2. TypeOK /\ HandlersInv /\ TurnInv
  BY DEF IInv
<1>3. /\ aux[h].next \in Seq(Handlers)
      /\ <<>> \in Seq(Handlers)
  BY <1>2, TypeFacts
<1>4. /\ aux'[h].pc = "done" /\ aux'[h].next = <<>>
      /\ \A g \in Handlers : g # h => aux'[g] = aux[g]
      /\ aux' \in [Handlers -> [pc : {"start", "link", "done"}, next : Seq(Handlers)]]
  BY <1>1, <1>2, <1>3, TypeFacts
<1>5. ~In(h, aux[h].next) /\ Distinct(aux[h].next)
  BY <1>1, <1>2 DEF HandlersInv
<1>6. /\ selhead' \in Seq(Handlers) /\ Distinct(selhead')
      /\ \A g : In(g, selhead') <=> g = h \/ In(g, aux[h].next)
  BY <1>1, <1>3, <1>5, ConsFacts
<1>7. TypeOK'
  BY <1>1, <1>2, <1>4, <1>6 DEF TypeOK
<1>8. HandlersInv'
  <2>1. \A g \in Handlers : aux[g].pc = "done" => aux'[g].pc = "done"
    BY <1>4
  <2>2. ASSUME NEW g \in Handlers, In(g, selhead') PROVE aux'[g].pc = "done"
    BY <1>2, <1>4, <1>6, <2>1, <2>2 DEF HandlersInv
  <2>3. \A g : ~In(g, <<>>)
    BY DEF In
  <2>4. ASSUME NEW g \in Handlers, NEW k \in Handlers, In(k, aux'[g].next)
        PROVE  aux'[k].pc = "done"
    BY <1>2, <1>4, <2>1, <2>3, <2>4 DEF HandlersInv
  <2>5. \A g \in Handlers : Distinct(aux'[g].next)
    <3>1. Distinct(<<>>)
      BY DEF Distinct
    <3> QED
      BY <1>2, <1>4, <3>1 DEF HandlersInv
  <2>6. Distinct(loop.todo)'
    BY <1>1, <1>2 DEF HandlersInv
  <2> QED
    BY <1>6, <2>2, <2>4, <2>5, <2>6 DEF HandlersInv, Registered
<1> QED
  BY <1>1, <1>7, <1>8, KeepConnections, KeepLists, KeepTurn DEF IInv, Connections, Readable

(* A dat connects, or dies. *)
LEMMA DatStep ==
  ASSUME IInv, Dat
  PROVE  IInv'
<1>1. /\ UNCHANGED <<selhead, aux, loop, cli_info, info, backlog, used, dats, drw, talk>>
      /\ datKnocks' \in {datKnocks, TRUE} /\ dead' \subseteq dead \cup dats
  BY DEF Dat, DatConnects, DatDies, main
<1>2. TypeOK /\ HandlersInv /\ TurnInv /\ ListsInv /\ DescriptorsHaveOwners
  BY DEF IInv
<1>3. TypeOK'
  BY <1>1, <1>2 DEF TypeOK
<1>4. ListsInv'
  BY <1>1, <1>2 DEF ListsInv, Listed, Waiting, In, Distinct, NewInfo
<1>5. DescriptorsHaveOwners'
  BY <1>1, <1>2 DEF DescriptorsHaveOwners, Listed, In
<1> QED
  BY <1>1, <1>2, <1>3, <1>4, <1>5, KeepConnections, KeepHandlers, KeepTurn
  DEF IInv, Connections, Readable, main

-----------------------------------------------------------------------------
(* A turn of the loop *)

(* When a handler has served, it is not called again in this turn. *)
LEMMA NextHandlerTurn ==
  ASSUME TypeOK, HandlersInv, loop.todo # <<>>, loop'.pc = NextHandler.pc,
         loop'.todo = NextHandler.todo
  PROVE  /\ Distinct(loop'.todo)
         /\ \A h : In(h, loop'.todo) => h # Head(loop.todo) /\ In(h, loop.todo)
         /\ loop'.pc # "conns"
<1>1. loop.todo \in Seq(Handlers) /\ Distinct(loop.todo)
  BY TypeFacts, LoopFields DEF HandlersInv
<1>2. /\ Distinct(Tail(loop.todo)) /\ ~In(Head(loop.todo), Tail(loop.todo))
      /\ \A x : In(x, Tail(loop.todo)) => In(x, loop.todo)
  BY <1>1, TailFacts
<1>3. CASE NextHandler.pc = "serve" /\ NextHandler.todo = Tail(loop.todo)
  BY <1>2, <1>3
<1>4. CASE NextHandler.pc = "select" /\ NextHandler.todo = <<>>
  BY <1>4 DEF In, Distinct
<1> QED
  BY <1>3, <1>4, NextHandlerFacts

(* A bit that stays set is not in the first word. *)
LEMMA KeptAreHigh ==
  ASSUME NEW fd \in Nat, Registered("cli"), Kept(fd)
  PROVE  fd >= WordBits
<1>1. PICK k \in 1 .. fd : k * WordBits <= fd
  BY DEF Kept, WordAbove
<1>2. k \in Nat /\ k >= 1 /\ WordBits \in Nat
  BY <1>1, FdsAssumption
<1>3. k * WordBits >= WordBits
  BY <1>2
<1> QED
  BY <1>1, <1>2, <1>3

(* Select finds what is there. *)
LEMMA SelectStep ==
  ASSUME IInv, Select
  PROVE  IInv'
<1> DEFINE mine == {c \in Conns : Listed(c) /\ Registered("cli")}
           found == {c \in mine : Seen(info[c].sock) /\ Readable(c)}
           kept == {c \in mine : Kept(info[c].sock)}
           theirs == {d \in dead : Registered("dat") /\ Seen(d)}
           rset == {info[c].sock : c \in found \cup kept} \cup theirs
           able == {c \in mine : Seen(info[c].sock)} \cup kept
           wset == {info[c].sock : c \in {c \in able : info[c].out # <<>>}}
           knocks == {h \in Handlers : /\ Registered(h)
                                       /\ IF h = "cli" THEN backlog # <<>> ELSE datKnocks}
<1>1. /\ loop' = [pc |-> "serve", todo |-> selhead, at |-> 1, rset |-> rset,
                  wset |-> wset, knocks |-> knocks, closed |-> {}]
      /\ UNCHANGED <<selhead, aux, cli_info, info, backlog, used, dats, dead, datKnocks, drw, talk>>
  BY DEF Select, main, dat
<1>2. TypeOK /\ HandlersInv /\ TurnInv /\ ListsInv /\ DescriptorsHaveOwners
  BY DEF IInv
<1>3. rset \subseteq used /\ wset \subseteq Fds /\ knocks \subseteq Handlers /\ used \subseteq Fds
  BY <1>2, TypeFacts DEF ListsInv, DescriptorsHaveOwners
<1>4. "cli" \in knocks => backlog # <<>>
  OBVIOUS
<1>5. \A c \in Conns : Listed(c) /\ info[c].sock \in rset =>
                        Readable(c) \/ info[c].sock >= WordBits \/ info[c].sock \in dats
  <2> SUFFICES ASSUME NEW c \in Conns, Listed(c), info[c].sock \in rset, info[c].sock \notin dats
               PROVE  Readable(c) \/ info[c].sock >= WordBits
    OBVIOUS
  <2>1. PICK d \in found \cup kept : info[c].sock = info[d].sock
    BY <1>2 DEF ListsInv
  <2>2. d = c
    BY <1>2, <2>1 DEF DescriptorsHaveOwners
  <2>3. Readable(c) \/ (Registered("cli") /\ Kept(info[c].sock))
    BY <2>1, <2>2
  <2>4. info[c].sock \in Nat
    BY <1>2, FdsAssumption DEF ListsInv
  <2> QED
    BY <2>3, <2>4, KeptAreHigh
<1> HIDE DEF mine, found, kept, theirs, rset, able, wset, knocks
<1>6. /\ loop'.pc = "serve" /\ loop'.todo = selhead /\ loop'.at = 1 /\ loop'.rset = rset
      /\ loop'.knocks = knocks /\ loop'.closed = {}
  BY <1>1
<1>7. TypeOK'
  <2>1. selhead \in Seq(Handlers) /\ {} \subseteq Fds /\ rset \subseteq Fds
    BY <1>2, <1>3, TypeFacts
  <2>2. loop' \in Loops
    BY <1>1, <1>3, <2>1 DEF Loops
  <2> QED
    BY <1>1, <1>2, <2>2 DEF TypeOK
<1>8. HandlersInv'
  BY <1>1, <1>2, <1>6 DEF HandlersInv, Registered, In, Distinct
<1>9. TurnInv'
  <2>1. ASSUME NEW i \in DOMAIN cli_info, Readies(cli_info[i])'
        PROVE  Readable(cli_info[i])' \/ Excused(cli_info[i])'
    <3>1. cli_info[i] \in Conns /\ Listed(cli_info[i])
      BY <1>2, <2>1, TypeFacts DEF Listed, In
    <3>2. info[cli_info[i]].sock \in rset
      BY <1>1, <1>6, <2>1 DEF Readies
    <3>3. Readable(cli_info[i]) \/ info[cli_info[i]].sock >= WordBits
      BY <1>2, <1>5, <3>1, <3>2 DEF DescriptorsHaveOwners
    <3> QED
      BY <1>1, <3>3 DEF Readable, Excused
  <2>2. backlog' = backlog /\ used' = used /\ cli_info' = cli_info
    BY <1>1
  <2> QED
    BY <1>3, <1>4, <1>6, <2>1, <2>2 DEF TurnInv
<1> QED
  BY <1>1, <1>2, <1>7, <1>8, <1>9, KeepConnections, KeepLists DEF IInv, Connections

(* The handler of the drw processes has no connection to accept. *)
LEMMA NoAcceptStep ==
  ASSUME IInv, NoAccept
  PROVE  IInv'
<1>1. /\ loop.pc = "serve" /\ loop.todo # <<>> /\ Head(loop.todo) = "cli"
      /\ loop' = [loop EXCEPT !.pc = "conns"]
      /\ UNCHANGED <<selhead, aux, cli_info, info, backlog, used, dats, dead, datKnocks, drw, talk>>
  BY DEF NoAccept, Serves, main, dat
<1>2. TypeOK /\ HandlersInv /\ TurnInv /\ ListsInv /\ DescriptorsHaveOwners /\ loop \in Loops
  BY TypeFacts DEF IInv
<1>3. /\ loop' \in Loops /\ loop'.pc = "conns" /\ loop'.todo = loop.todo /\ loop'.at = loop.at
      /\ loop'.rset = loop.rset /\ loop'.knocks = loop.knocks /\ loop'.closed = loop.closed
  BY <1>1, <1>2 DEF Loops
<1>4. TypeOK'
  BY <1>1, <1>2, <1>3 DEF TypeOK
<1>5. TurnInv'
  <2>1. ToCome("cli")
    BY <1>1, <1>2, LoopFields, TailFacts DEF ToCome
  <2>2. ~ToCome("cli")' /\ In("dat", loop.todo)' = In("dat", loop.todo)
    BY <1>3 DEF ToCome
  <2>3. \A i \in DOMAIN cli_info : /\ Readies(cli_info[i])' = Readies(cli_info[i])
                                   /\ Readable(cli_info[i])' = Readable(cli_info[i])
                                   /\ Excused(cli_info[i])' = Excused(cli_info[i])
    BY <1>1, <1>3 DEF Readies, Readable, Excused
  <2> QED
    BY <1>1, <1>2, <1>3, <2>1, <2>2, <2>3 DEF TurnInv
<1> QED
  BY <1>1, <1>2, <1>3, <1>4, <1>5, KeepConnections, KeepLists, KeepHandlers
  DEF IInv, Connections, main

(* The handler of the drw processes has been to every connection. *)
LEMMA CliServedStep ==
  ASSUME IInv, CliServed
  PROVE  IInv'
<1>1. /\ loop.pc = "conns" /\ loop' = NextHandler
      /\ UNCHANGED <<selhead, aux, cli_info, info, backlog, used, dats, dead, datKnocks, drw, talk>>
  BY DEF CliServed, AtEnd, main, dat
<1>2. TypeOK /\ HandlersInv /\ TurnInv /\ ListsInv /\ DescriptorsHaveOwners
  BY DEF IInv
<1>3. loop.todo # <<>> /\ Head(loop.todo) = "cli"
  BY <1>1, <1>2 DEF TurnInv
<1>4. /\ loop' \in Loops /\ Distinct(loop'.todo) /\ loop'.pc # "conns"
      /\ \A h : In(h, loop'.todo) => h # "cli" /\ In(h, loop.todo)
      /\ loop'.closed = loop.closed \/ loop'.closed = {}
  BY <1>1, <1>2, <1>3, NextHandlerFacts, NextHandlerTurn
<1>5. TypeOK'
  BY <1>1, <1>2, <1>4 DEF TypeOK
<1>6. HandlersInv'
  BY <1>1, <1>2, <1>4 DEF HandlersInv, Registered, In, Distinct
<1>7. TurnInv'
  BY <1>2, <1>4 DEF TurnInv, ToCome
<1> QED
  BY <1>1, <1>2, <1>5, <1>6, <1>7, KeepConnections, KeepLists DEF IInv, Connections

(* The process ends. *)
LEMMA AcceptFailsStep ==
  ASSUME IInv, NEW h \in Handlers, AcceptFails(h)
  PROVE  IInv'
<1>1. /\ loop' = [loop EXCEPT !.pc = "exit"]
      /\ UNCHANGED <<selhead, aux, cli_info, info, backlog, used, dats, dead, datKnocks, drw, talk>>
  BY DEF AcceptFails, main, dat
<1>2. TypeOK /\ HandlersInv /\ TurnInv /\ ListsInv /\ DescriptorsHaveOwners /\ loop \in Loops
  BY TypeFacts DEF IInv
<1>3. /\ loop' \in Loops /\ loop'.pc = "exit" /\ loop'.todo = loop.todo
      /\ loop'.closed = loop.closed
  BY <1>1, <1>2 DEF Loops
<1>4. TypeOK'
  BY <1>1, <1>2, <1>3 DEF TypeOK
<1>5. TurnInv'
  BY <1>2, <1>3 DEF TurnInv, ToCome
<1> QED
  BY <1>1, <1>2, <1>3, <1>4, <1>5, KeepConnections, KeepLists, KeepHandlers
  DEF IInv, Connections, main

(* The handler of the dats closes descriptors of dats only, and notes them. *)
LEMMA ServeDatsStep ==
  ASSUME IInv, ServeDats
  PROVE  IInv'
<1>1. PICK new \in SUBSET Fds, gone \in SUBSET dead :
        /\ new \cap used = {}
        /\ dats' = (dats \cup new) \ gone /\ used' = (used \cup new) \ gone
        /\ dead' = dead \ gone
        /\ datKnocks' = (datKnocks /\ new = {})
        /\ loop' = [NextHandler EXCEPT !.closed = IF NextHandler.pc = "serve" THEN gone ELSE {}]
  <2>1. ASSUME NEW new, IF "dat" \in loop.knocks THEN \E fd \in Fds : Lowest(fd) /\ new = {fd}
                                                 ELSE new = {}
        PROVE  new \cap used = {}
    BY <2>1 DEF Lowest
  <2> QED
    BY <2>1 DEF ServeDats, Closed
<1>2. /\ loop.pc = "serve" /\ loop.todo # <<>> /\ Head(loop.todo) = "dat"
      /\ UNCHANGED <<selhead, aux, cli_info, info, backlog, drw, talk>>
  BY DEF ServeDats, Serves, main
<1>3. TypeOK /\ HandlersInv /\ TurnInv /\ ListsInv /\ DescriptorsHaveOwners /\ loop \in Loops
  BY TypeFacts DEF IInv
<1>4. gone \in SUBSET Fds /\ {} \in SUBSET Fds /\ gone \subseteq dats
      /\ used \subseteq Fds /\ dats \subseteq Fds /\ dead \subseteq Fds
  BY <1>3, TypeFacts DEF ListsInv
<1>5. In("dat", loop.todo)
  BY <1>2, <1>3, LoopFields, TailFacts
<1>6. /\ loop' \in Loops /\ loop'.pc = NextHandler.pc /\ loop'.todo = NextHandler.todo
      /\ loop'.at = 1 /\ loop'.rset = NextHandler.rset /\ loop'.knocks = NextHandler.knocks
      /\ loop'.closed = IF NextHandler.pc = "serve" THEN gone ELSE {}
  BY <1>1, <1>2, <1>3, <1>4, NextHandlerFacts
<1>7. /\ Distinct(loop'.todo) /\ loop'.pc # "conns"
      /\ \A h : In(h, loop'.todo) => h # "dat" /\ In(h, loop.todo)
  BY <1>2, <1>3, <1>6, NextHandlerTurn
<1>8. TypeOK'
  BY <1>1, <1>2, <1>3, <1>4, <1>6 DEF TypeOK
<1>9. HandlersInv'
  BY <1>2, <1>3, <1>7 DEF HandlersInv, Registered, In, Distinct
<1>10. ListsInv'
  BY <1>1, <1>2, <1>3 DEF ListsInv, Listed, Waiting, In, Distinct, NewInfo
<1>11. DescriptorsHaveOwners'
  <2>1. \A c \in Conns : Listed(c)' = Listed(c) /\ info'[c] = info[c]
    BY <1>2 DEF Listed, In
  <2>2. \A c \in Conns : Listed(c) => info[c].sock \in used /\ info[c].sock \notin new
    BY <1>1, <1>3 DEF DescriptorsHaveOwners
  <2> QED
    BY <1>1, <1>3, <1>4, <2>1, <2>2 DEF DescriptorsHaveOwners
<1>12. TurnInv'
  <2>1. ASSUME ToCome("cli")' PROVE ToCome("cli") /\ loop'.rset = loop.rset
                                    /\ loop'.knocks = loop.knocks /\ loop'.closed = gone
    <3>1. NextHandler.pc = "serve" /\ In("cli", loop.todo)
      BY <1>6, <1>7, <2>1 DEF ToCome
    <3>2. NextHandler.rset = loop.rset /\ NextHandler.knocks = loop.knocks
      BY <1>2, <1>3, <3>1, NextHandlerFacts
    <3> QED
      BY <1>2, <1>6, <3>1, <3>2 DEF ToCome
  <2>2. loop.closed = {}
    BY <1>3, <1>5 DEF TurnInv
  <2>3. ASSUME ToCome("cli")', NEW i \in DOMAIN cli_info, Readies(cli_info[i])'
        PROVE  Readable(cli_info[i])' \/ Excused(cli_info[i])'
    <3>1. Readies(cli_info[i]) /\ i >= loop.at
      BY <1>2, <1>3, <2>1, <2>3, TypeFacts DEF Readies, TurnInv
    <3>2. Readable(cli_info[i]) \/ info[cli_info[i]].sock >= WordBits
      BY <1>3, <2>1, <2>2, <2>3, <3>1 DEF TurnInv, Excused
    <3> QED
      BY <1>2, <3>2 DEF Readable, Excused
  <2>4. ToCome("cli")' => /\ "cli" \in loop'.knocks => backlog' # <<>>
                          /\ loop'.rset \subseteq used' \cup loop'.closed
    BY <1>1, <1>2, <1>3, <2>1, <2>2 DEF TurnInv
  <2>5. cli_info' = cli_info
    BY <1>2
  <2> QED
    BY <1>6, <1>7, <2>3, <2>4, <2>5 DEF TurnInv
<1> QED
  BY <1>2, <1>8, <1>9, <1>10, <1>11, <1>12, <1>3, KeepConnections DEF IInv, Connections

(* The first connection of the backlog gets a descriptor that is free; if   *)
(* its bit is set, the descriptor was closed in this turn.                  *)
LEMMA AcceptStep ==
  ASSUME IInv, Accept
  PROVE  IInv'
<1>0. PICK c : c = Head(backlog)
  OBVIOUS
<1>1. PICK fd \in Fds : /\ fd \notin used /\ info' = [info EXCEPT ![c] = NewInfo(fd)]
                        /\ used' = used \cup {fd}
  BY <1>0 DEF Accept, Lowest
<1>2. /\ loop.pc = "serve" /\ loop.todo # <<>> /\ Head(loop.todo) = "cli"
      /\ "cli" \in loop.knocks
      /\ cli_info' = <<c>> \o cli_info /\ backlog' = Tail(backlog)
      /\ loop' = [loop EXCEPT !.pc = "conns"]
      /\ UNCHANGED <<selhead, aux, dats, dead, datKnocks, drw, talk>>
  BY <1>0 DEF Accept, Serves, main, dat
<1>3. TypeOK /\ HandlersInv /\ TurnInv /\ ListsInv /\ DescriptorsHaveOwners /\ loop \in Loops
  BY TypeFacts DEF IInv
<1>4. /\ loop' \in Loops /\ loop'.pc = "conns" /\ loop'.todo = loop.todo /\ loop'.at = loop.at
      /\ loop'.rset = loop.rset /\ loop'.closed = loop.closed
  BY <1>2, <1>3 DEF Loops
<1>5. ToCome("cli")
  BY <1>2, <1>3, LoopFields, TailFacts DEF ToCome
<1>6. /\ c \in Conns /\ Waiting(c) /\ Tail(backlog) \in Seq(Conns)
      /\ \A d : In(d, Tail(backlog)) => In(d, backlog)
      /\ \A d : In(d, backlog) => d = c \/ In(d, Tail(backlog))
      /\ Distinct(Tail(backlog)) /\ ~In(c, Tail(backlog))
  BY <1>0, <1>2, <1>3, <1>5, TypeFacts, TailFacts DEF TurnInv, Waiting, ListsInv
<1>7. ~Listed(c) /\ info[c] = NewInfo(0)
  BY <1>3, <1>6 DEF ListsInv
<1>8. /\ cli_info' \in Seq(Conns) /\ Distinct(cli_info') /\ cli_info'[1] = c
      /\ DOMAIN cli_info' = 1..(Len(cli_info) + 1)
      /\ \A j \in DOMAIN cli_info : j + 1 \in DOMAIN cli_info' /\ cli_info'[j + 1] = cli_info[j]
      /\ \A d : In(d, cli_info') <=> d = c \/ In(d, cli_info)
  BY <1>2, <1>3, <1>6, <1>7, TypeFacts, ConsFacts DEF ListsInv, Listed
<1>9. /\ info'[c] = NewInfo(fd) /\ NewInfo(fd) \in Infos /\ info' \in [Conns -> Infos]
      /\ \A d \in Conns : d # c => info'[d] = info[d]
      /\ NewInfo(fd).sock = fd /\ NewInfo(fd).mode = "HEADER"
  BY <1>1, <1>3, <1>6, TypeFacts, NewInfoFacts
<1>10. /\ Listed(c)' /\ ~Waiting(c)'
       /\ \A d \in Conns : d # c => Listed(d)' = Listed(d) /\ Waiting(d)' = Waiting(d)
  <2>1. \A d : Listed(d)' <=> In(d, cli_info')
    BY DEF Listed
  <2>2. \A d : Waiting(d)' <=> In(d, Tail(backlog))
    BY <1>2 DEF Waiting
  <2>3. \A d : (Listed(d) <=> In(d, cli_info)) /\ (Waiting(d) <=> In(d, backlog))
    BY DEF Listed, Waiting
  <2>4. Listed(c)' /\ ~Waiting(c)'
    BY <1>6, <1>8, <2>1, <2>2
  <2>5. ASSUME NEW d \in Conns, d # c
        PROVE  (Listed(d)' <=> Listed(d)) /\ (Waiting(d)' <=> Waiting(d))
    BY <1>6, <1>8, <2>1, <2>2, <2>3, <2>5
  <2>6. \A d : /\ Listed(d)' \in BOOLEAN /\ Listed(d) \in BOOLEAN
               /\ Waiting(d)' \in BOOLEAN /\ Waiting(d) \in BOOLEAN
    BY DEF Listed, Waiting, In
  <2> QED
    BY <2>4, <2>5, <2>6
<1>11. TypeOK'
  BY <1>1, <1>2, <1>3, <1>4, <1>6, <1>8, <1>9 DEF TypeOK
<1>12. ListsInv'
  <2>1. ASSUME NEW d \in Conns
        PROVE  IF Listed(d)' THEN info'[d].sock \in Fds /\ ~Waiting(d)'
                             ELSE info'[d] = NewInfo(0)
    <3>1. CASE d = c
      BY <1>9, <1>10, <3>1
    <3>2. CASE d # c
      BY <1>3, <1>9, <1>10, <3>2 DEF ListsInv
    <3> QED
      BY <3>1, <3>2
  <2>2. NewInfo(0)' = NewInfo(0)
    BY DEF NewInfo
  <2> QED
    BY <1>2, <1>3, <1>6, <1>8, <2>1, <2>2 DEF ListsInv
<1>13. DescriptorsHaveOwners'
  <2>1. \A d \in Conns : Listed(d) => info[d].sock # fd /\ info[d].sock \notin dats
    BY <1>1, <1>3 DEF DescriptorsHaveOwners
  <2>2. used' = dats \cup {info[d].sock : d \in {d \in Conns : Listed(d)}} \cup {fd}
    BY <1>1, <1>3 DEF DescriptorsHaveOwners
  <2>3. {info'[d].sock : d \in {d \in Conns : Listed(d)'}}
          = {info[d].sock : d \in {d \in Conns : Listed(d)}} \cup {fd}
    BY <1>6, <1>7, <1>9, <1>10
  <2>4. ASSUME NEW d \in Conns, Listed(d)'
        PROVE  /\ info'[d].sock \notin dats
               /\ \A e \in Conns \ {d} : Listed(e)' => info'[e].sock # info'[d].sock
    <3>1. CASE d = c
      BY <1>1, <1>3, <1>9, <1>10, <2>1, <3>1 DEF DescriptorsHaveOwners
    <3>2. CASE d # c
      BY <1>3, <1>9, <1>10, <2>1, <2>4, <3>2 DEF DescriptorsHaveOwners
    <3> QED
      BY <3>1, <3>2
  <2>5. dats' = dats
    BY <1>2
  <2> QED
    BY <2>2, <2>3, <2>4, <2>5 DEF DescriptorsHaveOwners
<1>14. TurnInv'
  <2>1. ~ToCome("cli")' /\ In("dat", loop.todo)' = In("dat", loop.todo)
    BY <1>4 DEF ToCome
  <2>2. ASSUME NEW i \in DOMAIN cli_info', Readies(cli_info[i])'
        PROVE  Readable(cli_info[i])' \/ Excused(cli_info[i])'
    <3>0. info'[cli_info'[i]].sock \in loop.rset /\ info'[cli_info'[i]].mode # "KILL"
      BY <1>4, <2>2 DEF Readies
    <3>1. CASE i = 1
      <4>1. cli_info'[i] = c /\ info'[cli_info'[i]].sock = fd
        BY <1>8, <1>9, <3>1
      <4>2. fd \in loop.rset
        BY <3>0, <4>1
      <4> QED
        BY <1>1, <1>3, <1>4, <1>5, <4>1, <4>2 DEF TurnInv, Excused
    <3>2. CASE i # 1
      <4>1. PICK j \in DOMAIN cli_info : j = i - 1 /\ cli_info'[i] = cli_info[j]
        BY <1>3, <1>8, <2>2, <3>2, TypeFacts
      <4>2. cli_info[j] \in Conns /\ cli_info[j] # c /\ j >= 1
        BY <1>3, <1>7, <4>1, TypeFacts DEF Listed, In
      <4>3. info'[cli_info[j]] = info[cli_info[j]] /\ drw' = drw
        BY <1>2, <1>9, <4>2
      <4>4. Readies(cli_info[j]) /\ loop.at = 1
        BY <1>3, <1>5, <3>0, <4>1, <4>3 DEF Readies, TurnInv
      <4>5. Readable(cli_info[j]) \/ Excused(cli_info[j])
        BY <1>3, <1>5, <4>2, <4>4 DEF TurnInv
      <4> QED
        BY <1>4, <4>1, <4>3, <4>5 DEF Readable, Excused
    <3> QED
      BY <3>1, <3>2
  <2> QED
    BY <1>2, <1>3, <1>4, <2>1, <2>2 DEF TurnInv
<1>15. ConnectionInv(c)'
  <2>1. ConnectionInv(c) /\ drw' = drw /\ talk' = talk
    BY <1>2, <1>6 DEF IInv
  <2>2. /\ info[c].mode = "HEADER" /\ info'[c].mode = "HEADER" /\ info'[c].got = info[c].got
        /\ info'[c].bytes = info[c].bytes /\ info'[c].out = info[c].out
    BY <1>7, <1>9 DEF NewInfo
  <2> QED
    BY <1>10, <2>1, <2>2 DEF ConnectionInv, RequestUnderWay, AnswerUnderWay, Awaiting, Fresh
<1>16. \A d \in Conns : ConnectionInv(d)'
  <2>1. \A d \in Conns : d # c => /\ info'[d] = info[d] /\ drw'[d] = drw[d] /\ talk'[d] = talk[d]
                                  /\ Listed(d)' = Listed(d) /\ Waiting(d)' = Waiting(d)
    BY <1>2, <1>9, <1>10
  <2> QED
    BY <1>6, <1>15, <2>1, OtherConnections DEF IInv
<1> QED
  BY <1>2, <1>3, <1>4, <1>11, <1>12, <1>13, <1>14, <1>16, KeepHandlers DEF IInv, main

-----------------------------------------------------------------------------
(* Reads and writes on one connection *)

Talks == [no : 0 .. 1, ran : 0 .. 2, answer : 0 .. 2]

(* What holds at every place of the lists and of the history. *)
LEMMA InvFacts ==
  ASSUME IInv
  PROVE  /\ TypeOK /\ HandlersInv /\ TurnInv /\ ListsInv /\ DescriptorsHaveOwners
         /\ loop \in Loops
         /\ \A c \in Conns : /\ ConnectionInv(c) /\ info[c] \in Infos /\ drw[c] \in Drws
                             /\ talk[c] \in Talks
  BY TypeFacts DEF IInv, Talks

(* A step of the loop on connection c, at place i of the list: what is      *)
(* there of c changes, and the loop goes on to the next place.              *)
LEMMA ServedStep ==
  ASSUME IInv, NEW c \in Conns, NEW i, loop.pc = "conns", i >= loop.at, ListedAt(c, i), Onward(i),
         UNCHANGED <<main, cli_info, backlog, used, dat>>,
         NEW it \in Infos, NEW d \in Drws, NEW t \in Talks,
         info' = [info EXCEPT ![c] = it], drw' = [drw EXCEPT ![c] = d],
         talk' = [talk EXCEPT ![c] = t], it.sock = info[c].sock,
         ConnectionInv(c)'
  PROVE  IInv'
<1>1. /\ UNCHANGED <<selhead, aux, cli_info, backlog, used, dats, dead, datKnocks>>
      /\ i \in DOMAIN cli_info /\ cli_info[i] = c /\ loop' = [loop EXCEPT !.at = i + 1]
  BY DEF main, dat, ListedAt, Onward
<1>2. /\ TypeOK /\ HandlersInv /\ TurnInv /\ ListsInv /\ DescriptorsHaveOwners
      /\ loop \in Loops /\ i \in Nat
  BY <1>1, InvFacts, TypeFacts
<1>3. /\ info'[c] = it /\ drw'[c] = d /\ talk'[c] = t
      /\ \A e \in Conns : e # c => info'[e] = info[e] /\ drw'[e] = drw[e] /\ talk'[e] = talk[e]
      /\ info' \in [Conns -> Infos] /\ drw' \in [Conns -> Drws] /\ talk' \in [Conns -> Talks]
  BY <1>2, TypeFacts DEF Talks
<1>4. /\ loop' \in Loops /\ loop'.pc = "conns" /\ loop'.todo = loop.todo /\ loop'.at = i + 1
      /\ loop'.rset = loop.rset /\ loop'.closed = loop.closed
  <2>1. loop' = [loop EXCEPT !.at = i + 1] /\ i + 1 \in Nat /\ loop \in Loops
    BY <1>1, <1>2
  <2> QED
    BY <2>1 DEF Loops
<1>5. TypeOK'
  BY <1>1, <1>2, <1>3, <1>4 DEF TypeOK, Talks
<1>6. /\ Listed(c)
      /\ \A e : Listed(e)' = Listed(e) /\ Waiting(e)' = Waiting(e)
      /\ \A e \in Conns : info'[e].sock = info[e].sock
  BY <1>1, <1>3 DEF Listed, Waiting, In
<1>7. ListsInv'
  <2>1. ASSUME NEW e \in Conns
        PROVE  IF Listed(e)' THEN info'[e].sock \in Fds /\ ~Waiting(e)'
                             ELSE info'[e] = NewInfo(0)
    BY <1>2, <1>3, <1>6 DEF ListsInv
  <2>2. NewInfo(0)' = NewInfo(0)
    BY DEF NewInfo
  <2> QED
    BY <1>1, <1>2, <2>1, <2>2 DEF ListsInv, Distinct
<1>8. DescriptorsHaveOwners'
  <2>1. {info'[e].sock : e \in {e \in Conns : Listed(e)'}}
          = {info[e].sock : e \in {e \in Conns : Listed(e)}}
    BY <1>6
  <2> QED
    BY <1>1, <1>2, <1>6, <2>1 DEF DescriptorsHaveOwners
<1>9. TurnInv'
  <2>1. ASSUME NEW j \in DOMAIN cli_info, j >= i + 1, Readies(cli_info[j])'
        PROVE  Readable(cli_info[j])' \/ Excused(cli_info[j])'
    <3>1. cli_info[j] \in Conns /\ cli_info[j] # c
      <4>1. j # i
        BY <1>2, <2>1, TypeFacts
      <4> QED
        BY <1>1, <1>2, <2>1, <4>1, TypeFacts DEF ListsInv, Distinct
    <3>2. info'[cli_info[j]] = info[cli_info[j]] /\ drw'[cli_info[j]] = drw[cli_info[j]]
      BY <1>3, <3>1
    <3>3. Readies(cli_info[j])
      BY <1>1, <1>4, <2>1, <3>2 DEF Readies
    <3>4. j >= loop.at
      BY <1>2, <2>1, TypeFacts, LoopFields
    <3> QED
      BY <1>1, <1>2, <1>4, <2>1, <3>2, <3>3, <3>4 DEF TurnInv, Readable, Excused
  <2>2. ~ToCome("cli")' /\ In("dat", loop.todo)' = In("dat", loop.todo)
    BY <1>4 DEF ToCome
  <2> QED
    BY <1>1, <1>2, <1>4, <2>1, <2>2 DEF TurnInv
<1>10. \A e \in Conns : ConnectionInv(e)'
  BY <1>3, <1>6, OtherConnections DEF IInv
<1> QED
  BY <1>1, <1>2, <1>4, <1>5, <1>7, <1>8, <1>9, <1>10, KeepHandlers DEF IInv, main

(* What a connection that is marked for closing holds. *)
LEMMA KilledFacts ==
  ASSUME IInv, NEW c \in Conns
  PROVE  \E k \in Infos :
           /\ Killed(c) = [info EXCEPT ![c] = k]
           /\ k.sock = info[c].sock /\ k.mode = "KILL" /\ k.out = <<>> /\ Fresh(k)
<1>1. info[c] \in Infos /\ info \in [Conns -> Infos]
  BY InvFacts, TypeFacts
<1>2. info[c].sock \in Fds \cup {0}
  BY <1>1, InfoFields
<1> DEFINE k == [NewInfo(info[c].sock) EXCEPT !.mode = "KILL"]
<1>3. k \in Infos /\ k.sock = info[c].sock /\ k.mode = "KILL" /\ k.out = <<>> /\ Fresh(k)
  BY <1>2, NewInfoFacts
<1>4. Killed(c) = [info EXCEPT ![c] = k]
  BY <1>1 DEF Killed
<1> QED
  BY <1>3, <1>4

(* Marking for closing a connection whose drw has left, or whose request is *)
(* refused.                                                                 *)
LEMMA KillStep ==
  ASSUME IInv, NEW c \in Conns, NEW i, loop.pc = "conns", i >= loop.at, ListedAt(c, i), Onward(i),
         UNCHANGED <<main, cli_info, backlog, used, dat, talk>>,
         ~drw[c].on \/ (Awaiting(c) /\ talk[c].ran = 0),
         info' = Killed(c), NEW n \in Nat, n <= drw[c].up,
         drw' = [drw EXCEPT ![c].up = @ - n]
  PROVE  IInv'
<1>1. PICK k \in Infos : /\ info' = [info EXCEPT ![c] = k]
                         /\ k.sock = info[c].sock /\ k.mode = "KILL" /\ k.out = <<>> /\ Fresh(k)
  BY KilledFacts
<1>2. /\ info[c] \in Infos /\ info \in [Conns -> Infos] /\ drw[c] \in Drws
      /\ drw \in [Conns -> Drws] /\ talk[c] \in Talks /\ talk \in [Conns -> Talks]
      /\ ConnectionInv(c)
  BY InvFacts, TypeFacts DEF Talks
<1>3. PICK d \in Drws : /\ d = [drw[c] EXCEPT !.up = @ - n]
                        /\ d.on = drw[c].on /\ d.down = drw[c].down /\ d.up \in Nat
                        /\ d.request = drw[c].request
  <2> DEFINE d == [drw[c] EXCEPT !.up = @ - n]
  <2>1. drw[c].up \in Nat /\ drw[c].up - n \in Nat
    BY <1>2, DrwFields
  <2>2. /\ d \in Drws /\ d.on = drw[c].on /\ d.down = drw[c].down /\ d.up \in Nat
        /\ d.request = drw[c].request
    BY <1>2, <2>1 DEF Drws
  <2> QED
    BY <2>2
<1>4. drw' = [drw EXCEPT ![c] = d] /\ talk' = [talk EXCEPT ![c] = talk[c]]
  BY <1>2, <1>3
<1>5. info'[c] = k /\ drw'[c] = d /\ talk'[c] = talk[c]
  BY <1>1, <1>2, <1>4
<1>6. Listed(c)' /\ Listed(c)
  BY DEF ListedAt, Listed, In
<1>7. ConnectionInv(c)'
  BY <1>1, <1>2, <1>3, <1>5, <1>6
  DEF ConnectionInv, RequestUnderWay, AnswerUnderWay, Awaiting, Fresh
<1>8. UNCHANGED <<main, cli_info, backlog, used, dat>>
  OBVIOUS
<1>9. /\ talk[c] \in Talks /\ info' = [info EXCEPT ![c] = k] /\ k.sock = info[c].sock
      /\ drw' = [drw EXCEPT ![c] = d] /\ talk' = [talk EXCEPT ![c] = talk[c]]
  BY <1>1, <1>2, <1>4
<1> QED
  BY <1>7, <1>8, <1>9, ServedStep

(* End of file, or an error, on a connection that drw has left. *)
LEMMA FailStep ==
  ASSUME IInv, NEW c \in Conns, NEW i \in DOMAIN cli_info, ReadFails(c, i) \/ WriteFails(c, i)
  PROVE  IInv'
<1>1. /\ loop.pc = "conns" /\ i >= loop.at /\ ListedAt(c, i) /\ Onward(i) /\ ~drw[c].on
      /\ info' = Killed(c) /\ UNCHANGED <<main, cli_info, backlog, used, dat, drw, talk>>
  BY DEF ReadFails, WriteFails, Reads, Writes, Comes
<1>2. drw' = [drw EXCEPT ![c].up = @ - 0] /\ 0 \in Nat /\ 0 <= drw[c].up
  <2>1. drw \in [Conns -> Drws] /\ drw[c] \in Drws /\ drw[c].up \in Nat
    BY InvFacts, TypeFacts, DrwFields
  <2>2. [drw[c] EXCEPT !.up = @ - 0] = drw[c]
    BY <2>1 DEF Drws
  <2> QED
    BY <1>1, <2>1, <2>2
<1> QED
  BY <1>1, <1>2, KillStep

(* What is on a connection that is read from. *)
LEMMA ReadFacts ==
  ASSUME IInv, NEW c \in Conns, NEW i \in DOMAIN cli_info, NEW n \in Words, ReadWords(c, i, n)
  PROVE  /\ loop.pc = "conns" /\ i >= loop.at /\ ListedAt(c, i) /\ Onward(i) /\ Listed(c)
         /\ UNCHANGED <<main, cli_info, backlog, used, dat>>
         /\ n \in Nat /\ n >= 1 /\ n <= info[c].bytes /\ n <= drw[c].up
         /\ drw' = [drw EXCEPT ![c].up = @ - n]
         /\ Awaiting(c) /\ talk[c].ran = 0 /\ info[c].out = <<>> /\ drw[c].down = <<>>
         /\ info[c].got + drw[c].up = Header + drw[c].request.size
         /\ info[c].mode \in {"HEADER", "DATA"}
         /\ info[c].mode = "HEADER" => info[c].got + info[c].bytes = Header
         /\ info[c].mode = "DATA" => info[c].got + info[c].bytes = Header + drw[c].request.size
<1>1. /\ loop.pc = "conns" /\ i >= loop.at /\ ListedAt(c, i) /\ Onward(i)
      /\ info[c].mode # "KILL" /\ n <= info[c].bytes /\ n <= drw[c].up
      /\ drw' = [drw EXCEPT ![c].up = @ - n]
      /\ UNCHANGED <<main, cli_info, backlog, used, dat>>
  BY DEF ReadWords, Reads, Comes, Readies
<1>2. n \in Nat /\ n >= 1
  BY DEF Words
<1>3. /\ info[c] \in Infos /\ drw[c] \in Drws /\ ConnectionInv(c)
  BY InvFacts
<1>4. /\ info[c].mode \in {"KILL", "HEADER", "DATA"} /\ drw[c].up \in Nat
      /\ drw[c].up # 0
  BY <1>1, <1>2, <1>3, InfoFields, DrwFields
<1>5. Listed(c)
  BY <1>1 DEF ListedAt, Listed, In
<1> QED
  BY <1>1, <1>2, <1>3, <1>4, <1>5 DEF ConnectionInv, RequestUnderWay, AnswerUnderWay

(* When a packet is complete, all of the request has been read. *)
LEMMA CompleteFacts ==
  ASSUME IInv, NEW c \in Conns, NEW i \in DOMAIN cli_info, NEW n \in Words, ReadWords(c, i, n),
         n = info[c].bytes,
         info[c].mode = "DATA" \/ SizeRead(c, info[c].got + n) = 0
  PROVE  info[c].got + n = Header + drw[c].request.size /\ drw[c].up - n = 0
<1>1. info[c].got \in Nat /\ drw[c].up \in Nat /\ drw[c].request.size \in Nat /\ Header = 2
  BY InvFacts, InfoFields, DrwFields, Constants
<1>2. info[c].mode = "HEADER" => info[c].got + n = Header /\ SizeRead(c, info[c].got + n) = drw[c].request.size
  BY ReadFacts DEF SizeRead
<1> QED
  BY SMTT(30), <1>1, <1>2, ReadFacts

(* A read takes a part of the request, or makes it complete, and then its   *)
(* answer is the only one in the queue.                                     *)
LEMMA ReadWordsStep ==
  ASSUME IInv, NEW c \in Conns, NEW i \in DOMAIN cli_info, NEW n \in Words, ReadWords(c, i, n)
  PROVE  IInv'
<1> DEFINE it0 == info[c]
           d0 == drw[c]
           t0 == talk[c]
           got == it0.got + n
           size == SizeRead(c, got)
<1>1. /\ info \in [Conns -> Infos] /\ drw \in [Conns -> Drws] /\ talk \in [Conns -> Talks]
      /\ it0 \in Infos /\ d0 \in Drws /\ t0 \in Talks /\ ConnectionInv(c)
  BY InvFacts, TypeFacts DEF Talks
<1>2. /\ it0.sock \in Fds \cup {0} /\ it0.got \in Nat /\ it0.bytes \in Nat \ {0}
      /\ it0.out \in Seq([no : 0 .. 1, bytes : Nat \ {0}])
      /\ d0.on \in BOOLEAN /\ d0.up \in Nat /\ d0.request.size \in Nat
      /\ d0.down \in Seq(0 .. 1) /\ d0.request \in [size : Nat, known : BOOLEAN]
      /\ t0.no \in 0 .. 1 /\ t0.ran \in 0 .. 2 /\ t0.answer \in 0 .. 2
  BY <1>1, InfoFields, DrwFields DEF Talks
<1>3. /\ loop.pc = "conns" /\ i >= loop.at /\ ListedAt(c, i) /\ Onward(i) /\ Listed(c)
      /\ UNCHANGED <<main, cli_info, backlog, used, dat>>
      /\ n \in Nat /\ n >= 1 /\ n <= it0.bytes /\ n <= d0.up
      /\ drw' = [drw EXCEPT ![c].up = @ - n]
      /\ Awaiting(c) /\ t0.ran = 0 /\ it0.out = <<>> /\ d0.down = <<>>
      /\ it0.got + d0.up = Header + d0.request.size
      /\ it0.mode \in {"HEADER", "DATA"}
      /\ it0.mode = "HEADER" => it0.got + it0.bytes = Header
      /\ it0.mode = "DATA" => it0.got + it0.bytes = Header + d0.request.size
  BY ReadFacts
<1>4. PICK d \in Drws : /\ d = [d0 EXCEPT !.up = @ - n]
                        /\ d.on = d0.on /\ d.down = <<>> /\ d.up = d0.up - n
                        /\ d.request = d0.request
  <2> DEFINE d == [d0 EXCEPT !.up = @ - n]
  <2>1. d0.up - n \in Nat
    BY <1>2, <1>3
  <2>2. /\ d \in Drws /\ d.on = d0.on /\ d.down = <<>> /\ d.up = d0.up - n
        /\ d.request = d0.request
    BY <1>1, <1>3, <2>1 DEF Drws
  <2> QED
    BY <2>2
<1>5. drw' = [drw EXCEPT ![c] = d] /\ drw'[c] = d
  BY <1>1, <1>3, <1>4
<1>6. Listed(c)' /\ got \in Nat /\ n <= drw[c].up
  BY <1>2, <1>3 DEF ListedAt, Listed, In
<1>7. Header = 2
  BY Constants
<1>8. CASE /\ n < it0.bytes
           /\ info' = [info EXCEPT ![c].got = got, ![c].bytes = @ - n]
           /\ UNCHANGED talk
  <2>1. it0.bytes - n \in Nat \ {0}
    BY <1>2, <1>3, <1>8
  <2> DEFINE it == [it0 EXCEPT !.got = got, !.bytes = @ - n]
  <2>2. /\ it \in Infos /\ it.sock = it0.sock /\ it.mode = it0.mode /\ it.out = <<>>
        /\ it.got = got /\ it.bytes = it0.bytes - n
    BY <1>1, <1>3, <1>6, <2>1 DEF Infos
  <2>3. info' = [info EXCEPT ![c] = it] /\ info'[c] = it
    BY <1>1, <1>8
  <2>4. talk' = [talk EXCEPT ![c] = t0] /\ talk'[c] = t0
    BY <1>1, <1>8
  <2> HIDE DEF it
  <2>5. RequestUnderWay(c)'
    <3>1. /\ it.mode = "HEADER" => it.got + it.bytes = Header
          /\ it.mode = "DATA" => it.got + it.bytes = Header + d.request.size
          /\ it.got + d.up = Header + d.request.size
      <4>1. it.got + it.bytes = it0.got + it0.bytes /\ it.got + d.up = it0.got + d0.up
        BY <1>2, <1>3, <1>4, <2>2
      <4> QED
        BY <1>3, <1>4, <2>2, <4>1
    <3>2. it.mode # "KILL" /\ Awaiting(c)' /\ t0.ran = 0
      BY <1>3, <2>2, <2>4 DEF Awaiting
    <3> QED
      BY <1>5, <2>3, <2>4, <3>1, <3>2 DEF RequestUnderWay
  <2>6. AnswerUnderWay(c)'
    BY <1>2, <1>3, <1>4, <1>5, <2>2, <2>3, <2>4 DEF AnswerUnderWay, Awaiting
  <2>7. ConnectionInv(c)'
    BY <1>3, <1>4, <1>5, <1>6, <2>4, <2>5, <2>6 DEF ConnectionInv, Awaiting
  <2> QED
    BY <1>1, <1>3, <1>4, <1>5, <2>2, <2>3, <2>4, <2>7, ServedStep
<1>9. CASE info' = Killed(c) /\ UNCHANGED talk
  <2>1. UNCHANGED <<main, cli_info, backlog, used, dat, talk>>
    BY <1>3, <1>9
  <2> QED
    BY <1>3, <1>6, <1>9, <2>1, KillStep
<1>10. CASE /\ n = it0.bytes /\ it0.mode = "HEADER" /\ size \in 1 .. MaxPacketSize
            /\ info' = [info EXCEPT ![c].got = got, ![c].bytes = size, ![c].mode = "DATA"]
            /\ UNCHANGED talk
  <2>1. got = Header /\ size = d0.request.size /\ size \in Nat \ {0}
    BY <1>2, <1>3, <1>10, Constants DEF SizeRead
  <2> HIDE DEF size
  <2> DEFINE it == [it0 EXCEPT !.got = got, !.bytes = size, !.mode = "DATA"]
  <2>2. /\ it \in Infos /\ it.sock = it0.sock /\ it.mode = "DATA" /\ it.out = <<>>
        /\ it.got = got /\ it.bytes = size
    BY <1>1, <1>3, <1>6, <2>1 DEF Infos
  <2>3. info' = [info EXCEPT ![c] = it] /\ info'[c] = it
    BY <1>1, <1>10
  <2>4. talk' = [talk EXCEPT ![c] = t0] /\ talk'[c] = t0
    BY <1>1, <1>10
  <2> HIDE DEF it
  <2>5. RequestUnderWay(c)'
    <3>1. /\ it.got + it.bytes = Header + d.request.size
          /\ it.got + d.up = Header + d.request.size
      BY SMTT(30), <1>2, <1>3, <1>4, <1>7, <2>1, <2>2
    <3>2. it.mode = "DATA" /\ Awaiting(c)' /\ t0.ran = 0
      BY <1>3, <2>2, <2>4 DEF Awaiting
    <3> QED
      BY <1>5, <2>3, <2>4, <3>1, <3>2 DEF RequestUnderWay
  <2>6. AnswerUnderWay(c)'
    BY <1>2, <1>3, <1>4, <1>5, <2>2, <2>3, <2>4 DEF AnswerUnderWay, Awaiting
  <2>7. ConnectionInv(c)'
    BY <1>3, <1>4, <1>5, <1>6, <2>4, <2>5, <2>6 DEF ConnectionInv, Awaiting
  <2> QED
    BY <1>1, <1>3, <1>4, <1>5, <2>2, <2>3, <2>4, <2>7, ServedStep
<1>11. CASE n = it0.bytes /\ (it0.mode = "DATA" \/ size = 0) /\ Analyze(c, got) /\ d0.request.known
  <2>1. got = Header + d0.request.size /\ d0.up - n = 0
    BY <1>11, CompleteFacts
  <2> DEFINE answer == [no |-> t0.no, bytes |-> ReplySize]
             next == [it0 EXCEPT !.mode = "HEADER", !.got = 0, !.bytes = Header]
             it == [next EXCEPT !.out = Append(@, answer)]
             t == [t0 EXCEPT !.ran = 1]
  <2>2. <<answer>> \in Seq([no : 0 .. 1, bytes : Nat \ {0}]) /\ Append(it0.out, answer) = <<answer>>
        /\ Len(<<answer>>) = 1 /\ <<answer>>[1] = answer /\ <<answer>> # <<>>
    BY <1>2, <1>3, Constants
  <2>3. /\ it \in Infos /\ it.sock = it0.sock /\ it.mode = "HEADER" /\ it.got = 0
        /\ it.bytes = Header /\ it.out = <<answer>>
    <3>1. /\ next \in Infos /\ next.sock = it0.sock /\ next.mode = "HEADER" /\ next.got = 0
          /\ next.bytes = Header /\ next.out = it0.out
      <4>1. it0 \in Infos /\ Header \in Nat \ {0} /\ 0 \in Nat /\ "HEADER" \in {"KILL", "HEADER", "DATA"}
        BY <1>1, <1>7
      <4> QED
        BY <4>1 DEF Infos
    <3> HIDE DEF next
    <3> QED
      BY <2>2, <3>1 DEF Infos
  <2>4. t \in Talks /\ t.ran = 1 /\ t.no = t0.no /\ t.answer = t0.answer
    <3>1. 1 \in 0 .. 2 /\ t0 \in Talks
      BY <1>1
    <3> QED
      BY <3>1 DEF Talks
  <2>5. info' = [info EXCEPT ![c] = it] /\ info'[c] = it
    <3>1. info' = [info EXCEPT ![c] =
                     [[it0 EXCEPT !.mode = "HEADER", !.got = 0, !.bytes = Header]
                        EXCEPT !.out = Append(@, answer)]]
      BY <1>11 DEF Analyze
    <3> QED
      BY <1>1, <3>1
  <2>6. talk' = [talk EXCEPT ![c] = t] /\ talk'[c] = t
    <3>1. talk' = [talk EXCEPT ![c].ran = IF got = Header + d0.request.size THEN @ + 1 ELSE 2]
      BY <1>11 DEF Analyze
    <3>2. talk' = [talk EXCEPT ![c].ran = @ + 1] /\ t0.ran + 1 = 1
      BY <1>3, <2>1, <3>1
    <3> QED
      BY <1>1, <3>2
  <2> HIDE DEF it, t, answer
  <2>7. RequestUnderWay(c)'
    <3>1. it.mode = "HEADER" /\ it.got + it.bytes = Header /\ d.up = 0
      BY <1>4, <1>7, <2>1, <2>3
    <3> QED
      BY <1>5, <2>5, <3>1 DEF RequestUnderWay
  <2>8. AnswerUnderWay(c)'
    <3>1. answer.no = t0.no /\ answer.bytes = ReplySize /\ ReplySize \in Nat
      BY Constants DEF answer
    <3>2. /\ Fresh(it) /\ it.mode = "HEADER" /\ (\A j \in DOMAIN d.down : FALSE)
          /\ Len(it.out) = 1 /\ it.out[1].no = t.no
          /\ it.out[1].bytes + Len(d.down) = ReplySize
      BY <1>4, <2>2, <2>3, <2>4, <3>1 DEF Fresh
    <3>3. t.ran # 0 /\ Fresh(info[c])'
      BY <2>4, <2>5, <3>2 DEF Fresh
    <3> QED
      BY <1>5, <1>6, <2>5, <2>6, <3>2, <3>3 DEF AnswerUnderWay
  <2>9. ConnectionInv(c)'
    BY <1>3, <1>4, <1>5, <1>6, <2>4, <2>6, <2>7, <2>8 DEF ConnectionInv, Awaiting
  <2> QED
    BY <1>1, <1>3, <1>4, <1>5, <2>3, <2>4, <2>5, <2>6, <2>9, ServedStep
<1> QED
  <2>1. \/ n < it0.bytes /\ info' = [info EXCEPT ![c].got = got, ![c].bytes = @ - n] /\ UNCHANGED talk
        \/ info' = Killed(c) /\ UNCHANGED talk
        \/ /\ n = it0.bytes /\ it0.mode = "HEADER" /\ size \in 1 .. MaxPacketSize
           /\ info' = [info EXCEPT ![c].got = got, ![c].bytes = size, ![c].mode = "DATA"]
           /\ UNCHANGED talk
        \/ n = it0.bytes /\ (it0.mode = "DATA" \/ size = 0) /\ Analyze(c, got)
    BY DEF ReadWords
  <2>2. Analyze(c, got) => d0.request.known \/ (info' = Killed(c) /\ UNCHANGED talk)
    BY DEF Analyze
  <2> QED
    BY <1>8, <1>9, <1>10, <1>11, <2>1, <2>2

(* What is left of a queue is a queue of packets with something to write. *)
LEMMA RestFacts ==
  ASSUME NEW out \in Seq([no : 0 .. 1, bytes : Nat \ {0}]), out # <<>>, NEW n \in Nat,
         n <= Head(out).bytes
  PROVE  /\ Rest(out, n) \in Seq([no : 0 .. 1, bytes : Nat \ {0}])
         /\ Head(out) = out[1] /\ out[1].no \in 0 .. 1 /\ out[1].bytes \in Nat
         /\ Len(out) = 1 => \/ n = out[1].bytes /\ Rest(out, n) = <<>>
                            \/ /\ n # out[1].bytes /\ Len(Rest(out, n)) = 1
                               /\ Rest(out, n)[1].no = out[1].no
                               /\ Rest(out, n)[1].bytes = out[1].bytes - n
<1> DEFINE Packs == [no : 0 .. 1, bytes : Nat \ {0}]
           pack == Head(out)
<1>1. /\ pack \in Packs /\ pack = out[1] /\ Tail(out) \in Seq(Packs)
      /\ Len(out) = 1 => Tail(out) = <<>>
  <2>1. out \in Seq(Packs) /\ out # <<>>
    OBVIOUS
  <2> HIDE DEF Packs
  <2>2. Tail(out) \in Seq(Packs) /\ Len(Tail(out)) = Len(out) - 1 /\ Len(out) \in Nat
    BY <2>1
  <2>3. Len(out) = 1 => Tail(out) = <<>>
    <3>1. Len(out) = 1 => Len(Tail(out)) = 0
      BY <2>2
    <3>2. Len(Tail(out)) = 0 <=> Tail(out) = <<>>
      BY <2>2, EmptyFacts, Zenon
    <3> QED
      BY <3>1, <3>2
  <2> QED
    BY <2>1, <2>2, <2>3
<1>2. pack.no \in 0 .. 1 /\ pack.bytes \in Nat
  BY <1>1
<1>3. CASE n = pack.bytes
  BY <1>1, <1>2, <1>3 DEF Rest
<1>4. CASE n # pack.bytes
  <2> DEFINE new == [pack EXCEPT !.bytes = @ - n]
  <2>1. pack.bytes - n \in Nat \ {0}
    BY <1>2, <1>4
  <2>2. new \in Packs /\ new.no = pack.no /\ new.bytes = pack.bytes - n
    BY <1>1, <2>1
  <2>3. Rest(out, n) = <<new>> \o Tail(out)
    BY <1>4 DEF Rest
  <2> HIDE DEF new, pack, Packs
  <2>4. /\ <<new>> \o Tail(out) \in Seq(Packs)
        /\ Tail(out) = <<>> => /\ Len(<<new>> \o Tail(out)) = 1
                               /\ (<<new>> \o Tail(out))[1] = new
    <3>1. <<new>> \o <<>> = <<new>> /\ Len(<<new>>) = 1 /\ <<new>>[1] = new
      OBVIOUS
    <3>2. <<new>> \o Tail(out) \in Seq(Packs)
      BY <1>1, <2>2, ConsFacts
    <3> QED
      BY <3>1, <3>2
  <2> QED
    BY <1>1, <1>2, <1>4, <2>2, <2>3, <2>4 DEF Packs
<1> QED
  BY <1>3, <1>4

(* A write moves words of the answer from the queue to the drw.             *)
LEMMA WriteWordsStep ==
  ASSUME IInv, NEW c \in Conns, NEW i \in DOMAIN cli_info, NEW n \in Words, WriteWords(c, i, n)
  PROVE  IInv'
<1> DEFINE it0 == info[c]
           d0 == drw[c]
           t0 == talk[c]
<1>1. /\ info \in [Conns -> Infos] /\ drw \in [Conns -> Drws] /\ talk \in [Conns -> Talks]
      /\ it0 \in Infos /\ d0 \in Drws /\ t0 \in Talks /\ ConnectionInv(c)
  BY InvFacts, TypeFacts DEF Talks
<1>2. /\ it0.out \in Seq([no : 0 .. 1, bytes : Nat \ {0}])
      /\ d0.on \in BOOLEAN /\ d0.down \in Seq(0 .. 1)
      /\ t0.no \in 0 .. 1 /\ t0.ran \in 0 .. 2 /\ n \in Nat
  BY <1>1, InfoFields, DrwFields DEF Talks, Words
<1>3. /\ loop.pc = "conns" /\ i >= loop.at /\ ListedAt(c, i) /\ Onward(i)
      /\ UNCHANGED <<main, cli_info, backlog, used, dat>> /\ talk' = talk
      /\ it0.mode # "KILL" /\ it0.out # <<>> /\ n <= Head(it0.out).bytes
      /\ info' = [info EXCEPT ![c].out = Rest(@, n)]
      /\ drw' = IF d0.on
                THEN [drw EXCEPT ![c].down = @ \o [k \in 1 .. n |-> Head(it0.out).no]]
                ELSE drw
  BY DEF WriteWords, Writes, Comes, Writable
<1>4. Listed(c) /\ Listed(c)'
  BY <1>3 DEF ListedAt, Listed, In
<1> DEFINE out == Rest(it0.out, n)
           it == [it0 EXCEPT !.out = Rest(@, n)]
<1>5. /\ out \in Seq([no : 0 .. 1, bytes : Nat \ {0}]) /\ Head(it0.out) = it0.out[1]
      /\ it0.out[1].no \in 0 .. 1 /\ it0.out[1].bytes \in Nat
      /\ Len(it0.out) = 1 => \/ n = it0.out[1].bytes /\ out = <<>>
                             \/ /\ n # it0.out[1].bytes /\ Len(out) = 1
                                /\ out[1].no = it0.out[1].no
                                /\ out[1].bytes = it0.out[1].bytes - n
  BY <1>2, <1>3, RestFacts
<1> HIDE DEF out
<1>6. /\ it \in Infos /\ it.sock = it0.sock /\ it.mode = it0.mode /\ it.got = it0.got
      /\ it.bytes = it0.bytes /\ it.out = out
  BY <1>1, <1>5 DEF Infos, out
<1>7. info' = [info EXCEPT ![c] = it] /\ info'[c] = it
  BY <1>1, <1>3
<1>8. talk' = [talk EXCEPT ![c] = t0] /\ talk'[c] = t0
  BY <1>1, <1>3
<1> HIDE DEF it
<1>9. RequestUnderWay(c) /\ ~(Awaiting(c) /\ t0.ran = 0) /\ (d0.on => Awaiting(c))
  BY <1>1, <1>3 DEF ConnectionInv, AnswerUnderWay
<1>10. CASE ~d0.on
  <2>1. drw' = [drw EXCEPT ![c] = d0] /\ drw'[c] = d0
    BY <1>1, <1>3, <1>10
  <2>2. RequestUnderWay(c)'
    BY <1>3, <1>6, <1>7, <1>8, <1>9, <2>1 DEF RequestUnderWay, Awaiting
  <2>3. AnswerUnderWay(c)'
    BY <1>8, <1>9, <1>10, <2>1 DEF AnswerUnderWay, Awaiting
  <2>4. ConnectionInv(c)'
    BY <1>1, <1>4, <1>8, <1>10, <2>1, <2>2, <2>3 DEF ConnectionInv
  <2>5. /\ loop.pc = "conns" /\ i >= loop.at /\ ListedAt(c, i) /\ Onward(i)
        /\ UNCHANGED <<main, cli_info, backlog, used, dat>>
    BY <1>3
  <2> QED
    BY <1>1, <1>6, <1>7, <1>8, <2>1, <2>4, <2>5, ServedStep
<1>11. CASE d0.on
  <2> DEFINE words == [k \in 1 .. n |-> it0.out[1].no]
             d == [d0 EXCEPT !.down = @ \o words]
  <2>1. /\ t0.ran = 1 /\ it0.mode = "HEADER" /\ Fresh(it0) /\ Len(it0.out) = 1
        /\ it0.out[1].no = t0.no /\ it0.out[1].bytes + Len(d0.down) = ReplySize
        /\ \A k \in DOMAIN d0.down : d0.down[k] = t0.no
    <3>1. t0.ran = 1
      BY <1>1, <1>2, <1>9, <1>11 DEF ConnectionInv
    <3>2. Len(it0.out) # 0
      BY <1>2, <1>3
    <3> QED
      BY <1>1, <1>3, <1>9, <1>11, <3>1, <3>2 DEF ConnectionInv, AnswerUnderWay
  <2>2. /\ d0.down \o words \in Seq(0 .. 1)
        /\ Len(d0.down \o words) = Len(d0.down) + n /\ Len(d0.down) \in Nat
        /\ \A k \in DOMAIN (d0.down \o words) : (d0.down \o words)[k] = t0.no
    <3>1. words \in Seq(0 .. 1) /\ Len(words) = n /\ \A k \in 1 .. n : words[k] = t0.no
      BY <1>2, <1>5, <2>1
    <3> HIDE DEF words
    <3>2. /\ d0.down \o words \in Seq(0 .. 1) /\ Len(d0.down) \in Nat
          /\ Len(d0.down \o words) = Len(d0.down) + n
      BY ZenonT(30), <1>2, <3>1, ConcatFacts
    <3>3. ASSUME NEW k \in DOMAIN (d0.down \o words)
          PROVE  (d0.down \o words)[k] = t0.no
      <4>1. k \in 1 .. (Len(d0.down) + n) /\ DOMAIN d0.down = 1 .. Len(d0.down)
        BY <1>2, <3>2, <3>3
      <4>2. CASE k <= Len(d0.down)
        <5>1. k \in DOMAIN d0.down /\ (d0.down \o words)[k] = d0.down[k]
          BY <1>2, <3>1, <3>2, <4>1, <4>2
        <5> QED
          BY <2>1, <5>1
      <4>3. CASE k > Len(d0.down)
        <5>1. k - Len(d0.down) \in 1 .. n /\ (d0.down \o words)[k] = words[k - Len(d0.down)]
          BY SMTT(30), <1>2, <3>1, <3>2, <4>1, <4>3
        <5> QED
          BY <3>1, <5>1
      <4> QED
        BY <3>2, <4>1, <4>2, <4>3
    <3> QED
      BY <3>2, <3>3
  <2>3. d \in Drws /\ d.on /\ d.up = d0.up /\ d.request = d0.request /\ d.down = d0.down \o words
    BY <1>1, <1>11, <2>2 DEF Drws
  <2>4. drw' = [drw EXCEPT ![c] = d] /\ drw'[c] = d
    BY <1>1, <1>3, <1>5, <1>11
  <2> HIDE DEF d
  <2>5. RequestUnderWay(c)'
    BY <1>3, <1>6, <1>7, <1>8, <1>9, <2>3, <2>4 DEF RequestUnderWay, Awaiting
  <2>6. AnswerUnderWay(c)'
    <3>1. \/ it.out = <<>> /\ Len(d.down) = ReplySize
          \/ /\ Len(it.out) = 1 /\ it.out[1].no = t0.no
             /\ it.out[1].bytes + Len(d.down) = ReplySize
      <4>1. Len(d.down) = Len(d0.down) + n
        BY <2>2, <2>3
      <4>2. CASE n = it0.out[1].bytes /\ out = <<>>
        <5>1. it.out = <<>>
          BY <1>6, <4>2
        <5>2. it0.out[1].bytes + Len(d0.down) = ReplySize
          BY <1>2, <2>1, <2>2, <4>2
        <5>3. n \in Nat /\ Len(d0.down) \in Nat /\ n + Len(d0.down) = ReplySize
          BY <1>2, <2>2, <4>2, <5>2
        <5>4. Len(d.down) = ReplySize
          BY <4>1, <5>3
        <5> QED
          BY <5>1, <5>4
      <4>3. CASE /\ n # it0.out[1].bytes /\ Len(out) = 1
                 /\ out[1].no = it0.out[1].no
                 /\ out[1].bytes = it0.out[1].bytes - n
        <5>1. (it0.out[1].bytes - n) + (Len(d0.down) + n) = ReplySize
          BY SMTT(30), <1>2, <1>5, <2>1, <2>2
        <5>2. it.out[1].bytes + Len(d.down) = ReplySize
          BY <1>6, <4>1, <4>3, <5>1
        <5> QED
          BY <1>6, <2>1, <4>3, <5>2
      <4> QED
        BY <1>5, <2>1, <4>2, <4>3
    <3>2. it.mode = "HEADER" /\ Fresh(it) /\ Fresh(info[c])'
      BY <1>6, <1>7, <2>1 DEF Fresh
    <3>3. \A k \in DOMAIN d.down : d.down[k] = t0.no
      BY <2>2, <2>3
    <3> QED
      BY <1>4, <1>7, <1>8, <2>1, <2>4, <3>1, <3>2, <3>3 DEF AnswerUnderWay
  <2>7. ConnectionInv(c)'
    <3>1. Awaiting(c)' /\ drw'[c].on /\ talk'[c].ran # 2
      BY <1>8, <1>9, <1>11, <2>1, <2>3, <2>4 DEF Awaiting
    <3> QED
      BY <2>5, <2>6, <3>1 DEF ConnectionInv
  <2>8. /\ loop.pc = "conns" /\ i >= loop.at /\ ListedAt(c, i) /\ Onward(i)
        /\ UNCHANGED <<main, cli_info, backlog, used, dat>>
    BY <1>3
  <2> QED
    BY <1>1, <1>6, <1>7, <1>8, <2>3, <2>4, <2>7, <2>8, ServedStep
<1> QED
  BY <1>2, <1>10, <1>11

(* A connection that is marked is closed; its descriptor belongs to nobody  *)
(* then, and nothing of its request is left.                                *)
LEMMA ReapStep ==
  ASSUME IInv, NEW i \in DOMAIN cli_info, Reap(i)
  PROVE  IInv'
<1>0. PICK c : c = cli_info[i]
  OBVIOUS
<1>1. /\ TypeOK /\ HandlersInv /\ TurnInv /\ ListsInv /\ DescriptorsHaveOwners
      /\ info \in [Conns -> Infos] /\ drw \in [Conns -> Drws] /\ talk \in [Conns -> Talks]
      /\ cli_info \in Seq(Conns) /\ c \in Conns /\ Listed(c)
      /\ drw[c] \in Drws /\ talk[c] \in Talks /\ ConnectionInv(c)
  BY <1>0, InvFacts, TypeFacts DEF Listed, In, Talks
<1>2. /\ AtEnd /\ info[c].mode = "KILL" /\ used' = used \ {info[c].sock}
      /\ cli_info' = [k \in 1 .. Len(cli_info) - 1 |->
                        IF k < i THEN cli_info[k] ELSE cli_info[k + 1]]
      /\ info' = [info EXCEPT ![c] = NewInfo(0)]
      /\ IF drw[c].on THEN drw' = [drw EXCEPT ![c].up = 0] /\ UNCHANGED talk ELSE Over(c)
      /\ UNCHANGED <<selhead, aux, loop, backlog, dats, dead, datKnocks>>
  BY <1>0 DEF Reap, Closed, main, dat
<1>3. /\ cli_info' \in Seq(Conns) /\ Distinct(cli_info') /\ ~In(c, cli_info')
      /\ \A d : In(d, cli_info') => In(d, cli_info)
      /\ \A d : In(d, cli_info) => d = c \/ In(d, cli_info')
      /\ \A k \in DOMAIN cli_info' :
           \/ k \in DOMAIN cli_info /\ cli_info'[k] = cli_info[k]
           \/ k + 1 \in DOMAIN cli_info /\ cli_info'[k] = cli_info[k + 1]
  <2>1. Distinct(cli_info)
    BY <1>1 DEF ListsInv
  <2>2. cli_info' = Without(cli_info, i)
    BY <1>2 DEF Without
  <2>3. /\ cli_info' \in Seq(Conns)
        /\ \A k \in DOMAIN cli_info' :
             \/ k \in DOMAIN cli_info /\ k # i /\ cli_info'[k] = cli_info[k]
             \/ k + 1 \in DOMAIN cli_info /\ k + 1 # i /\ k >= i /\ cli_info'[k] = cli_info[k + 1]
        /\ \A x : In(x, cli_info') => In(x, cli_info)
        /\ \A x : In(x, cli_info) => x = cli_info[i] \/ In(x, cli_info')
        /\ Distinct(cli_info') /\ ~In(cli_info[i], cli_info')
    BY <1>1, <2>1, <2>2, RemoveFacts
  <2> QED
    BY <1>0, <2>3
<1>4. /\ ~Listed(c)'
      /\ \A d \in Conns : d # c => Listed(d)' = Listed(d)
      /\ \A d : Waiting(d)' = Waiting(d)
  <2>1. \A d : Listed(d)' <=> In(d, cli_info')
    BY DEF Listed
  <2>2. \A d : Listed(d) <=> In(d, cli_info)
    BY DEF Listed
  <2>3. \A d : Waiting(d)' = Waiting(d)
    BY <1>2 DEF Waiting
  <2>4. ASSUME NEW d \in Conns, d # c PROVE Listed(d)' <=> Listed(d)
    BY <1>3, <2>1, <2>2, <2>4
  <2>5. \A d : Listed(d)' \in BOOLEAN /\ Listed(d) \in BOOLEAN
    BY DEF Listed, In
  <2> QED
    BY <1>3, <2>1, <2>3, <2>4, <2>5
<1>5. /\ NewInfo(0) \in Infos /\ info'[c] = NewInfo(0) /\ info' \in [Conns -> Infos]
      /\ NewInfo(0).mode = "HEADER" /\ NewInfo(0).out = <<>> /\ Fresh(NewInfo(0))
      /\ \A d \in Conns : d # c => info'[d] = info[d]
  BY <1>1, <1>2, NewInfoFacts
<1>6. PICK d \in Drws, t \in Talks :
        /\ drw' = [drw EXCEPT ![c] = d] /\ talk' = [talk EXCEPT ![c] = t] /\ d.up = 0
        /\ \/ d.on /\ drw[c].on /\ d.down = drw[c].down /\ t = talk[c]
           \/ ~d.on /\ d = Gone /\ t = NoTalk
  <2>1. CASE drw[c].on
    <3> DEFINE d == [drw[c] EXCEPT !.up = 0]
    <3>1. d \in Drws /\ d.up = 0 /\ d.on /\ d.down = drw[c].down
      BY <1>1, <2>1 DEF Drws
    <3>2. drw' = [drw EXCEPT ![c] = d] /\ talk' = [talk EXCEPT ![c] = talk[c]]
      BY <1>1, <1>2, <2>1
    <3> QED
      BY <1>1, <2>1, <3>1, <3>2
  <2>2. CASE ~drw[c].on
    BY <1>2, <2>2, GoneFacts DEF Over, Talks
  <2> QED
    BY <2>1, <2>2
<1>7. /\ drw'[c] = d /\ talk'[c] = t
      /\ \A e \in Conns : e # c => drw'[e] = drw[e] /\ talk'[e] = talk[e]
      /\ drw' \in [Conns -> Drws] /\ talk' \in [Conns -> Talks]
  BY <1>1, <1>6
<1>8. TypeOK'
  BY <1>1, <1>2, <1>3, <1>5, <1>7 DEF TypeOK, Talks
<1>9. ListsInv'
  <2>1. ASSUME NEW e \in Conns
        PROVE  IF Listed(e)' THEN info'[e].sock \in Fds /\ ~Waiting(e)'
                             ELSE info'[e] = NewInfo(0)
    BY <1>1, <1>4, <1>5 DEF ListsInv
  <2>2. NewInfo(0)' = NewInfo(0)
    BY DEF NewInfo
  <2> QED
    BY <1>1, <1>2, <1>3, <2>1, <2>2 DEF ListsInv, Distinct
<1>10. DescriptorsHaveOwners'
  <2>1. {info'[e].sock : e \in {e \in Conns : Listed(e)'}}
          = {info[e].sock : e \in {e \in Conns : Listed(e)}} \ {info[c].sock}
    <3>1. \A e \in Conns : Listed(e) /\ e # c => info[e].sock # info[c].sock
      BY <1>1 DEF DescriptorsHaveOwners
    <3> QED
      BY <1>4, <1>5, <3>1
  <2>2. info[c].sock \notin dats
    BY <1>1 DEF DescriptorsHaveOwners
  <2>3. used' = dats \cup {info'[e].sock : e \in {e \in Conns : Listed(e)'}}
    BY <1>1, <1>2, <2>1, <2>2 DEF DescriptorsHaveOwners
  <2>4. ASSUME NEW e \in Conns, Listed(e)'
        PROVE  /\ info'[e].sock \notin dats
               /\ \A g \in Conns \ {e} : Listed(g)' => info'[g].sock # info'[e].sock
    <3>1. e # c /\ Listed(e) /\ info'[e] = info[e]
      BY <1>4, <1>5, <2>4
    <3>2. \A g \in Conns : Listed(g)' => Listed(g) /\ info'[g] = info[g]
      BY <1>4, <1>5
    <3> QED
      BY <1>1, <3>1, <3>2 DEF DescriptorsHaveOwners
  <2> QED
    BY <1>2, <2>3, <2>4 DEF DescriptorsHaveOwners
<1>11. TurnInv'
  <2>1. loop.pc = "conns" /\ loop' = loop
    BY <1>2 DEF AtEnd
  <2>2. ~ToCome("cli")' /\ In("dat", loop.todo)' = In("dat", loop.todo)
    BY <2>1 DEF ToCome, In
  <2>3. ASSUME NEW k \in DOMAIN cli_info', k >= loop.at PROVE ~Readies(cli_info[k])'
    <3>1. PICK j \in DOMAIN cli_info : cli_info'[k] = cli_info[j] /\ (j = k \/ j = k + 1)
      BY <1>3, <2>3
    <3>2. loop.at \in Nat /\ k \in Nat /\ Len(cli_info) \in Nat /\ DOMAIN cli_info = 1..Len(cli_info)
      BY <1>1, <1>3, <2>3, TypeFacts, LoopFields
    <3>3. j \in loop.at .. Len(cli_info)
      BY <2>3, <3>1, <3>2
    <3>4. ~Readies(cli_info[j])
      BY <1>2, <3>3 DEF AtEnd
    <3>5. cli_info[j] # c /\ cli_info[j] \in Conns
      BY <1>1, <1>3, <2>3, <3>1 DEF In
    <3>6. info'[cli_info[j]] = info[cli_info[j]]
      BY <1>5, <3>5
    <3> QED
      BY <2>1, <3>1, <3>4, <3>6 DEF Readies
  <2> QED
    BY <1>1, <2>1, <2>2, <2>3 DEF TurnInv
<1>12. ConnectionInv(c)'
  <2>1. RequestUnderWay(c)'
    <3>1. NewInfo(0).got + NewInfo(0).bytes = Header
      BY Constants DEF NewInfo
    <3> QED
      BY <1>5, <1>6, <1>7, <3>1 DEF RequestUnderWay
  <2>2. AnswerUnderWay(c)'
    BY <1>1, <1>2, <1>5, <1>6, <1>7, GoneFacts DEF ConnectionInv, AnswerUnderWay, Awaiting
  <2>3. Fresh(info[c])'
    BY <1>5 DEF Fresh
  <2> QED
    BY <1>1, <1>5, <1>6, <1>7, <2>1, <2>2, <2>3, GoneFacts DEF ConnectionInv, Awaiting
<1>13. \A e \in Conns : ConnectionInv(e)'
  BY <1>1, <1>4, <1>5, <1>7, <1>12, OtherConnections DEF IInv
<1> QED
  BY <1>1, <1>2, <1>8, <1>9, <1>10, <1>11, <1>13, KeepHandlers DEF IInv, main

-----------------------------------------------------------------------------
(* The drw processes *)

(* A step of the drw at connection c: ser's own variables stay, but for the *)
(* backlog, and what was readable stays so.                                 *)
LEMMA DrwStep ==
  ASSUME IInv, NEW c \in Conns, UNCHANGED <<main, loop, cli_info, info, used, dat>>,
         NEW d \in Drws, NEW t \in Talks,
         drw' = [drw EXCEPT ![c] = d], talk' = [talk EXCEPT ![c] = t],
         backlog' = backlog \/ (backlog' = Append(backlog, c) /\ ~Listed(c) /\ ~Waiting(c)),
         Listed(c) /\ Readable(c) => d.up > 0 \/ ~d.on,
         ConnectionInv(c)'
  PROVE  IInv'
<1>1. /\ TypeOK /\ HandlersInv /\ TurnInv /\ ListsInv /\ DescriptorsHaveOwners
      /\ drw \in [Conns -> Drws] /\ talk \in [Conns -> Talks] /\ backlog \in Seq(Conns)
  BY InvFacts, TypeFacts DEF Talks
<1>2. UNCHANGED <<selhead, aux, loop, cli_info, info, used, dats, dead, datKnocks>>
  BY DEF main, dat
<1>3. /\ drw' \in [Conns -> Drws] /\ drw'[c] = d /\ talk' \in [Conns -> Talks]
      /\ \A e \in Conns : e # c => drw'[e] = drw[e] /\ talk'[e] = talk[e]
  BY <1>1
<1>4. /\ backlog' \in Seq(Conns) /\ (backlog # <<>> => backlog' # <<>>)
      /\ Distinct(backlog')
      /\ \A e : In(e, backlog') => In(e, backlog) \/ (e = c /\ ~Listed(c))
      /\ \A e : In(e, backlog) => In(e, backlog')
  <2>1. Distinct(backlog)
    BY <1>1 DEF ListsInv
  <2>2. CASE backlog' = backlog
    BY <1>1, <2>1, <2>2
  <2>3. CASE backlog' = Append(backlog, c) /\ ~Listed(c) /\ ~Waiting(c)
    BY <1>1, <2>1, <2>3, AppendFacts DEF Waiting
  <2> QED
    BY <2>2, <2>3
<1>5. /\ \A e : Listed(e)' = Listed(e)
      /\ \A e \in Conns : e # c => Waiting(e)' = Waiting(e)
      /\ \A e \in Conns : Listed(e) /\ Waiting(e)' => Waiting(e)
  <2>1. \A e : Listed(e)' = Listed(e)
    BY <1>2 DEF Listed
  <2>2. \A e : Waiting(e)' <=> In(e, backlog')
    BY DEF Waiting
  <2>3. \A e : Waiting(e) <=> In(e, backlog)
    BY DEF Waiting
  <2>4. \A e : Waiting(e)' \in BOOLEAN /\ Waiting(e) \in BOOLEAN
    BY DEF Waiting, In
  <2> QED
    BY <1>4, <2>1, <2>2, <2>3, <2>4
<1>6. TypeOK'
  BY <1>1, <1>2, <1>3, <1>4 DEF TypeOK, Talks
<1>7. ListsInv'
  <2>1. NewInfo(0)' = NewInfo(0)
    BY DEF NewInfo
  <2>2. ASSUME NEW e \in Conns
        PROVE  IF Listed(e)' THEN info'[e].sock \in Fds /\ ~Waiting(e)' ELSE info'[e] = NewInfo(0)
    BY <1>1, <1>2, <1>5 DEF ListsInv
  <2>3. Distinct(cli_info') /\ dead' \subseteq dats'
    BY <1>1, <1>2 DEF ListsInv
  <2> QED
    BY <1>4, <2>1, <2>2, <2>3 DEF ListsInv
<1>8. DescriptorsHaveOwners'
  BY <1>1, <1>2, <1>5 DEF DescriptorsHaveOwners
<1>9. TurnInv'
  <2>1. \A e \in Conns : Listed(e) /\ Readable(e) => Readable(e)'
    BY <1>3 DEF Readable
  <2> QED
    BY <1>1, <1>2, <1>4, <2>1, KeepTurn
<1>10. \A e \in Conns : ConnectionInv(e)'
  BY <1>2, <1>3, <1>5, OtherConnections DEF IInv
<1> QED
  BY <1>1, <1>2, <1>6, <1>7, <1>8, <1>9, <1>10, KeepHandlers DEF IInv, main

(* A connection is made where nothing is left of one before. *)
LEMMA ConnectStep ==
  ASSUME IInv, NEW c \in Conns, Connect(c)
  PROVE  IInv'
<1>1. /\ ~drw[c].on /\ ~Listed(c) /\ ~Waiting(c)
      /\ drw' = [drw EXCEPT ![c].on = TRUE] /\ backlog' = Append(backlog, c)
      /\ UNCHANGED <<main, loop, cli_info, info, used, dat>> /\ UNCHANGED talk
  BY DEF Connect
<1>2. /\ ConnectionInv(c) /\ info[c] = NewInfo(0) /\ talk[c] \in Talks
      /\ drw \in [Conns -> Drws] /\ talk \in [Conns -> Talks] /\ drw[c] \in Drws
  BY <1>1, InvFacts, TypeFacts DEF ListsInv, Talks
<1>3. drw[c] = Gone /\ talk[c] = NoTalk
  BY <1>1, <1>2 DEF ConnectionInv
<1>4. PICK d \in Drws : drw' = [drw EXCEPT ![c] = d] /\ d.on /\ d.up = 0 /\ d.down = <<>>
  <2> DEFINE d == [drw[c] EXCEPT !.on = TRUE]
  <2>1. d \in Drws /\ d.on /\ d.up = 0 /\ d.down = <<>>
    BY <1>2, <1>3, GoneFacts DEF Drws
  <2>2. drw' = [drw EXCEPT ![c] = d]
    BY <1>1, <1>2
  <2> QED
    BY <2>1, <2>2
<1>5. drw'[c] = d /\ talk' = [talk EXCEPT ![c] = NoTalk] /\ talk'[c] = NoTalk
  BY <1>1, <1>2, <1>3, <1>4
<1>6. PICK it : it = NewInfo(0)
  OBVIOUS
<1>7. it.mode = "HEADER" /\ it.got = 0 /\ it.bytes = Header /\ it.out = <<>> /\ info'[c] = it
  BY <1>1, <1>2, <1>6 DEF NewInfo
<1>8. ConnectionInv(c)'
  BY <1>4, <1>5, <1>7, GoneFacts, Constants
  DEF ConnectionInv, RequestUnderWay, AnswerUnderWay, Awaiting, Fresh
<1>9. NoTalk \in Talks
  BY GoneFacts DEF Talks
<1> QED
  BY <1>1, <1>4, <1>5, <1>8, <1>9, DrwStep

(* A request is sent when the answer to the one before has been read. *)
LEMMA AskStep ==
  ASSUME IInv, NEW c \in Conns, Ask(c)
  PROVE  IInv'
<1>1. PICK r \in Requests :
        /\ drw[c].on /\ ~Cut(c) /\ talk[c].answer # 2
        /\ drw' = [drw EXCEPT ![c].request = r, ![c].up = Header + r.size]
        /\ talk' = [talk EXCEPT ![c] = [no |-> 1 - @.no, ran |-> 0, answer |-> 2]]
        /\ UNCHANGED <<main, loop, cli_info, info, backlog, used, dat>>
  BY DEF Ask
<1>2. /\ ConnectionInv(c) /\ talk[c] \in Talks /\ talk[c].no \in 0 .. 1 /\ info[c] \in Infos
      /\ drw \in [Conns -> Drws] /\ talk \in [Conns -> Talks] /\ drw[c] \in Drws
  BY InvFacts, TypeFacts DEF Talks
<1>3. drw[c].up = 0 /\ drw[c].down = <<>> /\ Fresh(info[c]) /\ info[c].out = <<>>
  BY <1>1, <1>2 DEF ConnectionInv, Awaiting
<1>4. PICK d \in Drws : /\ drw' = [drw EXCEPT ![c] = d] /\ d.on /\ d.up = Header + r.size
                        /\ d.request = r /\ d.down = <<>>
  <2> DEFINE d == [[drw[c] EXCEPT !.request = r] EXCEPT !.up = Header + r.size]
  <2>1. r \in [size : Nat, known : BOOLEAN] /\ Header + r.size \in Nat
    BY Constants
  <2>2. d \in Drws /\ d.on /\ d.up = Header + r.size /\ d.request = r /\ d.down = <<>>
    BY <1>1, <1>2, <1>3, <2>1 DEF Drws
  <2>3. drw' = [drw EXCEPT ![c] = d]
    BY <1>1, <1>2
  <2> QED
    BY <2>2, <2>3
<1>5. PICK t \in Talks : talk' = [talk EXCEPT ![c] = t] /\ t.ran = 0 /\ t.answer = 2
  <2> DEFINE t == [no |-> 1 - talk[c].no, ran |-> 0, answer |-> 2]
  <2>1. 1 - talk[c].no \in 0 .. 1
    BY <1>2
  <2>2. t \in Talks /\ t.ran = 0 /\ t.answer = 2
    BY <2>1 DEF Talks
  <2>3. talk' = [talk EXCEPT ![c] = t]
    BY <1>1, <1>2
  <2> HIDE DEF t
  <2> QED
    BY <2>2, <2>3
<1>6. drw'[c] = d /\ talk'[c] = t
  BY <1>2, <1>4, <1>5
<1>11. /\ Readable(c) => FALSE
       /\ backlog' = backlog /\ UNCHANGED <<main, loop, cli_info, info, used, dat>>
  BY <1>1, <1>3 DEF Readable
<1>7. PICK it \in Infos : it = info[c] /\ info'[c] = it
  BY <1>1, <1>2
<1>8. /\ it.mode # "DATA" /\ it.got = 0 /\ it.bytes = Header /\ it.out = <<>>
  BY <1>3, <1>7 DEF Fresh
<1>9. r.size \in Nat /\ Header = 2
  BY Constants
<1>10. ConnectionInv(c)'
  BY <1>4, <1>5, <1>6, <1>7, <1>8, <1>9
  DEF ConnectionInv, RequestUnderWay, AnswerUnderWay, Awaiting, Fresh
<1> QED
  BY <1>4, <1>5, <1>10, <1>11, DrwStep

(* What is in the socket when an answer is read: the answer, and no more. *)
LEMMA ReceiveFacts ==
  ASSUME IInv, NEW c \in Conns, Receive(c)
  PROVE  /\ Awaiting(c) /\ talk[c].ran = 1 /\ drw[c].up = 0
         /\ Listed(c) /\ Fresh(info[c]) /\ info[c].mode = "HEADER" /\ info[c].out = <<>>
         /\ Len(drw[c].down) = ReplySize
         /\ \A i \in DOMAIN drw[c].down : drw[c].down[i] = talk[c].no
<1>1. drw[c].on /\ talk[c].answer = 2 /\ Len(drw[c].down) >= ReplySize
  BY DEF Receive
<1>2. /\ ConnectionInv(c) /\ talk[c].ran \in 0 .. 2 /\ info[c] \in Infos /\ drw[c] \in Drws
      /\ ReplySize \in Nat /\ ReplySize >= 1
  BY InvFacts, TypeFacts, Constants
<1>3. drw[c].down # <<>>
  BY <1>1, <1>2
<1>4. talk[c].ran = 1
  BY <1>1, <1>2, <1>3 DEF ConnectionInv, AnswerUnderWay, Awaiting
<1>5. /\ Listed(c) /\ info[c].mode = "HEADER" /\ Fresh(info[c])
      /\ \A i \in DOMAIN drw[c].down : drw[c].down[i] = talk[c].no
      /\ \/ info[c].out = <<>> /\ Len(drw[c].down) = ReplySize
         \/ /\ Len(info[c].out) = 1 /\ info[c].out[1].bytes + Len(drw[c].down) = ReplySize
  BY <1>1, <1>2, <1>4 DEF ConnectionInv, AnswerUnderWay, Awaiting
<1>6. ASSUME Len(info[c].out) = 1 PROVE info[c].out[1].bytes \in Nat \ {0}
  <2>1. info[c].out \in Seq([no : 0 .. 1, bytes : Nat \ {0}])
    BY <1>2, InfoFields
  <2> DEFINE S == [no : 0 .. 1, bytes : Nat \ {0}]
  <2>2. ASSUME NEW s \in Seq(S), Len(s) = 1 PROVE s[1] \in S
    <3> HIDE DEF S
    <3>1. 1 \in 1 .. Len(s)
      BY <2>2
    <3> QED
      BY <2>2, <3>1
  <2>3. info[c].out[1] \in S
    BY <1>6, <2>1, <2>2
  <2> QED
    BY <2>3
<1>7. drw[c].up \in Nat /\ Len(drw[c].down) \in Nat
  BY <1>2, DrwFields
<1>8. info[c].out = <<>> /\ Len(drw[c].down) = ReplySize
  BY <1>1, <1>2, <1>5, <1>6, <1>7
<1>9. drw[c].up = 0
  BY <1>2, <1>4, <1>5 DEF ConnectionInv, RequestUnderWay
<1> QED
  BY <1>1, <1>4, <1>5, <1>8, <1>9 DEF Awaiting

(* An answer is read. *)
LEMMA ReceiveStep ==
  ASSUME IInv, NEW c \in Conns, Receive(c)
  PROVE  IInv'
<1>1. /\ drw[c].on /\ talk[c].answer = 2
      /\ talk' = [talk EXCEPT ![c].answer =
                    IF \A i \in 1 .. ReplySize : drw[c].down[i] = talk[c].no
                    THEN talk[c].no ELSE 1 - talk[c].no]
      /\ drw' = [drw EXCEPT ![c].down = SubSeq(@, ReplySize + 1, Len(@)),
                            ![c].request = NoRequest]
      /\ UNCHANGED <<main, loop, cli_info, info, backlog, used, dat>>
  BY DEF Receive
<1>2. /\ talk[c] \in Talks /\ talk[c].no \in 0 .. 1 /\ info[c] \in Infos
      /\ drw \in [Conns -> Drws] /\ talk \in [Conns -> Talks] /\ drw[c] \in Drws
  BY InvFacts, TypeFacts DEF Talks
<1>3. PICK d \in Drws : drw' = [drw EXCEPT ![c] = d] /\ d.on /\ d.up = 0 /\ d.down = <<>>
  <2> DEFINE down == SubSeq(drw[c].down, ReplySize + 1, Len(drw[c].down))
             d == [[drw[c] EXCEPT !.down = down] EXCEPT !.request = NoRequest]
  <2>1. drw[c].down \in Seq(0 .. 1) /\ ReplySize \in Nat /\ Len(drw[c].down) = ReplySize
    BY <1>2, ReceiveFacts, DrwFields, Constants
  <2>2. down = <<>> /\ down \in Seq(0 .. 1)
    BY <2>1
  <2> HIDE DEF down
  <2>3. d \in Drws /\ d.on /\ d.up = 0 /\ d.down = <<>>
    BY <1>1, <1>2, <2>2, ReceiveFacts, GoneFacts DEF Drws
  <2>4. drw' = [drw EXCEPT ![c] = d]
    BY <1>1, <1>2 DEF down
  <2> QED
    BY <2>3, <2>4
<1>4. PICK t \in Talks : talk' = [talk EXCEPT ![c] = t] /\ t.ran = 1 /\ t.answer # 2
  <2> DEFINE a == IF \A i \in 1 .. ReplySize : drw[c].down[i] = talk[c].no
                  THEN talk[c].no ELSE 1 - talk[c].no
             t == [talk[c] EXCEPT !.answer = a]
  <2>1. a \in 0 .. 1
    BY <1>2
  <2> HIDE DEF a
  <2>2. t \in Talks /\ t.ran = 1 /\ t.answer = a
    BY <1>2, <2>1, ReceiveFacts DEF Talks
  <2>3. talk' = [talk EXCEPT ![c] = t]
    BY <1>1, <1>2 DEF a
  <2>4. a # 2
    BY <2>1
  <2> HIDE DEF t
  <2> QED
    BY <2>2, <2>3, <2>4
<1>5. drw'[c] = d /\ talk'[c] = t
  BY <1>2, <1>3, <1>4
<1>9. /\ Readable(c) => FALSE
      /\ backlog' = backlog /\ UNCHANGED <<main, loop, cli_info, info, used, dat>>
  BY <1>1, ReceiveFacts DEF Readable
<1>6. PICK it \in Infos : it = info[c] /\ info'[c] = it
  BY <1>1, <1>2
<1>7. it.mode = "HEADER" /\ it.got = 0 /\ it.bytes = Header /\ it.out = <<>> /\ Header = 2
  BY <1>6, ReceiveFacts, Constants DEF Fresh
<1>8. ConnectionInv(c)'
  BY <1>3, <1>4, <1>5, <1>6, <1>7
  DEF ConnectionInv, RequestUnderWay, AnswerUnderWay, Awaiting, Fresh
<1> QED
  BY <1>3, <1>4, <1>8, <1>9, DrwStep

(* A drw closes its socket or dies. *)
LEMMA LeaveStep ==
  ASSUME IInv, NEW c \in Conns, Leave(c)
  PROVE  IInv'
<1>1. /\ drw[c].on /\ UNCHANGED <<main, loop, cli_info, info, backlog, used, dat>>
      /\ \/ Cut(c) /\ Over(c)
         \/ /\ ~Cut(c) /\ UNCHANGED talk
            /\ \E up \in {0, drw[c].up} :
                 drw' = [drw EXCEPT ![c].on = FALSE, ![c].up = up, ![c].down = <<>>]
  BY DEF Leave
<1>2. /\ ConnectionInv(c) /\ talk[c] \in Talks /\ info[c] \in Infos
      /\ drw \in [Conns -> Drws] /\ talk \in [Conns -> Talks] /\ drw[c] \in Drws
  BY InvFacts, TypeFacts DEF Talks
<1>3. PICK it \in Infos : it = info[c] /\ info'[c] = it
  BY <1>1, <1>2
<1>4. (Listed(c))' = Listed(c) /\ (Waiting(c))' = Waiting(c)
  BY <1>1 DEF Listed, Waiting
<1>5. CASE Cut(c) /\ Over(c)
  <2>1. drw' = [drw EXCEPT ![c] = Gone] /\ talk' = [talk EXCEPT ![c] = NoTalk] /\ ~Listed(c)
    BY <1>5 DEF Over, Cut
  <2>2. drw'[c] = Gone /\ talk'[c] = NoTalk /\ NoTalk \in Talks
    BY <1>2, <2>1, GoneFacts DEF Talks
  <2>3. it = NewInfo(0)
    BY <1>3, <2>1, InvFacts DEF ListsInv
  <2>4. it.mode = "HEADER" /\ it.got = 0 /\ it.bytes = Header /\ it.out = <<>> /\ Header = 2
    BY <2>3, Constants DEF NewInfo
  <2>5. ConnectionInv(c)'
    BY <1>3, <2>2, <2>4, GoneFacts
    DEF ConnectionInv, RequestUnderWay, AnswerUnderWay, Awaiting, Fresh
  <2> QED
    BY <1>1, <2>1, <2>2, <2>5, GoneFacts, DrwStep
<1>6. CASE /\ ~Cut(c) /\ UNCHANGED talk
           /\ \E up \in {0, drw[c].up} :
                drw' = [drw EXCEPT ![c].on = FALSE, ![c].up = up, ![c].down = <<>>]
  <2>1. PICK up \in {0, drw[c].up} :
          drw' = [drw EXCEPT ![c].on = FALSE, ![c].up = up, ![c].down = <<>>]
    BY <1>6
  <2>2. PICK d \in Drws : /\ drw' = [drw EXCEPT ![c] = d] /\ ~d.on /\ d.up = up
                          /\ d.request = drw[c].request /\ d.down = <<>>
    <3> DEFINE d == [[[drw[c] EXCEPT !.on = FALSE] EXCEPT !.up = up] EXCEPT !.down = <<>>]
    <3>1. up \in Nat /\ <<>> \in Seq(0 .. 1)
      BY <1>2, DrwFields
    <3>2. d \in Drws /\ ~d.on /\ d.up = up /\ d.request = drw[c].request /\ d.down = <<>>
      BY <1>2, <3>1 DEF Drws
    <3>3. drw' = [drw EXCEPT ![c] = d]
      BY <1>2, <2>1
    <3> QED
      BY <3>2, <3>3
  <2>3. drw'[c] = d /\ talk'[c] = talk[c] /\ talk' = [talk EXCEPT ![c] = talk[c]]
    BY <1>2, <1>6, <2>2
  <2>4. Listed(c) \/ Waiting(c)
    BY <1>1, <1>6 DEF Cut
  <2>5. RequestUnderWay(c)'
    BY <1>2, <1>3, <2>2, <2>3 DEF ConnectionInv, RequestUnderWay, Awaiting, Fresh
  <2>6. AnswerUnderWay(c)'
    BY <1>2, <1>3, <2>2, <2>3 DEF ConnectionInv, AnswerUnderWay, Awaiting
  <2>7. ConnectionInv(c)'
    BY <1>2, <1>4, <2>2, <2>3, <2>4, <2>5, <2>6 DEF ConnectionInv
  <2> QED
    BY <1>1, <1>2, <2>2, <2>3, <2>7, DrwStep
<1> QED
  BY <1>1, <1>5, <1>6

-----------------------------------------------------------------------------
(* The invariant, and what follows from it *)

(* Every step keeps the invariant. *)
LEMMA NextIInv == IInv /\ [Next]_vars => IInv'
<1> SUFFICES ASSUME IInv, [Next]_vars PROVE IInv'
  OBVIOUS
<1>1. CASE UNCHANGED vars
  <2>1. /\ UNCHANGED <<selhead, aux, loop, cli_info, info, backlog>>
        /\ UNCHANGED <<used, dats, dead, datKnocks, drw, talk>>
    BY <1>1 DEF vars
  <2>2. TypeOK'
    BY <2>1, InvFacts DEF TypeOK
  <2> QED
    BY <2>1, <2>2, InvFacts, KeepConnections, KeepHandlers, KeepLists, KeepTurn
    DEF IInv, Connections, Readable, main
<1>2. CASE Loop
  <2>1. ASSUME NEW h \in Handlers, AcceptFails(h) PROVE IInv'
    BY <2>1, AcceptFailsStep
  <2>2. ASSUME NEW i \in DOMAIN cli_info, NEW c \in Conns, ReadFails(c, i) \/ WriteFails(c, i)
        PROVE  IInv'
    BY <2>2, FailStep
  <2>3. ASSUME NEW i \in DOMAIN cli_info, NEW c \in Conns, NEW n \in Words,
               ReadWords(c, i, n) \/ WriteWords(c, i, n)
        PROVE  IInv'
    BY <2>3, ReadWordsStep, WriteWordsStep
  <2>4. ASSUME NEW i \in DOMAIN cli_info, Reap(i) PROVE IInv'
    BY <2>4, ReapStep
  <2> QED
    BY <1>2, <2>1, <2>2, <2>3, <2>4, SelectStep, ServeDatsStep, AcceptStep, NoAcceptStep,
       CliServedStep DEF Loop, CliServ
<1>3. CASE Dat
  BY <1>3, DatStep
<1>4. ASSUME NEW h \in Handlers, Register(h) PROVE IInv'
  BY <1>4, RegisterReadStep, RegisterLinkStep DEF Register
<1>5. ASSUME NEW c \in Conns, Drw(c) PROVE IInv'
  BY <1>5, ConnectStep, AskStep, ReceiveStep, LeaveStep DEF Drw
<1> QED
  BY <1>1, <1>2, <1>3, <1>4, <1>5 DEF Next

(* The invariant holds in every state (con_cli.c, con_dat.c, ser.c:34). *)
THEOREM Invariance == Spec => []IInv
<1> QED
  BY InitIInv, NextIInv, PTL DEF Spec

(* Every variable keeps a value of its kind; the loop never asks for a read *)
(* or a write of nothing, which it would take for the end of the connection *)
(* (con_cli.c:550, 643).                                                    *)
THEOREM TypeCorrect == Spec => []TypeOK
<1>1. IInv => TypeOK
  BY DEF IInv
<1> QED
  BY <1>1, Invariance, PTL

(* Each descriptor of the process is that of one dat or one connection in   *)
(* the list: none is lost, and none is shared (con_cli.c:671-724).          *)
THEOREM DescriptorsAreOwned == Spec => []DescriptorsHaveOwners
<1>1. IInv => DescriptorsHaveOwners
  BY DEF IInv
<1> QED
  BY <1>1, Invariance, PTL

(* The loop is in a read for which there is nothing only where a connection *)
(* has the descriptor of a dat closed in the same turn, or one that is not  *)
(* in the first word of the fd_set (con_cli.c:694).                         *)
THEOREM BlindIsExcused == Spec => []BlindOnlyIfExcused
<1>1. IInv => BlindOnlyIfExcused
  <2> SUFFICES ASSUME IInv, NEW c \in Conns, Blind(c) PROVE Excused(c)
    BY DEF BlindOnlyIfExcused
  <2>1. PICK i \in DOMAIN cli_info : Reads(c, i)
    BY DEF Blind
  <2>2. /\ loop.pc = "conns" /\ i >= loop.at /\ cli_info[i] = c /\ Readies(c)
    BY <2>1 DEF Reads, Comes, ListedAt
  <2>3. drw[c].up \in Nat /\ drw[c].up = 0 /\ drw[c].on
    BY InvFacts, DrwFields DEF Blind
  <2>4. ~Readable(c)
    BY <2>3 DEF Readable
  <2> QED
    BY <2>2, <2>4 DEF IInv, TurnInv
<1> QED
  BY <1>1, Invariance, PTL

-----------------------------------------------------------------------------
(* The loop implements the exchanges *)

(* A step that leaves the history alone does nothing to the exchanges. *)
Silent == UNCHANGED talk

(* When a packet is complete, the handler is called once, with all of it;   *)
(* every other read is silent.                                              *)
LEMMA ReadRuns ==
  ASSUME IInv, NEW c \in Conns, NEW i \in DOMAIN cli_info, NEW n \in Words, ReadWords(c, i, n)
  PROVE  Abstract!Run(c) \/ Silent
<1>1. /\ Awaiting(c) /\ talk[c].ran = 0 /\ n <= info[c].bytes
      /\ info[c].got \in Nat /\ n \in Nat
      /\ talk \in [Conns -> Talks]
  BY ReadFacts, InvFacts, InfoFields, TypeFacts DEF Talks
<1>2. \/ Silent
      \/ /\ n = info[c].bytes
         /\ info[c].mode = "DATA" \/ SizeRead(c, info[c].got + n) = 0
         /\ Analyze(c, info[c].got + n)
  BY DEF ReadWords, Silent
<1>3. CASE /\ n = info[c].bytes
           /\ info[c].mode = "DATA" \/ SizeRead(c, info[c].got + n) = 0
           /\ Analyze(c, info[c].got + n)
  <2>1. info[c].got + n = Header + drw[c].request.size
    BY <1>3, CompleteFacts
  <2>2. Silent \/ talk' = [talk EXCEPT ![c].ran = talk[c].ran + 1]
    BY <1>1, <1>3, <2>1 DEF Analyze, Silent
  <2>3. talk[c].ran + 1 = 1
    BY <1>1
  <2> QED
    BY <1>1, <2>2, <2>3 DEF Abstract!Run, Abstract!Awaited, Awaiting
<1> QED
  BY <1>2, <1>3

(* What a drw reads is the answer to its request. *)
LEMMA ReceiveAnswers ==
  ASSUME IInv, NEW c \in Conns, Receive(c)
  PROVE  Abstract!Answer(c)
<1>1. /\ Len(drw[c].down) = ReplySize /\ drw[c].down \in Seq(0 .. 1)
      /\ \A k \in DOMAIN drw[c].down : drw[c].down[k] = talk[c].no
      /\ Awaiting(c) /\ talk[c].ran = 1
  BY ReceiveFacts, InvFacts, DrwFields
<1>2. \A k \in 1 .. ReplySize : drw[c].down[k] = talk[c].no
  BY <1>1
<1>3. talk' = [talk EXCEPT ![c].answer = talk[c].no]
  BY <1>2 DEF Receive
<1> QED
  BY <1>1, <1>3 DEF Abstract!Answer, Abstract!Awaited, Awaiting

(* Over is the renewal of a connection. *)
LEMMA OverRenews ==
  ASSUME NEW c \in Conns, Over(c)
  PROVE  Abstract!Renew(c)
BY DEF Over, Abstract!Renew, NoTalk, Abstract!NoTalk

(* Every step of the loop is one of the exchanges, or none. *)
LEMMA NextExchanges == IInv /\ [Next]_vars => [Abstract!Next]_talk
<1> SUFFICES ASSUME IInv, [Next]_vars PROVE Abstract!Next \/ Silent
  BY DEF Silent
<1>1. CASE UNCHANGED vars
  BY <1>1 DEF vars, Silent
<1>2. CASE Loop
  <2>1. ASSUME NEW h \in Handlers, AcceptFails(h) PROVE Silent
    BY <2>1 DEF AcceptFails, Silent
  <2>2. ASSUME NEW i \in DOMAIN cli_info, NEW c \in Conns, ReadFails(c, i) \/ WriteFails(c, i)
        PROVE  Silent
    BY <2>2 DEF ReadFails, WriteFails, Silent
  <2>3. ASSUME NEW i \in DOMAIN cli_info, NEW c \in Conns, NEW n \in Words, ReadWords(c, i, n)
        PROVE  Abstract!Next \/ Silent
    BY <2>3, ReadRuns DEF Abstract!Next
  <2>4. ASSUME NEW i \in DOMAIN cli_info, NEW c \in Conns, NEW n \in Words, WriteWords(c, i, n)
        PROVE  Silent
    BY <2>4 DEF WriteWords, Silent
  <2>5. ASSUME NEW i \in DOMAIN cli_info, Reap(i) PROVE Abstract!Next \/ Silent
    <3>1. cli_info[i] \in Conns
      BY InvFacts, TypeFacts
    <3> QED
      BY <2>5, <3>1, OverRenews DEF Reap, Silent, Abstract!Next
  <2>6. Select \/ ServeDats \/ Accept \/ NoAccept \/ CliServed => Silent
    BY DEF Select, ServeDats, Accept, NoAccept, CliServed, Silent
  <2> QED
    BY <1>2, <2>1, <2>2, <2>3, <2>4, <2>5, <2>6 DEF Loop, CliServ
<1>3. CASE Dat
  BY <1>3 DEF Dat, DatConnects, DatDies, Silent
<1>4. ASSUME NEW h \in Handlers, Register(h) PROVE Silent
  BY <1>4 DEF Register, RegisterRead, RegisterLink, Silent
<1>5. ASSUME NEW c \in Conns, Drw(c) PROVE Abstract!Next \/ Silent
  <2>1. Connect(c) => Silent
    BY DEF Connect, Silent
  <2>2. Ask(c) => Abstract!Ask(c)
    BY DEF Ask, Abstract!Ask, Abstract!Awaited
  <2>3. Leave(c) => Silent \/ Abstract!Renew(c)
    BY OverRenews DEF Leave, Silent
  <2> QED
    BY <1>5, <2>1, <2>2, <2>3, ReceiveAnswers DEF Drw, Abstract!Next
<1> QED
  BY <1>1, <1>2, <1>3, <1>4, <1>5 DEF Next

(* However packets are cut into pieces and connections come and go, a       *)
(* request is run at most once, when all of it is there, and the answer     *)
(* that a drw reads is the answer to it (con_cli.c:537-659).                *)
THEOREM LoopImplementsExchanges == Spec => ExchangesInOrder
<1>1. Init => talk = [c \in Conns |-> Abstract!NoTalk]
  BY DEF Init, NoTalk, Abstract!NoTalk
<1> QED
  BY <1>1, NextExchanges, Invariance, PTL DEF Spec, ExchangesInOrder, Abstract!Spec

=============================================================================
