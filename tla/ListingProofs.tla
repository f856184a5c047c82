--------------------------- MODULE ListingProofs ---------------------------
(***************************************************************************)
(* Proofs about Listing: what ser packs drw unpacks, for every table and   *)
(* every set of names, and so `list' prints the table in every reachable   *)
(* state.                                                                  *)
(*                                                                         *)
(* The three loops are recursive functions, so the proof goes by           *)
(* induction.  The library's induction theorem takes a predicate as its    *)
(* parameter; SetInduction takes the set of the numbers that satisfy it,   *)
(* and follows from the theorem that a well-founded relation has minimal   *)
(* elements.                                                               *)
(***************************************************************************)
EXTENDS Listing, SerFsProofs

-----------------------------------------------------------------------------
(* Induction, and functions defined by recursion *)

(* A set that holds 0, and with a number the next one, holds all of them.   *)
LEMMA SetInduction ==
  ASSUME NEW S, 0 \in S, \A n \in Nat : n \in S => n + 1 \in S
  PROVE  Nat \subseteq S
<1> SUFFICES ASSUME Nat \ S # {} PROVE FALSE
  OBVIOUS
<1> DEFINE R == OpToRel(<, Nat)
<1>1. \A x, y \in Nat : x < y => <<x, y>> \in R
  BY DEF OpToRel
<1>2. PICK m \in Nat \ S : \A y \in Nat \ S : ~(<<y, m>> \in R)
  <2>1. IsWellFoundedOn(R, Nat)
    BY NatLessThanWellFounded
  <2> HIDE DEF R
  <2> QED
    BY <2>1, WFMin
<1>3. m # 0
  BY <1>2
<1>4. m - 1 \in Nat /\ m - 1 < m /\ (m - 1) + 1 = m
  BY <1>3
<1>5. m - 1 \in S
  BY <1>1, <1>2, <1>4
<1> QED
  BY <1>2, <1>4, <1>5

(* The same up to a bound: the invariant of a loop of N turns.              *)
LEMMA BoundedInduction ==
  ASSUME NEW N \in Nat, NEW S, 0 \in S, \A n \in 1 .. N : n - 1 \in S => n \in S
  PROVE  0 .. N \subseteq S
<1> DEFINE T == {n \in Nat : n <= N => n \in S}
<1>1. 0 \in T
  OBVIOUS
<1>2. ASSUME NEW n \in Nat, n \in T PROVE n + 1 \in T
  <2>1. CASE n + 1 <= N
    <3>1. n + 1 \in 1 .. N /\ (n + 1) - 1 = n /\ n <= N
      BY <2>1
    <3>2. n \in S
      BY <1>2, <3>1
    <3> QED
      BY <3>1, <3>2
  <2>2. CASE ~(n + 1 <= N)
    BY <2>2
  <2> QED
    BY <2>1, <2>2
<1> HIDE DEF T
<1>3. Nat \subseteq T
  BY <1>1, <1>2, SetInduction
<1> QED
  BY <1>3 DEF T

(* A loop that starts with c and makes step[<<v, n>>] of v in its turn n:   *)
(* f holds the values after the first m turns.                              *)
IsLoop(f, c, m, V, step) ==
  /\ f \in [0 .. m -> V] /\ f[0] = c
  /\ \A n \in 1 .. m : f[n] = step[<<f[n - 1], n>>]

(* Such a loop has a value after each turn. *)
LEMMA Recursion ==
  ASSUME NEW V, NEW c \in V, NEW N \in Nat, NEW step \in [V \X (1 .. N) -> V]
  PROVE  \E f : IsLoop(f, c, N, V, step)
<1> DEFINE S == {m \in 0 .. N : \E f : IsLoop(f, c, m, V, step)}
<1>1. 0 \in S
  <2> DEFINE f == [n \in 0 .. 0 |-> c]
  <2>1. f \in [0 .. 0 -> V] /\ f[0] = c
    OBVIOUS
  <2> HIDE DEF f
  <2>2. IsLoop(f, c, 0, V, step)
    BY <2>1 DEF IsLoop
  <2> QED
    BY <2>2
<1>2. ASSUME NEW m \in 1 .. N, m - 1 \in S PROVE m \in S
  <2>1. PICK f : IsLoop(f, c, m - 1, V, step)
    BY <1>2
  <2> DEFINE g == [n \in 0 .. m |-> IF n = m THEN step[<<f[m - 1], m>>] ELSE f[n]]
  <2>2. f[m - 1] \in V /\ step[<<f[m - 1], m>>] \in V
    BY <2>1 DEF IsLoop
  <2>3. g \in [0 .. m -> V] /\ g[0] = c
    BY <2>1, <2>2 DEF IsLoop
  <2>4. ASSUME NEW n \in 1 .. m PROVE g[n] = step[<<g[n - 1], n>>]
    <3>1. g[n - 1] = f[n - 1]
      OBVIOUS
    <3>2. CASE n = m
      <4>1. g[m] = step[<<f[m - 1], m>>]
        OBVIOUS
      <4> QED
        BY <3>1, <3>2, <4>1
    <3>3. CASE n # m
      <4>1. n \in 1 .. m - 1 /\ g[n] = f[n]
        BY <3>3
      <4> QED
        BY <2>1, <3>1, <4>1 DEF IsLoop
    <3> QED
      BY <3>2, <3>3
  <2> HIDE DEF g
  <2>5. IsLoop(g, c, m, V, step)
    BY <2>3, <2>4 DEF IsLoop
  <2> QED
    BY <2>5
<1> HIDE DEF S
<1>3. N \in S
  BY <1>1, <1>2, BoundedInduction
<1> QED
  BY <1>3 DEF S

-----------------------------------------------------------------------------
(* The loops of ser *)

(* What a buffer is made of. *)
Piece == {LengPiece(name) : name \in Names}
           \cup {CharPiece(name, k) : name \in Names, k \in Nat}
           \cup {FilePiece(nd) : nd \in Node}

(* What fs_getdir_from_drw writes for a file, place by place. *)
LEMMA EntryFacts ==
  ASSUME NEW nd \in Node
  PROVE  /\ Entry(nd) \in Seq(Piece)
         /\ NameLen[nd.name] \in Nat
         /\ Len(Entry(nd)) = 2 + NameLen[nd.name]
         /\ Entry(nd)[1] = LengPiece(nd.name)
         /\ \A k \in 1 .. NameLen[nd.name] : Entry(nd)[1 + k] = CharPiece(nd.name, k)
         /\ Entry(nd)[2 + NameLen[nd.name]] = FilePiece(nd)
<1>1. nd.name \in Names /\ NameLen[nd.name] \in Nat
  BY NodeFields, NameLenAssumption, BoundsAssumption
<1> DEFINE chars == [k \in 1 .. NameLen[nd.name] |-> CharPiece(nd.name, k)]
<1>2. /\ LengPiece(nd.name) \in Piece /\ FilePiece(nd) \in Piece
      /\ \A k \in 1 .. NameLen[nd.name] : CharPiece(nd.name, k) \in Piece
  BY <1>1 DEF Piece
<1>3. chars \in Seq(Piece) /\ Len(chars) = NameLen[nd.name]
  BY <1>1, <1>2
<1> HIDE DEF chars
<1>4. <<LengPiece(nd.name)>> \o chars \in Seq(Piece)
  BY <1>2, <1>3
<1> DEFINE front == <<LengPiece(nd.name)>> \o chars
<1>5. /\ Len(front) = 1 + NameLen[nd.name]
      /\ front[1] = LengPiece(nd.name)
      /\ \A k \in 1 .. NameLen[nd.name] : front[1 + k] = chars[k]
  BY <1>1, <1>2, <1>3
<1>6. front \in Seq(Piece)
  BY <1>4
<1> HIDE DEF front
<1>7. Entry(nd) = front \o <<FilePiece(nd)>>
  BY DEF Entry, front, chars
<1>71. /\ <<FilePiece(nd)>> \in Seq(Piece) /\ Len(<<FilePiece(nd)>>) = 1
       /\ <<FilePiece(nd)>>[1] = FilePiece(nd)
  BY <1>2
<1>8. /\ Entry(nd) \in Seq(Piece) /\ Len(Entry(nd)) = Len(front) + 1
      /\ \A k \in 1 .. Len(front) : Entry(nd)[k] = front[k]
      /\ Entry(nd)[Len(front) + 1] = FilePiece(nd)
  <2> HIDE DEF front
  <2> QED
    BY <1>71, <1>6, <1>7, ConcatFacts
<1>9. \A k \in 1 .. NameLen[nd.name] : chars[k] = CharPiece(nd.name, k)
  BY DEF chars
<1> QED
  BY <1>1, <1>5, <1>8, <1>9

(* getdir_size_from_drw, turn by turn. *)
LEMMA SizeLoopFacts ==
  ASSUME nodes \in Seq(Node)
  PROVE  /\ SizeLoop \in [0 .. Len(nodes) -> Nat]
         /\ SizeLoop[0] = 0
         /\ \A n \in 1 .. Len(nodes) :
              SizeLoop[n] = SizeLoop[n - 1] + 2 + NameLen[nodes[n].name]
<1> DEFINE N == Len(nodes)
           Of(n) == NameLen[nodes[n].name]
           step == [p \in Nat \X (1 .. N) |-> p[1] + 2 + Of(p[2])]
<1>1. N \in Nat /\ \A n \in 1 .. N : Of(n) \in Nat
  BY NodeFields, NameLenAssumption, BoundsAssumption
<1>2. step \in [Nat \X (1 .. N) -> Nat]
  BY <1>1
<1>3. \A v \in Nat, n \in 1 .. N : step[<<v, n>>] = v + 2 + Of(n)
  OBVIOUS
<1> HIDE DEF N, Of, step
<1>4. PICK f : IsLoop(f, 0, N, Nat, step)
  BY <1>1, <1>2, Recursion
<1>5. f[0] = 0 /\ \A n \in 1 .. N : f[n] = f[n - 1] + 2 + Of(n)
  <2>1. \A n \in 1 .. N : n - 1 \in 0 .. N
    BY <1>1
  <2> QED
    BY <1>3, <1>4, <2>1 DEF IsLoop
<1>6. f = [n \in 0 .. N |-> IF n = 0 THEN 0 ELSE f[n - 1] + 2 + Of(n)]
  <2> DEFINE g == [n \in 0 .. N |-> IF n = 0 THEN 0 ELSE f[n - 1] + 2 + Of(n)]
  <2>1. f = [n \in 0 .. N |-> f[n]]
    BY <1>4 DEF IsLoop
  <2>2. \A n \in 0 .. N : f[n] = g[n]
    BY <1>1, <1>5
  <2> QED
    BY <2>1, <2>2
<1>7. SizeLoop = [n \in 0 .. N |-> IF n = 0 THEN 0 ELSE SizeLoop[n - 1] + 2 + Of(n)]
  BY <1>6 DEF SizeLoop, N, Of
<1>8. /\ SizeLoop[0] = 0
      /\ \A n \in 1 .. N : SizeLoop[n] = SizeLoop[n - 1] + 2 + Of(n)
  BY <1>1, <1>7
<1> DEFINE S == {n \in 0 .. N : SizeLoop[n] \in Nat}
<1>9. 0 .. N \subseteq S
  <2>1. 0 \in S
    BY <1>1, <1>8
  <2>2. ASSUME NEW n \in 1 .. N, n - 1 \in S PROVE n \in S
    BY <1>1, <1>8, <2>2
  <2> HIDE DEF S
  <2> QED
    BY <1>1, <2>1, <2>2, BoundedInduction
<1>10. SizeLoop \in [0 .. N -> Nat]
  BY <1>7, <1>9
<1> QED
  BY <1>8, <1>10 DEF N, Of

(* fs_getdir_from_drw, turn by turn. *)
LEMMA PackLoopFacts ==
  ASSUME nodes \in Seq(Node)
  PROVE  /\ PackLoop \in [0 .. Len(nodes) -> Seq(Piece)]
         /\ PackLoop[0] = <<>>
         /\ \A n \in 1 .. Len(nodes) : PackLoop[n] = PackLoop[n - 1] \o Entry(nodes[n])
<1> DEFINE N == Len(nodes)
           V == Seq(Piece)
           Of(n) == Entry(nodes[n])
           step == [p \in V \X (1 .. N) |-> p[1] \o Of(p[2])]
<1>1. N \in Nat /\ <<>> \in V /\ \A n \in 1 .. N : Of(n) \in V
  BY EntryFacts
<1>2. \A s, t \in V : s \o t \in V
  BY ConcatFacts
<1> HIDE DEF N, V, Of
<1>3. step \in [V \X (1 .. N) -> V]
  BY <1>1, <1>2
<1>4. \A v \in V, n \in 1 .. N : step[<<v, n>>] = v \o Of(n)
  OBVIOUS
<1> HIDE DEF step
<1>5. PICK f : IsLoop(f, <<>>, N, V, step)
  BY <1>1, <1>3, Recursion
<1>6. f[0] = <<>> /\ \A n \in 1 .. N : f[n] = f[n - 1] \o Of(n)
  <2>1. \A n \in 1 .. N : n - 1 \in 0 .. N
    BY <1>1
  <2> QED
    BY <1>4, <1>5, <2>1 DEF IsLoop
<1>7. f = [n \in 0 .. N |-> IF n = 0 THEN <<>> ELSE f[n - 1] \o Of(n)]
  <2> DEFINE Cat(n) == f[n - 1] \o Of(n)
             g == [n \in 0 .. N |-> IF n = 0 THEN <<>> ELSE Cat(n)]
  <2>1. f = [n \in 0 .. N |-> f[n]]
    BY <1>5 DEF IsLoop
  <2>2. f[0] = <<>> /\ \A n \in 1 .. N : f[n] = Cat(n)
    BY <1>6
  <2>3. \A n \in 0 .. N : f[n] = g[n]
    <3> HIDE DEF Cat
    <3> QED
      BY <1>1, <2>2
  <2> QED
    BY <2>1, <2>3
<1>8. PackLoop = [n \in 0 .. N |-> IF n = 0 THEN <<>> ELSE PackLoop[n - 1] \o Of(n)]
  BY <1>7 DEF PackLoop, N, Of
<1>9. /\ PackLoop[0] = <<>>
      /\ \A n \in 1 .. N : PackLoop[n] = PackLoop[n - 1] \o Of(n)
  BY <1>1, <1>8
<1> DEFINE S == {n \in 0 .. N : PackLoop[n] \in V}
<1>10. 0 .. N \subseteq S
  <2>1. 0 \in S
    BY <1>1, <1>9
  <2>2. ASSUME NEW n \in 1 .. N, n - 1 \in S PROVE n \in S
    <3>1. PackLoop[n - 1] \in V /\ Of(n) \in V
      BY <1>1, <2>2
    <3>2. PackLoop[n - 1] \o Of(n) \in V
      BY <1>2, <3>1
    <3>3. PackLoop[n] \in V
      BY <1>9, <3>2, Zenon
    <3> QED
      BY <3>3
  <2> HIDE DEF S
  <2> QED
    BY <1>1, <2>1, <2>2, BoundedInduction
<1>11. PackLoop \in [0 .. N -> V]
  BY <1>8, <1>10
<1> QED
  BY <1>9, <1>11 DEF N, V, Of

(* What a turn of fs_getdir_from_drw adds to the buffer. *)
LEMMA PackTurn ==
  ASSUME nodes \in Seq(Node), NEW n \in 1 .. Len(nodes)
  PROVE  LET old == PackLoop[n - 1]
             new == PackLoop[n]
             entry == Entry(nodes[n])
         IN /\ Len(old) \in Nat /\ Len(entry) \in Nat /\ Len(new) \in Nat
            /\ Len(new) = Len(old) + Len(entry)
            /\ \A i \in 1 .. Len(old) : new[i] = old[i]
            /\ \A i \in 1 .. Len(entry) : new[Len(old) + i] = entry[i]
<1> DEFINE old == PackLoop[n - 1]
           entry == Entry(nodes[n])
<1>1. old \in Seq(Piece) /\ entry \in Seq(Piece)
  <2>1. n - 1 \in 0 .. Len(nodes) /\ nodes[n] \in Node
    OBVIOUS
  <2> QED
    BY <2>1, PackLoopFacts, EntryFacts
<1>2. PackLoop[n] = old \o entry
  BY PackLoopFacts
<1> HIDE DEF old, entry
<1>3. /\ Len(old) \in Nat /\ Len(entry) \in Nat /\ Len(PackLoop[n]) \in Nat
      /\ Len(PackLoop[n]) = Len(old) + Len(entry)
      /\ \A i \in 1 .. Len(old) : PackLoop[n][i] = old[i]
      /\ \A i \in 1 .. Len(entry) : PackLoop[n][Len(old) + i] = entry[i]
  BY <1>1, <1>2, ConcatFacts
<1> QED
  BY <1>3 DEF old, entry

(* What is packed after n turns has the size that getdir_size_from_drw      *)
(* counts, which is at least a piece for each file.                         *)
LEMMA PackedSize ==
  ASSUME nodes \in Seq(Node)
  PROVE  \A n \in 0 .. Len(nodes) : Len(PackLoop[n]) = SizeLoop[n] /\ n <= SizeLoop[n]
<1> DEFINE N == Len(nodes)
           S == {n \in 0 .. N : Len(PackLoop[n]) = SizeLoop[n] /\ n <= SizeLoop[n]}
<1>1. N \in Nat
  OBVIOUS
<1>2. 0 \in S
  BY PackLoopFacts, SizeLoopFacts
<1>3. ASSUME NEW n \in 1 .. N, n - 1 \in S PROVE n \in S
  <2>1. n - 1 \in 0 .. N /\ nodes[n] \in Node
    OBVIOUS
  <2>2. NameLen[nodes[n].name] \in Nat /\ Len(Entry(nodes[n])) = 2 + NameLen[nodes[n].name]
    BY <2>1, EntryFacts
  <2>3. Len(PackLoop[n]) = Len(PackLoop[n - 1]) + Len(Entry(nodes[n]))
    BY PackTurn
  <2>4. SizeLoop[n - 1] \in Nat /\ SizeLoop[n] = SizeLoop[n - 1] + 2 + NameLen[nodes[n].name]
    BY <2>1, SizeLoopFacts
  <2>5. Len(PackLoop[n - 1]) = SizeLoop[n - 1] /\ n - 1 <= SizeLoop[n - 1]
    BY <1>3
  <2>6. Len(PackLoop[n]) = SizeLoop[n] /\ n <= SizeLoop[n]
    <3>1. Len(PackLoop[n]) \in Nat
      BY PackTurn
    <3> DEFINE a == Len(PackLoop[n])
               b == Len(PackLoop[n - 1])
               c == Len(Entry(nodes[n]))
               leng == NameLen[nodes[n].name]
    <3>2. /\ leng \in Nat /\ a \in Nat /\ c = 2 + leng /\ a = b + c
          /\ SizeLoop[n - 1] \in Nat /\ SizeLoop[n] = SizeLoop[n - 1] + 2 + leng
          /\ b = SizeLoop[n - 1] /\ n - 1 <= SizeLoop[n - 1]
      BY <2>2, <2>3, <2>4, <2>5, <3>1
    <3> HIDE DEF a, b, c, leng
    <3>3. a = SizeLoop[n] /\ n <= SizeLoop[n]
      BY <3>2
    <3> QED
      BY <3>3 DEF a
  <2> QED
    BY <2>6
<1> HIDE DEF S
<1>4. 0 .. N \subseteq S
  BY <1>1, <1>2, <1>3, BoundedInduction
<1> QED
  BY <1>4 DEF S

(* What a turn packs stays where it is: the first n turns have packed the   *)
(* beginning of what the first m turns have.                                *)
LEMMA PackedStays ==
  ASSUME nodes \in Seq(Node), NEW n \in 0 .. Len(nodes), NEW m \in n .. Len(nodes)
  PROVE  /\ Len(PackLoop[n]) <= Len(PackLoop[m])
         /\ \A i \in 1 .. Len(PackLoop[n]) : PackLoop[m][i] = PackLoop[n][i]
<1> DEFINE N == Len(nodes)
           Begins(k) == /\ Len(PackLoop[n]) <= Len(PackLoop[k])
                        /\ \A i \in 1 .. Len(PackLoop[n]) : PackLoop[k][i] = PackLoop[n][i]
           S == {k \in 0 .. N : n <= k => Begins(k)}
<1>1. N \in Nat /\ \A k \in 0 .. N : PackLoop[k] \in Seq(Piece) /\ Len(PackLoop[k]) \in Nat
  BY PackLoopFacts
<1>2. Begins(n)
  BY <1>1
<1>3. 0 \in S
  BY <1>2
<1>4. ASSUME NEW k \in 1 .. N, k - 1 \in S PROVE k \in S
  <2>1. CASE n = k
    BY <1>2, <2>1
  <2>2. CASE n < k
    <3>1. k - 1 \in 0 .. N /\ n <= k - 1 /\ nodes[k] \in Node
      BY <2>2
    <3>2. Begins(k - 1)
      BY <1>4, <3>1
    <3>4. /\ Len(PackLoop[k - 1]) \in Nat /\ Len(Entry(nodes[k])) \in Nat
          /\ Len(PackLoop[k]) \in Nat
          /\ Len(PackLoop[k]) = Len(PackLoop[k - 1]) + Len(Entry(nodes[k]))
          /\ \A i \in 1 .. Len(PackLoop[k - 1]) : PackLoop[k][i] = PackLoop[k - 1][i]
      BY PackTurn
    <3>5. Len(PackLoop[k]) >= Len(PackLoop[k - 1])
      <4> DEFINE a == Len(PackLoop[k])
                 b == Len(PackLoop[k - 1])
                 c == Len(Entry(nodes[k]))
      <4>1. a \in Nat /\ b \in Nat /\ c \in Nat /\ a = b + c
        BY <3>4
      <4> HIDE DEF a, b, c
      <4>2. a >= b
        BY <4>1
      <4> QED
        BY <4>2 DEF a, b
    <3>6. Begins(k)
      <4>1. \A i \in 1 .. Len(PackLoop[n]) : i \in 1 .. Len(PackLoop[k - 1])
        BY <1>1, <3>1, <3>2
      <4>2. \A i \in 1 .. Len(PackLoop[n]) : PackLoop[k][i] = PackLoop[n][i]
        BY <3>2, <3>4, <4>1
      <4>3. Len(PackLoop[n]) <= Len(PackLoop[k])
        BY <1>1, <3>1, <3>2, <3>5
      <4> QED
        BY <4>2, <4>3
    <3> QED
      BY <3>6
  <2>3. CASE k < n
    BY <2>3
  <2> QED
    BY <2>1, <2>2, <2>3
<1>5. 0 .. N \subseteq S
  <2> HIDE DEF S
  <2> QED
    BY <1>1, <1>3, <1>4, BoundedInduction
<1> QED
  BY <1>5

(* The answer holds at its places what was packed for each file.            *)
LEMMA AnswerFacts ==
  ASSUME nodes \in Seq(Node), root
  PROVE  LET buff == FsGetdir[1]
         IN /\ Len(buff) \in Nat /\ Len(buff) = SizeLoop[Len(nodes)]
            /\ \A n \in 1 .. Len(nodes) :
                 /\ SizeLoop[n] <= Len(buff)
                 /\ \A i \in 1 .. Len(Entry(nodes[n])) :
                      buff[SizeLoop[n - 1] + i] = Entry(nodes[n])[i]
<1> DEFINE N == Len(nodes)
           all == PackLoop[N]
<1>1. N \in Nat /\ N \in 0 .. N
  OBVIOUS
<1>2. all \in Seq(Piece) /\ Len(all) = SizeLoop[N] /\ GetdirSize = Len(all)
  BY <1>1, PackLoopFacts, PackedSize DEF GetdirSize
<1>3. SubSeq(all, 1, GetdirSize) = all
  <2> HIDE DEF all
  <2> QED
    BY <1>2
<1>4. FsGetdir[1] = all
  BY <1>3 DEF FsGetdir
<1>5. ASSUME NEW n \in 1 .. N
      PROVE  /\ SizeLoop[n] <= Len(all)
             /\ \A i \in 1 .. Len(Entry(nodes[n])) :
                  all[SizeLoop[n - 1] + i] = Entry(nodes[n])[i]
  <2>1. n - 1 \in 0 .. N /\ n \in 0 .. N /\ N \in n .. N /\ nodes[n] \in Node
    BY <1>1
  <2>2. Len(PackLoop[n - 1]) = SizeLoop[n - 1] /\ Len(PackLoop[n]) = SizeLoop[n]
    BY <2>1, PackedSize
  <2>4. /\ Len(PackLoop[n]) <= Len(all)
        /\ \A i \in 1 .. Len(PackLoop[n]) : all[i] = PackLoop[n][i]
    BY <2>1, PackedStays
  <2>5. ASSUME NEW i \in 1 .. Len(Entry(nodes[n]))
        PROVE  all[SizeLoop[n - 1] + i] = Entry(nodes[n])[i]
    <3>1. PackLoop[n][SizeLoop[n - 1] + i] = Entry(nodes[n])[i]
      BY <2>2, PackTurn
    <3>2. /\ Len(PackLoop[n - 1]) \in Nat /\ Len(Entry(nodes[n])) \in Nat
          /\ Len(PackLoop[n]) = Len(PackLoop[n - 1]) + Len(Entry(nodes[n]))
      BY PackTurn
    <3>3. SizeLoop[n - 1] + i \in 1 .. Len(PackLoop[n])
      BY <2>2, <3>2
    <3> QED
      BY <2>4, <3>1, <3>3
  <2> QED
    BY <2>2, <2>4, <2>5
<1> QED
  BY <1>2, <1>4, <1>5

-----------------------------------------------------------------------------
(* The loop of drw *)

(* One turn of list_fs_info, at the place where a file begins, prints that  *)
(* file and goes on where the next one begins.                              *)
LEMMA TurnFacts ==
  ASSUME nodes \in Seq(Node), root,
         NEW n \in 1 .. Len(nodes), NEW at, at.place = SizeLoop[n - 1] + 1
  PROVE  Turn(FsGetdir[1], at) =
           [place |-> SizeLoop[n] + 1, lines |-> Append(at.lines, Shown(nodes[n]))]
<1> DEFINE buff == FsGetdir[1]
           name == nodes[n].name
           leng == NameLen[name]
           i == SizeLoop[n - 1] + 1
<1>1. nodes[n] \in Node /\ name \in Names /\ leng \in Nat
  BY NodeFields, NameLenAssumption, BoundsAssumption
<1>2. /\ SizeLoop[n - 1] \in Nat /\ SizeLoop[n] = i + leng + 1
      /\ SizeLoop[n] <= Len(buff) /\ Len(buff) \in Nat
  <2>1. /\ SizeLoop[n - 1] \in Nat
        /\ SizeLoop[n] = SizeLoop[n - 1] + 2 + leng
    BY SizeLoopFacts
  <2>2. SizeLoop[n] <= Len(buff) /\ Len(buff) \in Nat
    BY AnswerFacts
  <2> HIDE DEF leng
  <2>3. SizeLoop[n] = i + leng + 1
    BY <1>1, <2>1
  <2> QED
    BY <2>1, <2>2, <2>3
<1>3. \A k \in 1 .. 2 + leng : buff[SizeLoop[n - 1] + k] = Entry(nodes[n])[k]
  BY <1>1, EntryFacts, AnswerFacts
<1>4. buff[i] = LengPiece(name)
  <2>1. Entry(nodes[n])[1] = LengPiece(name)
    BY <1>1, EntryFacts
  <2> HIDE DEF leng, name, buff
  <2>2. 1 \in 1 .. 2 + leng
    BY <1>1
  <2> QED
    BY <1>3, <2>1, <2>2
<1>5. \A k \in 1 .. leng : buff[i + k] = CharPiece(name, k)
  <2> HIDE DEF leng
  <2>1. ASSUME NEW k \in 1 .. leng PROVE buff[i + k] = CharPiece(name, k)
    <3>1. k \in Nat /\ 1 + k \in 1 .. 2 + leng
      BY <1>1
    <3>2. SizeLoop[n - 1] + (1 + k) = i + k
      BY <1>2, <3>1
    <3>3. Entry(nodes[n])[1 + k] = CharPiece(name, k)
      BY <1>1, EntryFacts DEF leng
    <3> QED
      BY <1>3, <3>1, <3>2, <3>3
  <2> QED
    BY <2>1
<1>6. buff[i + leng + 1] = FilePiece(nodes[n])
  <2> HIDE DEF leng
  <2>1. 2 + leng \in 1 .. 2 + leng
    BY <1>1
  <2>2. SizeLoop[n - 1] + (2 + leng) = i + leng + 1
    BY <1>1, <1>2
  <2>3. Entry(nodes[n])[2 + leng] = FilePiece(nodes[n])
    BY <1>1, EntryFacts DEF leng
  <2> QED
    BY <1>3, <2>1, <2>2, <2>3
<1> HIDE DEF buff, name, leng, i
<1>8. buff[i].kind = "leng" /\ buff[i].leng = leng
  BY <1>4 DEF LengPiece, leng
<1>9. /\ buff[i + leng + 1].kind = "file"
      /\ buff[i + leng + 1].inode = nodes[n].inode
      /\ buff[i + leng + 1].size = nodes[n].size
  BY <1>6 DEF FilePiece
<1>10. Spells(buff, i, leng, name)
  BY <1>5 DEF Spells, leng
<1>11. ASSUME NEW other \in Names, Spells(buff, i, leng, other) PROVE other = name
  <2>1. CASE leng = 0
    BY <1>1, <1>11, <2>1, OneEmptyName DEF Spells, leng
  <2>2. CASE leng # 0
    <3>1. 1 \in 1 .. leng
      BY <1>1, <2>2
    <3>2. CharPiece(other, 1) = CharPiece(name, 1)
      BY <1>5, <1>11, <3>1 DEF Spells
    <3> QED
      BY <3>2 DEF CharPiece
  <2> QED
    BY <2>1, <2>2
<1>12. (CHOOSE nm \in Names : Spells(buff, i, leng, nm)) = name
  BY <1>1, <1>10, <1>11
<1>13. i \in Nat /\ ~(i > Len(buff)) /\ i + leng + 1 <= Len(buff) /\ i + leng + 2 = SizeLoop[n] + 1
  BY <1>1, <1>2 DEF i
<1>14. Turn(buff, at) = [place |-> i + leng + 2,
                         lines |-> Append(at.lines, [name |-> name, inode |-> nodes[n].inode,
                                                     size |-> nodes[n].size])]
  <2>1. at.place = i
    BY DEF i
  <2>2. \E nm \in Names : Spells(buff, i, leng, nm)
    BY <1>1, <1>10
  <2> QED
    BY <1>8, <1>9, <1>12, <1>13, <2>1, <2>2 DEF Turn
<1> QED
  BY <1>13, <1>14 DEF Shown, buff, name

(* list_fs_info, turn by turn: after k turns it has printed the first k     *)
(* files, and after as many turns as there are files it is at the end.      *)
LEMMA ListLoopFacts ==
  ASSUME nodes \in Seq(Node), root
  PROVE  LET buff == FsGetdir[1]
         IN \A k \in 0 .. Len(buff) :
              ListLoop(buff)[k] =
                LET m == IF k <= Len(nodes) THEN k ELSE Len(nodes)
                IN [place |-> SizeLoop[m] + 1,
                    lines |-> [j \in 1 .. m |-> Shown(nodes[j])]]
<1> DEFINE buff == FsGetdir[1]
           N == Len(nodes)
           M == Len(buff)
           Done(k) == IF k <= N THEN k ELSE N
           First(m) == [j \in 1 .. m |-> Shown(nodes[j])]
           At(k) == [place |-> SizeLoop[Done(k)] + 1, lines |-> First(Done(k))]
<1>1. N \in Nat /\ M \in Nat /\ M = SizeLoop[N] /\ N <= M
  BY AnswerFacts, PackedSize
<1>2. At(0) = [place |-> 1, lines |-> <<>>]
  <2>1. Done(0) = 0 /\ SizeLoop[0] = 0
    BY <1>1, SizeLoopFacts
  <2>2. First(0) = <<>>
    OBVIOUS
  <2> HIDE DEF Done, First
  <2> QED
    BY <2>1, <2>2
<1>3. ASSUME NEW k \in 1 .. M PROVE At(k) = Turn(buff, At(k - 1))
  <2>1. CASE k <= N
    <3>1. Done(k) = k /\ Done(k - 1) = k - 1 /\ k \in 1 .. N
      BY <1>1, <2>1
    <3>2. At(k - 1).place = SizeLoop[k - 1] + 1 /\ At(k - 1).lines = First(k - 1)
      BY <3>1
    <3>3. Turn(buff, At(k - 1)) =
            [place |-> SizeLoop[k] + 1, lines |-> Append(First(k - 1), Shown(nodes[k]))]
      <4> HIDE DEF At, First
      <4> QED
        BY <3>1, <3>2, TurnFacts
    <3>4. Append(First(k - 1), Shown(nodes[k])) = First(k)
      <4> DEFINE Line(j) == Shown(nodes[j])
      <4>1. Append([j \in 1 .. k - 1 |-> Line(j)], Line(k)) = [j \in 1 .. k |-> Line(j)]
        <5> HIDE DEF Line
        <5> QED
          OBVIOUS
      <4> QED
        BY <4>1
    <3> HIDE DEF First, Done
    <3> QED
      BY <3>1, <3>3, <3>4
  <2>2. CASE N < k
    <3>1. Done(k) = N /\ Done(k - 1) = N
      BY <1>1, <2>2
    <3>2. At(k) = At(k - 1)
      BY <3>1
    <3>3. At(k - 1).place = SizeLoop[N] + 1
      BY <3>1
    <3>4. At(k - 1).place > Len(buff)
      BY <1>1, <3>3
    <3> HIDE DEF At
    <3> QED
      BY <3>2, <3>4 DEF Turn
  <2> QED
    BY <1>1, <2>1, <2>2
<1> DEFINE g == [k \in 0 .. M |-> At(k)]
<1>4. g = [k \in 0 .. M |->
             IF k = 0 THEN [place |-> 1, lines |-> <<>>] ELSE Turn(buff, g[k - 1])]
  <2>1. \A k \in 1 .. M : g[k - 1] = At(k - 1)
    BY <1>1
  <2>2. ASSUME NEW k \in 0 .. M
        PROVE  At(k) = IF k = 0 THEN [place |-> 1, lines |-> <<>>] ELSE Turn(buff, g[k - 1])
    <3> HIDE DEF g, At
    <3> QED
      BY <1>1, <1>2, <1>3, <2>1
  <2> HIDE DEF At
  <2> QED
    BY <2>2
<1> DEFINE f == ListLoop(buff)
<1>5. f = [k \in 0 .. M |->
             IF k = 0 THEN [place |-> 1, lines |-> <<>>] ELSE Turn(buff, f[k - 1])]
  <2> HIDE DEF g, buff
  <2> QED
    BY <1>4 DEF ListLoop
<1> HIDE DEF f, g, At, buff
<1>6. f[0] = At(0) /\ \A k \in 1 .. M : f[k] = Turn(buff, f[k - 1])
  BY <1>1, <1>2, <1>5
<1> DEFINE S == {k \in 0 .. M : f[k] = At(k)}
<1>7. 0 \in S
  BY <1>1, <1>6
<1>8. ASSUME NEW k \in 1 .. M, k - 1 \in S PROVE k \in S
  BY <1>1, <1>3, <1>6, <1>8
<1> HIDE DEF S, M
<1>9. 0 .. M \subseteq S
  BY <1>1, <1>7, <1>8, BoundedInduction
<1> QED
  BY <1>9 DEF S, f, At, M, buff

(* Unpacking what was packed: drw prints every table as it is.              *)
LEMMA TableIsListed ==
  ASSUME nodes \in Seq(Node), root
  PROVE  Listed(FsGetdir[1]) = [j \in DOMAIN nodes |-> Shown(nodes[j])]
<1> DEFINE buff == FsGetdir[1]
<1>1. Len(nodes) \in Nat /\ DOMAIN nodes = 1 .. Len(nodes)
  OBVIOUS
<1>2. Len(buff) \in Nat /\ Len(nodes) <= Len(buff)
  BY <1>1, AnswerFacts, PackedSize
<1>3. ListLoop(buff)[Len(buff)] =
        [place |-> SizeLoop[Len(nodes)] + 1,
         lines |-> [j \in 1 .. Len(nodes) |-> Shown(nodes[j])]]
  <2>1. Len(buff) \in 0 .. Len(buff)
    BY <1>2
  <2>2. (IF Len(buff) <= Len(nodes) THEN Len(buff) ELSE Len(nodes)) = Len(nodes)
    BY <1>1, <1>2
  <2> QED
    BY <2>1, <2>2, ListLoopFacts
<1> QED
  BY <1>1, <1>3 DEF Listed

(* What `list' prints is the table, in every reachable state: each file     *)
(* once, in its order, with its inode and its size (list_fs_info).          *)
THEOREM ListingIsTrue == Spec => []ListingShowsTable
<1>1. TableInv => ListingShowsTable
  BY TypeFacts, TableIsListed DEF ListingShowsTable, AtRest
<1> QED
  BY TableInvariance, <1>1, PTL
=============================================================================
