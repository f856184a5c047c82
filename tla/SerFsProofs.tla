---------------------------- MODULE SerFsProofs ----------------------------
(***************************************************************************)
(* Proofs about SerFs: the invariants hold, the ids given out are fresh,   *)
(* and the table keeps the promise of ChunkOwners, for every set of names, *)
(* every bound and every way a save interleaves with the handlers.         *)
(*                                                                         *)
(* The argument is one inductive invariant, IInv.  Complete records on     *)
(* disk and in the buffer of a save mirror the files at the same places of *)
(* the table, so a restart can only forget chunks, and the largest id it   *)
(* reads back bounds every id that is still in use.                        *)
(***************************************************************************)
EXTENDS SerFs, WellFoundedInduction, TLAPS

(* A set of places that is not empty has a last one. *)
LEMMA LastPlace ==
  ASSUME NEW m \in Nat, NEW S, S \subseteq 1..m, S # {}
  PROVE  \E j \in S : \A k \in S : k <= j
<1> DEFINE R == OpToRel(<, Nat)
           T == {n \in Nat : m - n \in S}
<1>1. \A x, y \in Nat : x < y => <<x, y>> \in R
  BY DEF OpToRel
<1>2. T # {} /\ T \subseteq Nat
  <2>1. PICK j \in S : TRUE
    OBVIOUS
  <2>2. m - j \in Nat /\ m - (m - j) = j
    BY <2>1
  <2> QED
    BY <2>1, <2>2
<1>3. PICK n \in T : \A y \in T : ~(<<y, n>> \in R)
  <2>1. IsWellFoundedOn(R, Nat)
    BY NatLessThanWellFounded
  <2> HIDE DEF R, T
  <2> QED
    BY <1>2, <2>1, WFMin
<1>4. n \in Nat /\ m - n \in S
  BY <1>3
<1>5. ASSUME NEW k \in S PROVE k <= m - n
  <2>1. m - k \in Nat /\ m - (m - k) = k /\ k \in Nat
    OBVIOUS
  <2>2. m - k \in T
    BY <2>1
  <2>3. ~(m - k < n)
    BY <1>1, <1>3, <1>4, <2>1, <2>2
  <2> QED
    BY <1>4, <2>1, <2>3
<1> QED
  BY <1>4, <1>5

(* What a node and a record hold. *)
LEMMA NodeFields ==
  ASSUME NEW nd \in Node
  PROVE  /\ nd.name \in Names /\ nd.inode \in Nat /\ nd.size \in Nat
         /\ nd.chunks \in Seq(Nat) /\ Len(nd.chunks) \in Nat
         /\ nd.chunks = <<>> <=> Len(nd.chunks) = 0
         /\ nd.chunks # <<>> => nd.chunks[1] \in Nat
<1>1. nd.name \in Names /\ nd.inode \in Nat /\ nd.size \in Nat /\ nd.chunks \in Seq(Nat)
  BY DEF Node
<1> QED
  BY <1>1

(* A node whose chunks are replaced (add_chunkid_to_fs, load_config) stays a node. *)
LEMMA WithChunks ==
  ASSUME NEW nd \in Node, NEW c \in Seq(Nat)
  PROVE  LET new == [nd EXCEPT !.chunks = c]
         IN /\ new \in Node /\ new.chunks = c
            /\ new.name = nd.name /\ new.inode = nd.inode /\ new.size = nd.size
  BY DEF Node

(* A node whose size is replaced (change_file_size) stays a node. *)
LEMMA WithSize ==
  ASSUME NEW nd \in Node, NEW size \in Nat
  PROVE  LET new == [nd EXCEPT !.size = size]
         IN /\ new \in Node /\ new.size = size
            /\ new.name = nd.name /\ new.inode = nd.inode /\ new.chunks = nd.chunks
  BY DEF Node

(* What is in a sequence of at most one node. *)
LEMMA MaybeNodeElement ==
  ASSUME NEW s \in MaybeNode, s # <<>>
  PROVE  s[1] \in Node /\ s = <<s[1]>>
  BY SMTT(30) DEF MaybeNode

(* The node of a record that is not the root's. *)
LEMMA RecordNode ==
  ASSUME NEW r \in RecordType, r.node # <<>>
  PROVE  r.node[1] \in Node /\ r.node = <<r.node[1]>>
  BY MaybeNodeElement DEF RecordType

(* The record of a node is a record, and holds that node. *)
LEMMA NodeRecord ==
  ASSUME NEW nd \in Node, NEW nl \in BOOLEAN
  PROVE  /\ Record(nd, nl) \in RecordType /\ Record(nd, nl).node # <<>>
         /\ Record(nd, nl).node[1] = nd /\ Record(nd, nl).nl = nl
         /\ Record(nd, nl).torn = FALSE
         /\ <<nd>> \in MaybeNode
<1>1. <<nd>> \in Seq(Node) /\ Len(<<nd>>) = 1 /\ <<nd>> # <<>> /\ <<nd>>[1] = nd
  OBVIOUS
<1> QED
  BY <1>1 DEF Record, RecordType, MaybeNode

(* The node that fs_creat_file makes, without size or chunks. *)
LEMMA NewNodeType ==
  ASSUME NEW n \in Names, NEW inode \in Nat
  PROVE  NewNode(n, inode) \in Node
  BY DEF NewNode, Node

(* The empty sequence holds at most one node. *)
LEMMA EmptyMaybe == <<>> \in MaybeNode
  BY DEF MaybeNode

(* The typed facts that the steps below build on. *)
LEMMA TypeFacts ==
  ASSUME TableInv
  PROVE  /\ nodes \in Seq(Node) /\ Len(nodes) \in Nat /\ DOMAIN nodes = 1..Len(nodes)
         /\ config \in Seq(RecordType) /\ Len(config) \in Nat
         /\ DOMAIN config = 1..Len(config)
         /\ image \in Seq(RecordType) /\ Len(image) \in Nat /\ DOMAIN image = 1..Len(image)
         /\ \A j \in DOMAIN nodes : nodes[j] \in Node
         /\ \A j \in DOMAIN config : config[j] \in RecordType
         /\ \A j \in DOMAIN image : image[j] \in RecordType
         /\ inode_next \in Nat /\ next_chunkid \in Nat /\ pos \in Nat /\ pos < Wrap
         /\ creating \in MaybeNode /\ child \in MaybeNode
<1>1. /\ nodes \in Seq(Node) /\ config \in Seq(RecordType) /\ image \in Seq(RecordType)
      /\ inode_next \in Nat /\ next_chunkid \in Nat /\ pos \in 0..(Wrap - 1)
      /\ creating \in MaybeNode /\ child \in MaybeNode
  BY DEF TableInv, TypeOK
<1>2. pos \in Nat /\ pos < Wrap
  BY <1>1, BoundsAssumption
<1> QED
  BY <1>1, <1>2

(* All that the table, the disk and the buffer hold are nodes. *)
LEMMA EverywhereType ==
  ASSUME TableInv
  PROVE  Everywhere \subseteq Node
<1>1. Loading \subseteq Node
  BY TypeFacts DEF Loading, MaybeNode
<1> QED
  BY <1>1, TypeFacts, RecordNode DEF Everywhere, InTable, Loading, FilesIn

(* What Append does to the places of a sequence. *)
LEMMA AppendFacts ==
  ASSUME NEW S, NEW s \in Seq(S), NEW e \in S
  PROVE  /\ Append(s, e) \in Seq(S)
         /\ Len(s) \in Nat /\ Len(Append(s, e)) = Len(s) + 1
         /\ DOMAIN s = 1..Len(s) /\ DOMAIN Append(s, e) = 1..(Len(s) + 1)
         /\ \A j \in DOMAIN s : j \in DOMAIN Append(s, e) /\ Append(s, e)[j] = s[j] /\ j # Len(s) + 1
         /\ Append(s, e)[Len(s) + 1] = e /\ Len(s) + 1 \in DOMAIN Append(s, e)
         /\ \A j \in DOMAIN Append(s, e) : j \in DOMAIN s \/ j = Len(s) + 1
  OBVIOUS

(* What the concatenation of two sequences holds at each place. *)
LEMMA ConcatFacts ==
  ASSUME NEW S, NEW s \in Seq(S), NEW t \in Seq(S)
  PROVE  /\ s \o t \in Seq(S) /\ Len(s) \in Nat /\ Len(t) \in Nat
         /\ Len(s \o t) = Len(s) + Len(t)
         /\ \A k \in 1 .. Len(s) : (s \o t)[k] = s[k]
         /\ \A k \in 1 .. Len(t) : (s \o t)[Len(s) + k] = t[k]
         /\ DOMAIN (s \o t) = 1 .. (Len(s) + Len(t))
  OBVIOUS

(* A step that brings at most one new file into the table and its copies.   *)
LEMMA NewFile ==
  ASSUME TableInv, NEW nd \in Node, Everywhere' \subseteq Everywhere \cup {nd},
         joined' = joined,
         inode_next' \in Nat, inode_next <= inode_next',
         next_chunkid' \in Nat, next_chunkid <= next_chunkid',
         ~joined => /\ nd.inode <= inode_next' /\ Len(nd.chunks) <= 1
                    /\ nd.chunks # <<>> => nd.chunks[1] <= next_chunkid'
  PROVE  IdsBounded'
<1>2. ASSUME ~joined, NEW f \in Everywhere
      PROVE  /\ f.inode <= inode_next' /\ Len(f.chunks) <= 1
             /\ f.chunks # <<>> => f.chunks[1] <= next_chunkid'
  <2>1. f \in Node /\ inode_next \in Nat /\ next_chunkid \in Nat
    BY EverywhereType, TypeFacts
  <2>2. /\ f.inode <= inode_next /\ Len(f.chunks) <= 1
        /\ f.chunks # <<>> => f.chunks[1] <= next_chunkid
    BY <1>2 DEF TableInv, IdsBounded
  <2> QED
    BY <2>1, <2>2, NodeFields
<1>3. RootInode <= inode_next' /\ FirstChunk <= next_chunkid'
  BY RootAssumption, TypeFacts DEF TableInv, IdsBounded, FirstChunk
<1> QED
  BY <1>2, <1>3 DEF IdsBounded

(* A step that brings none. *)
LEMMA NoNewFile ==
  ASSUME TableInv, Everywhere' \subseteq Everywhere,
         UNCHANGED <<joined, inode_next, next_chunkid>>
  PROVE  IdsBounded'
  BY DEF TableInv, IdsBounded

(* A server that was just started satisfies the invariant. *)
LEMMA InitTableInv == Init => TableInv
<1> SUFFICES ASSUME Init PROVE TableInv
  OBVIOUS
<1> USE DEF Init
<1>1. TypeOK
  <2>1. RootRecord \in RecordType
    BY EmptyMaybe DEF RootRecord, RecordType
  <2>2. config \in Seq(RecordType)
    BY <2>1
  <2>3. up \in BOOLEAN /\ root \in BOOLEAN /\ change \in BOOLEAN /\ joined \in BOOLEAN
    OBVIOUS
  <2>4. inode_next \in Nat /\ next_chunkid \in Nat /\ pos \in 0..(Wrap - 1)
    BY RootAssumption, BoundsAssumption DEF FirstChunk
  <2>5. nodes \in Seq(Node) /\ image \in Seq(RecordType)
    OBVIOUS
  <2> QED
    BY <2>2, <2>3, <2>4, <2>5, EmptyMaybe DEF TypeOK
<1>2. ConfigShape /\ ImageShape /\ ImageMirrors /\ CreatingShape /\ ChunksDisjoint
  BY DEF ConfigShape, ImageShape, ImageMirrors, CreatingShape, ChunksDisjoint, RootRecord
<1>3. DiskBehindTable
  BY DEF DiskBehindTable
<1>4. IdsBounded
  BY RootAssumption DEF IdsBounded, Everywhere, InTable, Loading, FilesIn, RootRecord, FirstChunk
<1> QED
  BY <1>1, <1>2, <1>3, <1>4 DEF TableInv

(* Records go on mirroring the table when files keep their place, name and  *)
(* inode number, and their chunk if they have one.                          *)
LEMMA MirrorsKept ==
  ASSUME TableInv, UNCHANGED <<config, saver, image, pos, child, joined>>,
         Len(nodes') \in Nat, Len(nodes) <= Len(nodes'),
         \A j \in DOMAIN nodes :
           /\ j \in DOMAIN nodes'
           /\ nodes'[j].name = nodes[j].name /\ nodes'[j].inode = nodes[j].inode
           /\ nodes[j].chunks = <<>> \/ nodes'[j].chunks = nodes[j].chunks
  PROVE  ImageMirrors' /\ DiskBehindTable'
<1>1. \A rec, j : Mirrors(rec, j) => Mirrors(rec, j)'
  BY DEF Mirrors, IsOlder
<1>2. DiskBehindTable'
  BY <1>1 DEF TableInv, DiskBehindTable
<1>3. saver = "copy" => /\ Len(image) >= pos + 1
                        /\ Len(image) # pos + 1 => Len(nodes') >= Wrap
  BY TypeFacts, BoundsAssumption DEF TableInv, ImageMirrors
<1>4. /\ child # <<>> => saver = "copy" /\ pos < Len(nodes')
      /\ ~joined /\ child # <<>> => IsOlder(child[1], pos + 1)'
  <2>1. \A nd, j : IsOlder(nd, j) => /\ j \in DOMAIN nodes'
                                     /\ nd.name = nodes'[j].name /\ nd.inode = nodes'[j].inode
                                     /\ nd.chunks = <<>> \/ nd.chunks = nodes'[j].chunks
    BY DEF IsOlder
  <2>2. ~joined /\ child # <<>> => IsOlder(child[1], pos + 1)'
    BY <2>1 DEF TableInv, ImageMirrors, IsOlder
  <2> QED
    BY <2>2, TypeFacts DEF TableInv, ImageMirrors
<1> QED
  BY <1>1, <1>2, <1>3, <1>4 DEF TableInv, ImageMirrors

-----------------------------------------------------------------------------
(* The handlers *)

(* A file in the making is at the end of the table and owns nothing, so it  *)
(* disturbs no place that a record mirrors.                                 *)
LEMMA CreatNodeStep ==
  ASSUME TableInv, NEW n \in Names, CreatNode(n)
  PROVE  TableInv'
<1>0. PICK nd \in Node : nd = NewNode(n, inode_next + 1)
  BY NewNodeType, TypeFacts
<1>1. nd.chunks = <<>> /\ nd.inode = inode_next + 1
  BY <1>0 DEF NewNode
<1>2. /\ inode_next' = inode_next + 1 /\ nodes' = Append(nodes, nd)
      /\ creating' = IF root THEN <<nd>> ELSE <<>>
      /\ UNCHANGED <<up, root, next_chunkid, change, config, saver, image, pos, child, joined>>
  BY <1>0 DEF CreatNode, sav
<1>3. /\ nodes' \in Seq(Node) /\ Len(nodes') = Len(nodes) + 1 /\ nodes'[Len(nodes) + 1] = nd
      /\ \A j \in DOMAIN nodes : j \in DOMAIN nodes' /\ nodes'[j] = nodes[j]
      /\ \A j \in DOMAIN nodes' : j \in DOMAIN nodes \/ j = Len(nodes) + 1
  BY <1>2, TypeFacts, AppendFacts
<1>4. TypeOK'
  <2>1. creating' \in MaybeNode
    BY <1>2, NodeRecord, EmptyMaybe
  <2>2. inode_next' \in Nat
    BY <1>2, TypeFacts
  <2> QED
    BY <1>2, <1>3, <2>1, <2>2 DEF TableInv, TypeOK
<1>5. ConfigShape' /\ ImageShape'
  BY <1>2 DEF TableInv, ConfigShape, ImageShape
<1>6. ImageMirrors' /\ DiskBehindTable'
  BY <1>2, <1>3, TypeFacts, MirrorsKept
<1>7. CreatingShape'
  <2>1. creating' # <<>> => root /\ creating'[1] = nd
    BY <1>2
  <2> QED
    BY <1>1, <1>2, <2>1, TypeFacts DEF CreatingShape
<1>8. IdsBounded'
  <2>1. Everywhere' \subseteq Everywhere \cup {nd}
    BY <1>2, <1>3 DEF Everywhere, InTable, Loading, FilesIn
  <2>2. /\ inode_next' \in Nat /\ inode_next <= inode_next' /\ nd.inode <= inode_next'
        /\ next_chunkid' \in Nat /\ next_chunkid <= next_chunkid'
    BY <1>1, <1>2, TypeFacts
  <2> QED
    BY <1>1, <1>2, <2>1, <2>2, NewFile
<1>9. ChunksDisjoint'
  BY <1>1, <1>2, <1>3 DEF TableInv, ChunksDisjoint
<1> QED
  BY <1>4, <1>5, <1>6, <1>7, <1>8, <1>9 DEF TableInv

(* save_file_to_config preserves the invariant. *)
LEMMA CreatAppendStep ==
  ASSUME TableInv, CreatAppend
  PROVE  TableInv'
<1>1. /\ creating # <<>> /\ creating' = <<>>
      /\ UNCHANGED <<up, root, nodes, inode_next, next_chunkid, change,
                     saver, image, pos, child, joined>>
  BY DEF CreatAppend, sav
<1>2. PICK nd \in Node : creating = <<nd>>
  BY <1>1, TypeFacts, MaybeNodeElement
<1>3. nd.chunks = <<>> /\ nd.inode <= inode_next /\ creating[1] = nd
  BY <1>1, <1>2 DEF TableInv, CreatingShape
<1>4. PICK r \in RecordType :
        r.node # <<>> /\ r.node[1] = nd /\ r.nl = FALSE /\ r = Record(nd, FALSE)
        /\ r.torn = FALSE
  BY NodeRecord
<1>5. CreatingShape'
  BY <1>1 DEF CreatingShape
<1>6. CASE config' = config
  <2>1. TypeOK'
    BY <1>1, <1>6, EmptyMaybe DEF TableInv, TypeOK
  <2>2. Everywhere' = Everywhere
    BY <1>1, <1>6 DEF Everywhere, InTable, Loading
  <2>3. ConfigShape' /\ ImageShape' /\ ImageMirrors' /\ ChunksDisjoint' /\ DiskBehindTable'
    BY <1>1, <1>6 DEF TableInv, ConfigShape, ImageShape, ImageMirrors, Mirrors, IsOlder,
                      ChunksDisjoint, DiskBehindTable
  <2> QED
    BY <1>1, <1>5, <2>1, <2>2, <2>3, NoNewFile DEF TableInv
<1>7. CASE config' = Append(config, r)
  <2>1. /\ config' \in Seq(RecordType) /\ Len(config) \in Nat
        /\ config'[Len(config) + 1] = r
        /\ \A j \in DOMAIN config : j \in DOMAIN config' /\ config'[j] = config[j] /\ j < Len(config) + 1
        /\ \A j \in DOMAIN config' : j \in DOMAIN config \/ j = Len(config) + 1
        /\ DOMAIN config \subseteq Nat
    BY <1>7, TypeFacts, AppendFacts
  <2>2. TypeOK' /\ ImageMirrors' /\ ChunksDisjoint'
    BY <1>1, <2>1, EmptyMaybe
    DEF TableInv, TypeOK, ImageMirrors, Mirrors, IsOlder, ChunksDisjoint
  <2>7. ImageShape'
    <3>1. saver \in {"copy", "close"} => \A j \in DOMAIN config' : ~config'[j].nl
      BY <1>4, <2>1 DEF TableInv, ImageShape
    <3> QED
      BY <1>1, <3>1 DEF TableInv, ImageShape
  <2>3. ConfigShape'
    <3>1. ASSUME NEW j \in DOMAIN config', NEW k \in DOMAIN config', j < k, config'[k].nl
          PROVE  config'[j].nl
      <4>1. k \in DOMAIN config
        BY <1>4, <2>1, <3>1
      <4>2. j \in DOMAIN config
        BY <2>1, <3>1, <4>1
      <4> QED
        BY <2>1, <3>1, <4>1, <4>2 DEF TableInv, ConfigShape
    <3>2. ASSUME NEW j \in DOMAIN config'
          PROVE
            /\ j > 1 \/ ~config'[j].nl => config'[j].node # <<>>
            /\ j = 1 /\ config'[j].nl => root' /\ config'[j].node = <<>>
            /\ ~config'[j].nl => config'[j].node[1].chunks = <<>>
            /\ config'[j].torn => ~config'[j].nl
      <4>1. CASE j \in DOMAIN config
        BY <1>1, <2>1, <4>1 DEF TableInv, ConfigShape
      <4>2. CASE j = Len(config) + 1
        BY <1>3, <1>4, <2>1, <4>2
      <4> QED
        BY <2>1, <4>1, <4>2
    <3> QED
      BY <3>1, <3>2 DEF ConfigShape
  <2>4. DiskBehindTable'
    <3>1. \A rec, j : Mirrors(rec, j) => Mirrors(rec, j)'
      BY <1>1 DEF Mirrors, IsOlder
    <3>2. ASSUME ~joined, NEW j \in DOMAIN config', config'[j].nl, j > 1
          PROVE  Mirrors(config[j], j - 1) /\ config'[j] = config[j]
      <4>1. j \in DOMAIN config
        BY <1>4, <2>1, <3>2
      <4> QED
        BY <2>1, <3>2, <4>1 DEF TableInv, DiskBehindTable
    <3> QED
      BY <1>1, <3>1, <3>2 DEF DiskBehindTable
  <2>5. Everywhere' \subseteq Everywhere \cup {nd}
    BY ZenonT(30), <1>1, <1>4, <2>1 DEF Everywhere, InTable, Loading, FilesIn
  <2>6. IdsBounded'
    <3>1. Len(nd.chunks) <= 1
      BY <1>3
    <3>2. inode_next \in Nat /\ next_chunkid \in Nat
      BY TypeFacts
    <3> QED
      BY <1>1, <1>3, <2>5, <3>1, <3>2, NewFile
  <2> QED
    BY <1>5, <2>2, <2>3, <2>4, <2>6, <2>7 DEF TableInv
<1> QED
  BY <1>2, <1>4, <1>6, <1>7 DEF CreatAppend

(* Putting another node in one place of the table. *)
LEMMA ExceptFacts ==
  ASSUME TableInv, NEW i \in DOMAIN nodes, NEW nd \in Node, nodes' = [nodes EXCEPT ![i] = nd]
  PROVE  /\ nodes' \in Seq(Node) /\ DOMAIN nodes' = DOMAIN nodes /\ Len(nodes') = Len(nodes)
         /\ nodes'[i] = nd
         /\ \A j \in DOMAIN nodes : j # i => nodes'[j] = nodes[j]
         /\ InTable' \subseteq InTable \cup {nd}
<1>1. /\ nodes' \in Seq(Node) /\ DOMAIN nodes' = DOMAIN nodes /\ Len(nodes') = Len(nodes)
      /\ nodes'[i] = nd
      /\ \A j \in DOMAIN nodes : j # i => nodes'[j] = nodes[j]
  BY TypeFacts
<1> QED
  BY <1>1 DEF InTable

(* The file had no chunk, so every record of it has none: all still mirror. *)
LEMMA AddChunkStep ==
  ASSUME TableInv, NEW i \in DOMAIN nodes, AddChunk(i)
  PROVE  TableInv'
<1>1. /\ next_chunkid' = next_chunkid + 1
      /\ Len(nodes[i].chunks) < 1 /\ change' = TRUE
      /\ nodes' = [nodes EXCEPT ![i].chunks = Append(@, next_chunkid')]
      /\ UNCHANGED <<up, root, inode_next, creating, config, saver, image, pos, child, joined>>
  BY DEF AddChunk, sav, indx
<1>2. nodes[i] \in Node /\ nodes[i] \in Everywhere
  BY TypeFacts DEF Everywhere, InTable, Loading
<1>3. nodes[i].chunks = <<>>
  BY <1>1, <1>2, NodeFields
<1>4. PICK nd \in Node : /\ nd = [nodes[i] EXCEPT !.chunks = <<next_chunkid + 1>>]
                         /\ nd.name = nodes[i].name /\ nd.inode = nodes[i].inode
                         /\ nd.size = nodes[i].size /\ nd.chunks = <<next_chunkid + 1>>
  <2>1. <<next_chunkid + 1>> \in Seq(Nat)
    BY TypeFacts
  <2> QED
    BY <1>2, <2>1, WithChunks
<1>5. nodes' = [nodes EXCEPT ![i] = nd]
  BY <1>1, <1>3, <1>4
<1>6. /\ nodes' \in Seq(Node) /\ DOMAIN nodes' = DOMAIN nodes /\ Len(nodes') = Len(nodes)
      /\ nodes'[i] = nd /\ \A j \in DOMAIN nodes : j # i => nodes'[j] = nodes[j]
      /\ InTable' \subseteq InTable \cup {nd}
  BY <1>5, ExceptFacts
<1>7. next_chunkid' \in Nat /\ next_chunkid <= next_chunkid' /\ inode_next \in Nat
  BY <1>1, TypeFacts
<1>8. TypeOK'
  BY <1>1, <1>6, <1>7 DEF TableInv, TypeOK
<1>9. ConfigShape' /\ ImageShape' /\ CreatingShape'
  BY <1>1 DEF TableInv, ConfigShape, ImageShape, CreatingShape
<1>10. ImageMirrors' /\ DiskBehindTable'
  BY <1>1, <1>3, <1>4, <1>6, TypeFacts, MirrorsKept
<1>11. IdsBounded'
  <2>1. Everywhere' \subseteq Everywhere \cup {nd}
    BY <1>1, <1>6 DEF Everywhere, Loading
  <2>2. Len(nd.chunks) = 1 /\ nd.chunks[1] = next_chunkid' /\ nd.chunks # <<>>
    BY <1>1, <1>4
  <2>3. ~joined => nd.inode <= inode_next
    BY <1>2, <1>4 DEF TableInv, IdsBounded
  <2>4. ~joined => /\ nd.inode <= inode_next' /\ Len(nd.chunks) <= 1
                   /\ nd.chunks # <<>> => nd.chunks[1] <= next_chunkid'
    BY <1>1, <1>7, <2>2, <2>3
  <2>5. inode_next' \in Nat /\ inode_next <= inode_next'
    BY <1>1, <1>7
  <2> QED
    BY <1>1, <1>7, <2>1, <2>2, <2>4, <2>5, NewFile
<1>12. ChunksDisjoint'
  <2>1. ASSUME ~joined, NEW j \in DOMAIN nodes, NEW a \in DOMAIN nodes[j].chunks
        PROVE  nodes[j].chunks[a] # next_chunkid + 1
    <3>1. nodes[j] \in Node /\ nodes[j] \in Everywhere
      BY TypeFacts DEF Everywhere, InTable, Loading
    <3>2. /\ Len(nodes[j].chunks) <= 1
          /\ nodes[j].chunks # <<>> => nodes[j].chunks[1] <= next_chunkid
      BY <2>1, <3>1 DEF TableInv, IdsBounded
    <3>3. nodes[j].chunks # <<>> /\ a = 1
      BY <2>1, <3>1, <3>2, NodeFields
    <3> QED
      BY <3>1, <3>2, <3>3, NodeFields, TypeFacts
  <2>2. DOMAIN nd.chunks = {1} /\ nd.chunks[1] = next_chunkid + 1
    BY <1>4
  <2>3. \A j \in DOMAIN nodes : ~joined /\ j # i =>
          \A a \in DOMAIN nodes'[j].chunks : nodes'[j].chunks[a] # next_chunkid + 1
    BY <1>6, <2>1
  <2>4. \A j, k \in DOMAIN nodes : ~joined /\ j # k /\ j # i /\ k # i =>
          \A a \in DOMAIN nodes'[j].chunks, b \in DOMAIN nodes'[k].chunks :
            nodes'[j].chunks[a] # nodes'[k].chunks[b]
    BY <1>6 DEF TableInv, ChunksDisjoint
  <2> QED
    BY <1>1, <1>6, <2>2, <2>3, <2>4 DEF ChunksDisjoint
<1> QED
  BY <1>8, <1>9, <1>10, <1>11, <1>12 DEF TableInv

(* change_file_size preserves the invariant. *)
LEMMA ChangeSizeStep ==
  ASSUME TableInv, NEW i \in DOMAIN nodes, NEW size \in Sizes, ChangeSize(i, size)
  PROVE  TableInv'
<1>1. /\ Len(nodes[i].chunks) = 1 /\ change' = TRUE
      /\ nodes' = [nodes EXCEPT ![i].size = size]
      /\ UNCHANGED <<up, root, inode_next, next_chunkid, creating, config,
                     saver, image, pos, child, joined>>
  BY DEF ChangeSize, sav, indx
<1>2. nodes[i] \in Node /\ nodes[i] \in Everywhere /\ size \in Nat
  BY TypeFacts, SizesAssumption DEF Everywhere, InTable, Loading
<1>3. PICK nd \in Node : /\ nd = [nodes[i] EXCEPT !.size = size]
                         /\ nd.name = nodes[i].name /\ nd.inode = nodes[i].inode
                         /\ nd.chunks = nodes[i].chunks
  BY <1>2, WithSize
<1>4. nodes' = [nodes EXCEPT ![i] = nd]
  BY <1>1, <1>3
<1>5. /\ nodes' \in Seq(Node) /\ DOMAIN nodes' = DOMAIN nodes /\ Len(nodes') = Len(nodes)
      /\ nodes'[i] = nd /\ \A j \in DOMAIN nodes : j # i => nodes'[j] = nodes[j]
      /\ InTable' \subseteq InTable \cup {nd}
  BY <1>4, ExceptFacts
<1>6. TypeOK'
  BY <1>1, <1>5 DEF TableInv, TypeOK
<1>7. ConfigShape' /\ ImageShape' /\ CreatingShape'
  BY <1>1 DEF TableInv, ConfigShape, ImageShape, CreatingShape
<1>8. ImageMirrors' /\ DiskBehindTable'
  BY <1>1, <1>3, <1>5, TypeFacts, MirrorsKept
<1>9. IdsBounded'
  <2>1. Everywhere' \subseteq Everywhere \cup {nd}
    BY <1>1, <1>5 DEF Everywhere, Loading
  <2>2. nd.chunks # <<>>
    <3>1. Len(nodes[i].chunks) # 0
      BY <1>1
    <3>2. nodes[i].chunks # <<>>
      BY <1>2, <3>1, NodeFields
    <3> QED
      BY <1>3, <3>2
  <2>3. ~joined => /\ nd.inode <= inode_next /\ Len(nd.chunks) <= 1
                   /\ nd.chunks # <<>> => nd.chunks[1] <= next_chunkid
    BY <1>2, <1>3 DEF TableInv, IdsBounded
  <2>4. inode_next \in Nat /\ next_chunkid \in Nat
    BY TypeFacts
  <2> QED
    BY <1>1, <2>1, <2>2, <2>3, <2>4, NewFile
<1>10. ChunksDisjoint'
  <2>1. \A j \in DOMAIN nodes : nodes'[j].chunks = nodes[j].chunks
    BY <1>3, <1>5
  <2> QED
    BY <1>1, <1>5, <2>1 DEF TableInv, ChunksDisjoint
<1> QED
  BY <1>6, <1>7, <1>8, <1>9, <1>10 DEF TableInv

-----------------------------------------------------------------------------
(* The steps of a save *)

(* The opening of the config file preserves the invariant. *)
LEMMA SaveOpenStep ==
  ASSUME TableInv, SaveOpen
  PROVE  TableInv'
<1>1. /\ saver = "idle" /\ root /\ config' = <<>>
      /\ UNCHANGED <<up, root, nodes, inode_next, next_chunkid, change, creating, joined>>
  BY DEF SaveOpen, mem
<1>4. image = <<>> /\ child = <<>>
  BY <1>1 DEF TableInv, ImageShape, ImageMirrors
<1>2. /\ child' = <<>>
      /\ \/ UNCHANGED <<saver, image, pos>>
         \/ saver' = "copy" /\ image' = <<RootRecord>> /\ pos' = 0
  BY <1>4 DEF SaveOpen, sav
<1>3. /\ RootRecord \in RecordType /\ RootRecord.nl = TRUE /\ RootRecord.node = <<>>
      /\ RootRecord.torn = FALSE
  BY EmptyMaybe DEF RootRecord, RecordType
<1>5. TypeOK'
  <2>1. config' \in Seq(RecordType) /\ <<RootRecord>> \in Seq(RecordType)
    BY <1>1, <1>3
  <2>2. image' \in Seq(RecordType) /\ saver' \in {"idle", "copy", "close", "clear"}
    BY <1>2, <2>1 DEF TableInv, TypeOK
  <2>3. pos' \in 0..(Wrap - 1)
    BY <1>2, BoundsAssumption DEF TableInv, TypeOK
  <2> QED
    BY <1>1, <1>2, <2>1, <2>2, <2>3, EmptyMaybe DEF TableInv, TypeOK
<1>6. ConfigShape' /\ CreatingShape' /\ ChunksDisjoint' /\ DiskBehindTable'
  BY <1>1 DEF TableInv, ConfigShape, CreatingShape, ChunksDisjoint, DiskBehindTable
<1>7. ImageShape'
  <2>1. CASE UNCHANGED <<saver, image>>
    BY <1>1, <1>4, <2>1 DEF TableInv, ImageShape
  <2>2. CASE saver' = "copy" /\ image' = <<RootRecord>>
    <3>1. image' # <<>> /\ \A j \in DOMAIN image' : j = 1 /\ image'[j] = RootRecord
      BY <2>2
    <3> QED
      BY <1>1, <1>3, <2>2, <3>1 DEF ImageShape
  <2> QED
    BY <1>2, <2>1, <2>2
<1>8. ImageMirrors'
  <2>1. CASE saver' = "idle"
    BY <1>2, <2>1 DEF ImageMirrors
  <2>2. CASE saver' = "copy" /\ image' = <<RootRecord>> /\ pos' = 0
    <3>1. Len(image') = 1 /\ DOMAIN image' = {1}
      BY <2>2
    <3> QED
      BY <1>2, <2>2, <3>1 DEF ImageMirrors
  <2> QED
    BY <1>1, <1>2, <2>1, <2>2
<1>9. Everywhere' \subseteq Everywhere
  <2>1. FilesIn(config') = {} /\ Loading' = {}
    BY <1>1, <1>2 DEF FilesIn, Loading
  <2>2. FilesIn(image') = {}
    <3>1. \A j \in DOMAIN image' : image'[j].node = <<>>
      BY <1>2, <1>3, <1>4
    <3> QED
      BY <3>1 DEF FilesIn
  <2> QED
    BY <1>1, <2>1, <2>2 DEF Everywhere, InTable
<1> QED
  BY <1>1, <1>5, <1>6, <1>7, <1>8, <1>9, NoNewFile DEF TableInv

(* The next record goes to the place of its file, unless the counter has    *)
(* wrapped before: then the image is longer than the counter says.          *)
LEMMA SaveChildStep ==
  ASSUME TableInv, SaveChild
  PROVE  TableInv'
<1>0. PICK nd \in Copies(child[1], nodes[pos + 1]) : image' = Append(image, Record(nd, TRUE))
  BY DEF SaveChild
<1>1. /\ saver = "copy" /\ child # <<>> /\ pos' = (pos + 1) % Wrap /\ child' = <<>>
      /\ image' = Append(image, Record(nd, TRUE))
      /\ UNCHANGED <<up, root, nodes, inode_next, next_chunkid, change, creating,
                     config, saver, joined>>
  BY <1>0 DEF SaveChild, mem
<1>2. /\ pos < Len(nodes) /\ pos + 1 \in DOMAIN nodes /\ nodes[pos + 1] \in Node
      /\ nodes[pos + 1] \in Everywhere /\ child[1] \in Node /\ child[1] \in Everywhere
      /\ ~joined => IsOlder(child[1], pos + 1)
  <2>1. pos < Len(nodes) /\ (~joined => IsOlder(child[1], pos + 1))
    BY <1>1 DEF TableInv, ImageMirrors
  <2>2. child[1] \in Node /\ child = <<child[1]>>
    BY <1>1, TypeFacts, MaybeNodeElement
  <2>3. 1 \in DOMAIN child
    BY <2>2
  <2> QED
    BY <2>1, <2>2, <2>3, TypeFacts DEF Everywhere, InTable, Loading
<1>12. /\ nd \in Node
       /\ ~joined => IsOlder(nd, pos + 1) /\ nd.inode <= inode_next /\ Len(nd.chunks) <= 1
                     /\ (nd.chunks # <<>> => nd.chunks[1] <= next_chunkid)
  <2> DEFINE was == child[1]
             now == nodes[pos + 1]
  <2>1. was \in Node /\ now \in Node /\ was.chunks \in Seq(Nat) /\ now.size \in Nat
        /\ now.chunks \in Seq(Nat)
    BY <1>2, NodeFields
  <2>2. ~joined => /\ was.inode <= inode_next /\ Len(was.chunks) <= 1
                   /\ was.chunks # <<>> => was.chunks[1] <= next_chunkid
                   /\ Len(now.chunks) <= 1
                   /\ now.chunks # <<>> => now.chunks[1] <= next_chunkid
    BY <1>2 DEF TableInv, IdsBounded
  <2>3. CASE nd = [was EXCEPT !.size = now.size]
    <3>1. nd \in Node /\ nd.name = was.name /\ nd.inode = was.inode /\ nd.chunks = was.chunks
      BY <2>1, <2>3, WithSize
    <3> QED
      BY <1>2, <2>2, <3>1 DEF IsOlder
  <2>4. CASE nd = [was EXCEPT !.chunks = now.chunks]
    <3>1. nd \in Node /\ nd.name = was.name /\ nd.inode = was.inode /\ nd.chunks = now.chunks
      BY <2>1, <2>4, WithChunks
    <3> QED
      BY <1>2, <2>2, <3>1 DEF IsOlder
  <2> QED
    BY <1>0, <2>3, <2>4 DEF Copies
<1>3. PICK r \in RecordType :
        /\ r = Record(nd, TRUE) /\ r.node # <<>> /\ r.nl = TRUE /\ r.torn = FALSE
        /\ r.node[1] = nd
  BY <1>12, NodeRecord
<1>4. /\ image' \in Seq(RecordType) /\ Len(image') = Len(image) + 1
      /\ image'[Len(image) + 1] = r
      /\ \A j \in DOMAIN image : j \in DOMAIN image' /\ image'[j] = image[j]
      /\ \A j \in DOMAIN image' : j \in DOMAIN image \/ j = Len(image) + 1
  <2>1. image' = Append(image, r) /\ image \in Seq(RecordType)
    BY <1>1, <1>3, TypeFacts
  <2> QED
    BY <2>1, AppendFacts
<1>5. /\ pos' \in 0..(Wrap - 1)
      /\ pos' = pos + 1 \/ (pos' = 0 /\ Wrap <= Len(nodes))
  <2>1. pos \in Nat /\ pos < Wrap /\ Wrap \in Nat \ {0} /\ Len(nodes) \in Nat
    BY TypeFacts, BoundsAssumption
  <2>2. CASE pos + 1 = Wrap
    BY <1>1, <1>2, <2>1, <2>2
  <2>3. CASE pos + 1 < Wrap
    BY <1>1, <2>1, <2>3
  <2> QED
    BY <2>1, <2>2, <2>3
<1>6. TypeOK'
  BY <1>1, <1>4, <1>5, EmptyMaybe DEF TableInv, TypeOK
<1>7. ConfigShape' /\ CreatingShape' /\ ChunksDisjoint' /\ DiskBehindTable'
  BY <1>1 DEF TableInv, ConfigShape, CreatingShape, ChunksDisjoint, DiskBehindTable, Mirrors, IsOlder
<1>8. image # <<>> /\ Len(image) > 0
  <2>1. image # <<>>
    BY <1>1 DEF TableInv, ImageShape
  <2> QED
    BY <2>1, TypeFacts
<1>9. ImageShape'
  <2>1. image' # <<>>
    BY <1>4, TypeFacts
  <2>2. ASSUME NEW j \in DOMAIN image'
        PROVE  image'[j].nl /\ ~image'[j].torn /\ (image'[j].node = <<>> <=> j = 1)
    <3>1. CASE j \in DOMAIN image
      BY <1>4, <3>1 DEF TableInv, ImageShape
    <3>2. CASE j = Len(image) + 1
      <4>1. j # 1
        BY <1>8, <3>2, TypeFacts
      <4> QED
        BY <1>3, <1>4, <3>2, <4>1
    <3> QED
      BY <1>4, <3>1, <3>2
  <2> QED
    BY <1>1, <2>1, <2>2 DEF TableInv, ImageShape
<1>10. ImageMirrors'
  <2>1. /\ Len(image) >= pos + 1
        /\ Len(image) # pos + 1 => Len(nodes) >= Wrap
        /\ ~joined /\ Len(image) = pos + 1 =>
             \A j \in DOMAIN image : j > 1 => Mirrors(image[j], j - 1)
    BY <1>1 DEF TableInv, ImageMirrors
  <2>2. Len(image') >= pos' + 1 /\ (Len(image') # pos' + 1 => Len(nodes) >= Wrap)
    <3>1. Len(image) \in Nat /\ pos \in Nat /\ Len(image') = Len(image) + 1
      BY <1>4, TypeFacts
    <3>2. CASE pos' = pos + 1
      BY <2>1, <3>1, <3>2
    <3>3. CASE pos' = 0 /\ Wrap <= Len(nodes)
      BY <3>1, <3>3, TypeFacts, BoundsAssumption
    <3> QED
      BY <1>5, <3>2, <3>3
  <2>3. ASSUME ~joined, Len(image') = pos' + 1, NEW j \in DOMAIN image', j > 1
        PROVE  Mirrors(image'[j], j - 1)
    <3>1. Len(image) = pos + 1
      BY <1>4, <1>5, <1>8, <2>1, <2>3, TypeFacts
    <3>2. CASE j \in DOMAIN image
      BY <1>4, <2>1, <2>3, <3>1, <3>2
    <3>3. CASE j = Len(image) + 1
      <4>1. j - 1 = pos + 1
        BY <3>1, <3>3, TypeFacts
      <4> QED
        BY <1>2, <1>3, <1>4, <1>12, <2>3, <3>3, <4>1 DEF Mirrors
    <3> QED
      BY <1>4, <3>2, <3>3
  <2>4. \A rec, j : Mirrors(rec, j) => Mirrors(rec, j)'
    BY <1>1 DEF Mirrors, IsOlder
  <2> QED
    BY <1>1, <2>2, <2>3, <2>4 DEF ImageMirrors
<1>11. Everywhere' \subseteq Everywhere \cup {nd}
  <2>1. FilesIn(image') \subseteq FilesIn(image) \cup {nd}
    <3> SUFFICES ASSUME NEW j \in DOMAIN image', image'[j].node # <<>>
                 PROVE  image'[j].node[1] \in FilesIn(image) \cup {nd}
      BY DEF FilesIn
    <3>1. CASE j \in DOMAIN image
      BY <1>4, <3>1 DEF FilesIn
    <3>2. CASE j = Len(image) + 1
      BY <1>3, <1>4, <3>2
    <3> QED
      BY <1>4, <3>1, <3>2
  <2>2. Loading' = {}
    BY <1>1 DEF Loading
  <2> QED
    BY <1>1, <2>1, <2>2 DEF Everywhere, InTable
<1>13. inode_next \in Nat /\ next_chunkid \in Nat
  BY TypeFacts
<1>14. IdsBounded'
  BY <1>1, <1>11, <1>12, <1>13, NewFile
<1> QED
  BY <1>1, <1>6, <1>7, <1>9, <1>10, <1>14 DEF TableInv

(* The first of the two loads of a turn. *)
LEMMA SaveLoadStep ==
  ASSUME TableInv, SaveLoad
  PROVE  TableInv'
<1>1. /\ saver = "copy" /\ pos < Len(nodes) /\ child' = <<nodes[pos + 1]>>
      /\ UNCHANGED <<up, root, nodes, inode_next, next_chunkid, change, creating,
                     config, saver, image, pos, joined>>
  BY DEF SaveLoad, mem
<1>2. pos + 1 \in DOMAIN nodes /\ nodes[pos + 1] \in Node
  BY <1>1, TypeFacts
<1>3. child' \in MaybeNode /\ child'[1] = nodes[pos + 1]
  BY <1>1, <1>2, NodeRecord
<1>4. TypeOK'
  BY <1>1, <1>3 DEF TableInv, TypeOK
<1>5. ConfigShape' /\ ImageShape' /\ CreatingShape' /\ ChunksDisjoint' /\ DiskBehindTable'
  BY <1>1 DEF TableInv, ConfigShape, ImageShape, CreatingShape, ChunksDisjoint,
              DiskBehindTable, Mirrors, IsOlder
<1>6. ImageMirrors'
  <2>1. \A rec, j : Mirrors(rec, j) => Mirrors(rec, j)'
    BY <1>1 DEF Mirrors, IsOlder
  <2>2. IsOlder(child[1], pos + 1)'
    BY <1>1, <1>2, <1>3 DEF IsOlder
  <2>3. /\ Len(image) >= pos + 1
        /\ Len(image) # pos + 1 => Len(nodes) >= Wrap
        /\ ~joined /\ Len(image) = pos + 1 =>
             \A j \in DOMAIN image : j > 1 => Mirrors(image[j], j - 1)
    BY <1>1 DEF TableInv, ImageMirrors
  <2> QED
    BY <1>1, <2>1, <2>2, <2>3 DEF ImageMirrors
<1>7. Everywhere' \subseteq Everywhere
  <2>1. Loading' \subseteq InTable
    BY <1>1, <1>2 DEF Loading, InTable
  <2> QED
    BY <1>1, <2>1 DEF Everywhere, InTable, FilesIn
<1> QED
  BY <1>1, <1>4, <1>5, <1>6, <1>7, NoNewFile DEF TableInv

(* The end of the copying loop preserves the invariant. *)
LEMMA SaveLeaveLoopStep ==
  ASSUME TableInv, SaveLeaveLoop
  PROVE  TableInv'
<1>1. /\ saver = "copy" /\ child = <<>> /\ pos >= Len(nodes) /\ saver' = "close"
      /\ UNCHANGED <<up, root, nodes, inode_next, next_chunkid, change, creating,
                     config, image, pos, child, joined>>
  BY DEF SaveLeaveLoop, mem
<1>2. TypeOK'
  BY <1>1 DEF TableInv, TypeOK
<1>3. /\ ConfigShape' /\ ImageShape' /\ CreatingShape' /\ ChunksDisjoint' /\ DiskBehindTable'
  BY <1>1 DEF TableInv, ConfigShape, ImageShape, CreatingShape, ChunksDisjoint, DiskBehindTable, Mirrors, IsOlder
<1>4. ImageMirrors'
  <2>1. Len(image) = pos + 1
    BY <1>1, TypeFacts, BoundsAssumption DEF TableInv, ImageMirrors
  <2> QED
    BY <1>1, <2>1 DEF TableInv, ImageMirrors, Mirrors, IsOlder
<1>5. Everywhere' \subseteq Everywhere
  BY <1>1 DEF Everywhere, InTable, Loading, FilesIn
<1> QED
  BY <1>1, <1>2, <1>3, <1>4, <1>5, NoNewFile DEF TableInv

(* What fclose leaves: the image, then the rest of what was appended.       *)
LEMMA WriteOverFacts ==
  ASSUME NEW over \in Seq(RecordType), NEW c \in Seq(RecordType), NEW k \in 0..Len(c)
  PROVE  /\ WriteOver(over, c, k) \in Seq(RecordType)
         /\ DOMAIN over \subseteq DOMAIN WriteOver(over, c, k)
         /\ \A j \in DOMAIN over : WriteOver(over, c, k)[j] = over[j]
         /\ \A j \in DOMAIN WriteOver(over, c, k) : j \notin DOMAIN over =>
              /\ j > Len(over) /\ j \in Nat
              /\ \E q \in DOMAIN c : /\ WriteOver(over, c, k)[j].node = c[q].node
                                    /\ WriteOver(over, c, k)[j].nl = c[q].nl
<1> DEFINE torn(j) == j = 1 /\ Bytes(c)[k] < Bytes(over)[Len(over)]
           rest == [j \in 1..(Len(c) - k) |-> [c[k + j] EXCEPT !.torn = torn(j)]]
<1>1. /\ Len(over) \in Nat /\ Len(c) \in Nat /\ k \in Nat /\ Len(c) - k \in Nat
      /\ DOMAIN over = 1..Len(over) /\ DOMAIN c = 1..Len(c)
  OBVIOUS
<1>2. \A j \in 1..(Len(c) - k) : k + j \in DOMAIN c /\ c[k + j] \in RecordType
  BY <1>1
<1>3. \A rec \in RecordType, t \in BOOLEAN :
        /\ [rec EXCEPT !.torn = t] \in RecordType
        /\ [rec EXCEPT !.torn = t].node = rec.node /\ [rec EXCEPT !.torn = t].nl = rec.nl
  BY DEF RecordType
<1>4. \A j : torn(j) \in BOOLEAN
  OBVIOUS
<1>5. WriteOver(over, c, k) = over \o rest
  BY DEF WriteOver
<1> HIDE DEF torn
<1>6. /\ rest \in Seq(RecordType) /\ Len(rest) = Len(c) - k
      /\ \A j \in 1..Len(rest) : /\ k + j \in DOMAIN c /\ rest[j].node = c[k + j].node
                                 /\ rest[j].nl = c[k + j].nl
  <2>1. \A j \in 1..(Len(c) - k) : rest[j] \in RecordType
    BY <1>2, <1>3, <1>4
  <2>2. rest \in Seq(RecordType) /\ Len(rest) = Len(c) - k
    <3>1. DOMAIN rest = 1..(Len(c) - k) /\ rest = [j \in 1..(Len(c) - k) |-> rest[j]]
      OBVIOUS
    <3> HIDE DEF rest
    <3>2. rest \in [1..(Len(c) - k) -> RecordType]
      BY <2>1, <3>1
    <3> QED
      BY <1>1, <3>1, <3>2
  <2> QED
    BY <1>2, <1>3, <1>4, <2>2
<1> HIDE DEF rest
<1>7. /\ over \o rest \in Seq(RecordType) /\ Len(over \o rest) = Len(over) + Len(rest)
      /\ \A j \in 1..Len(over) : (over \o rest)[j] = over[j]
      /\ \A j \in 1..Len(rest) : (over \o rest)[Len(over) + j] = rest[j]
      /\ DOMAIN (over \o rest) = 1..(Len(over) + Len(rest)) /\ Len(rest) \in Nat
  <2>1. over \in Seq(RecordType) /\ rest \in Seq(RecordType)
    BY <1>6
  <2> QED
    BY <2>1, ConcatFacts
<1>8. ASSUME NEW j \in DOMAIN (over \o rest), j \notin DOMAIN over
      PROVE  /\ j > Len(over) /\ j \in Nat
             /\ \E q \in DOMAIN c : /\ (over \o rest)[j].node = c[q].node
                                   /\ (over \o rest)[j].nl = c[q].nl
  <2>1. /\ j \in Nat /\ j > Len(over) /\ j - Len(over) \in 1..Len(rest)
        /\ Len(over) + (j - Len(over)) = j
    BY <1>1, <1>7, <1>8
  <2>2. (over \o rest)[j] = rest[j - Len(over)]
    BY <1>7, <2>1
  <2> QED
    BY <1>6, <2>1, <2>2
<1>9. DOMAIN over \subseteq DOMAIN (over \o rest)
  BY <1>1, <1>7
<1> QED
  BY <1>1, <1>5, <1>7, <1>8, <1>9

(* The write of the buffer over the config file preserves the invariant. *)
LEMMA SaveCloseStep ==
  ASSUME TableInv, SaveClose
  PROVE  TableInv'
<1>0. PICK k \in 0..Len(config) : config' = WriteOver(image, config, k)
  BY DEF SaveClose
<1>1. /\ saver = "close" /\ saver' = "clear" /\ image' = <<>> /\ pos' = 0 /\ child' = <<>>
      /\ UNCHANGED <<up, root, nodes, inode_next, next_chunkid, change, creating, joined>>
  BY DEF SaveClose, mem
<1>2. /\ config' \in Seq(RecordType) /\ DOMAIN image \subseteq DOMAIN config'
      /\ \A j \in DOMAIN image : config'[j] = image[j]
      /\ \A j \in DOMAIN config' : j \notin DOMAIN image =>
           /\ j > Len(image) /\ j \in Nat
           /\ \E q \in DOMAIN config : /\ config'[j].node = config[q].node
                                      /\ config'[j].nl = config[q].nl
  <2>1. image \in Seq(RecordType) /\ config \in Seq(RecordType)
    BY TypeFacts
  <2> DEFINE new == WriteOver(image, config, k)
  <2>2. /\ new \in Seq(RecordType) /\ DOMAIN image \subseteq DOMAIN new
        /\ \A j \in DOMAIN image : new[j] = image[j]
        /\ \A j \in DOMAIN new : j \notin DOMAIN image =>
             /\ j > Len(image) /\ j \in Nat
             /\ \E q \in DOMAIN config : new[j].node = config[q].node /\ new[j].nl = config[q].nl
    BY <2>1, WriteOverFacts
  <2>3. config' = new
    BY <1>0
  <2> HIDE DEF new
  <2> QED
    BY <2>2, <2>3
<1>3. /\ root /\ Len(image) >= 1
      /\ \A j \in DOMAIN image : image[j].nl /\ ~image[j].torn
                                /\ (image[j].node = <<>> <=> j = 1)
      /\ \A q \in DOMAIN config : ~config[q].nl
  <2>1. root /\ image # <<>> /\ \A q \in DOMAIN config : ~config[q].nl
    BY <1>1 DEF TableInv, ImageShape
  <2> QED
    BY <2>1, TypeFacts DEF TableInv, ImageShape
<1>4. TypeOK'
  BY <1>1, <1>2, BoundsAssumption, EmptyMaybe DEF TableInv, TypeOK
<1>9. ASSUME NEW j \in DOMAIN config', j \notin DOMAIN image
      PROVE  /\ ~config'[j].nl /\ j > 1 /\ config'[j].node # <<>>
             /\ config'[j].node[1].chunks = <<>>
  <2>1. PICK q \in DOMAIN config : config'[j].node = config[q].node /\ config'[j].nl = config[q].nl
    BY <1>2, <1>9
  <2>2. ~config[q].nl /\ config[q].node # <<>> /\ config[q].node[1].chunks = <<>>
    BY <1>3 DEF TableInv, ConfigShape
  <2>3. j > 1
    BY <1>2, <1>3, <1>9, TypeFacts
  <2> QED
    BY <2>1, <2>2, <2>3
<1>5. ConfigShape'
  <2>1. ASSUME NEW j \in DOMAIN config', NEW k2 \in DOMAIN config', j < k2, config'[k2].nl
        PROVE  config'[j].nl
    <3>1. k2 \in DOMAIN image
      BY <1>9, <2>1
    <3>2. j \in DOMAIN image
      <4>1. j \notin DOMAIN image => j > Len(image) /\ j \in Nat
        BY <1>2
      <4> QED
        BY <2>1, <3>1, <4>1, TypeFacts
    <3> QED
      BY <1>2, <1>3, <3>2
  <2>2. ASSUME NEW j \in DOMAIN config'
        PROVE
          /\ j > 1 \/ ~config'[j].nl => config'[j].node # <<>>
          /\ j = 1 /\ config'[j].nl => root' /\ config'[j].node = <<>>
          /\ ~config'[j].nl => config'[j].node[1].chunks = <<>>
          /\ config'[j].torn => ~config'[j].nl
    <3>1. CASE j \in DOMAIN image
      BY <1>1, <1>2, <1>3, <3>1, TypeFacts
    <3>2. CASE j \notin DOMAIN image
      BY <1>9, <3>2
    <3> QED
      BY <3>1, <3>2
  <2> QED
    BY <2>1, <2>2 DEF ConfigShape
<1>6. ImageShape' /\ ImageMirrors' /\ CreatingShape' /\ ChunksDisjoint'
  BY <1>1, <1>3 DEF TableInv, ImageShape, ImageMirrors, CreatingShape, ChunksDisjoint
<1>7. DiskBehindTable'
  <2>1. ASSUME ~joined, NEW j \in DOMAIN config', config'[j].nl, j > 1
        PROVE  Mirrors(config'[j], j - 1)
    <3>1. j \in DOMAIN image /\ config'[j] = image[j]
      BY <1>2, <1>9, <2>1
    <3> QED
      BY <1>1, <2>1, <3>1 DEF TableInv, ImageMirrors
  <2>2. \A rec, j : Mirrors(rec, j) => Mirrors(rec, j)'
    BY <1>1 DEF Mirrors, IsOlder
  <2> QED
    BY <1>1, <2>1, <2>2 DEF DiskBehindTable
<1>8. Everywhere' \subseteq Everywhere
  <2>1. FilesIn(config') \subseteq FilesIn(config) \cup FilesIn(image)
    <3>1. ASSUME NEW j \in DOMAIN config', config'[j].node # <<>>
          PROVE  config'[j].node[1] \in FilesIn(config) \cup FilesIn(image)
      <4>1. CASE j \in DOMAIN image
        BY <1>2, <3>1, <4>1 DEF FilesIn
      <4>2. CASE j \notin DOMAIN image
        BY <1>2, <3>1, <4>2 DEF FilesIn
      <4> QED
        BY <4>1, <4>2
    <3> QED
      BY <3>1 DEF FilesIn
  <2>2. FilesIn(image') = {} /\ Loading' = {}
    BY <1>1 DEF FilesIn, Loading
  <2> QED
    BY <1>1, <2>1, <2>2 DEF Everywhere, InTable
<1> QED
  BY <1>1, <1>4, <1>5, <1>6, <1>7, <1>8, NoNewFile DEF TableInv

(* The clearing of `change' preserves the invariant. *)
LEMMA SaveClearStep ==
  ASSUME TableInv, SaveClear
  PROVE  TableInv'
<1>1. /\ saver = "clear" /\ saver' = "idle" /\ change' = FALSE
      /\ UNCHANGED <<up, root, nodes, inode_next, next_chunkid, creating,
                     config, image, pos, child, joined>>
  BY DEF SaveClear
<1>2. TypeOK'
  BY <1>1 DEF TableInv, TypeOK
<1>3. /\ ConfigShape' /\ ImageShape' /\ ImageMirrors' /\ CreatingShape'
      /\ ChunksDisjoint' /\ DiskBehindTable'
  BY <1>1 DEF TableInv, ConfigShape, ImageShape, ImageMirrors, CreatingShape,
              ChunksDisjoint, DiskBehindTable, Mirrors, IsOlder
<1>4. Everywhere' \subseteq Everywhere
  BY <1>1 DEF Everywhere, InTable, Loading, FilesIn
<1> QED
  BY <1>1, <1>2, <1>3, <1>4, NoNewFile DEF TableInv

-----------------------------------------------------------------------------
(* The restart *)

(* The chunks that load_config reads are numbers; of a complete record they are those written. *)
LEMMA LoadChunksFacts ==
  ASSUME TableInv, NEW junk \in Junk, NEW j \in DOMAIN config, config[j].node # <<>>
  PROVE  /\ LoadChunks(config, j, junk) \in Seq(Nat)
         /\ ~joined /\ ~IsJoined(config, j) =>
              LoadChunks(config, j, junk) = config[j].node[1].chunks
<1> DEFINE nd == config[j].node[1]
<1>1. nd \in Node /\ nd \in Everywhere /\ junk \in Nat
  BY TypeFacts, RecordNode, JunkAssumption DEF Everywhere, FilesIn
<1>3. CASE IsJoined(config, j)
  <2>1. j + 1 \in DOMAIN config /\ j + 1 > 1
    BY <1>3, TypeFacts DEF IsJoined
  <2>2. config[j + 1].node # <<>> /\ config[j + 1] \in RecordType
    BY <2>1, TypeFacts DEF TableInv, ConfigShape
  <2>3. PICK next \in Node : next = config[j + 1].node[1]
    BY <2>2, RecordNode
  <2>4. next.inode \in Nat /\ NameVal[next.name] \in Nat
    BY NodeFields, NameValAssumption
  <2>5. LoadChunks(config, j, junk) =
          [k \in 1..NameVal[next.name] |-> IF k = 1 THEN next.inode ELSE junk]
    BY <1>3, <2>3 DEF LoadChunks
  <2>6. LoadChunks(config, j, junk) \in Seq(Nat)
    BY <1>1, <2>4, <2>5
  <2> QED
    BY <1>3, <2>6
<1>4. CASE ~IsJoined(config, j)
  <2>1. nd.chunks \in Seq(Nat) /\ Len(nd.chunks) \in Nat
        /\ (nd.chunks = <<>> <=> Len(nd.chunks) = 0)
        /\ (nd.chunks # <<>> => nd.chunks[1] \in Nat)
    BY <1>1, NodeFields
  <2>2. LoadChunks(config, j, junk) =
          [k \in 1..Len(nd.chunks) |-> IF k = 1 THEN nd.chunks[1] ELSE junk]
    BY <1>4 DEF LoadChunks
  <2>3. \A k \in 1..Len(nd.chunks) : (IF k = 1 THEN nd.chunks[1] ELSE junk) \in Nat
    BY <1>1, <2>1
  <2>4. LoadChunks(config, j, junk) \in Seq(Nat) /\ Len(LoadChunks(config, j, junk)) = Len(nd.chunks)
    BY <2>1, <2>2, <2>3
  <2>5. ~joined => Len(nd.chunks) <= 1
    BY <1>1 DEF TableInv, IdsBounded
  <2>6. ASSUME ~joined
        PROVE  LoadChunks(config, j, junk) = nd.chunks
    <3>1. \A k \in 1..Len(nd.chunks) : k = 1
      BY <2>1, <2>5, <2>6
    <3>2. nd.chunks = [k \in 1..Len(nd.chunks) |-> nd.chunks[k]]
      BY <2>1
    <3> QED
      BY <2>2, <3>1, <3>2
  <2> QED
    BY <2>4, <2>6
<1> QED
  BY <1>3, <1>4

(* What a line is loaded as whose beginning is lost is a node.              *)
LEMMA RestsFacts ==
  ASSUME TableInv, NEW junk \in Junk, NEW rest \in Rests(config, junk), IsTorn(config)
  PROVE  rest \in Node
<1>1. PICK j \in {k \in DOMAIN config : config[k].torn} : rest \in Remains(config, j, junk)
  BY DEF Rests
<1>2. config[j].node # <<>>
  BY <1>1 DEF TableInv, ConfigShape
<1>3. LoadChunks(config, j, junk) \in Seq(Nat) /\ <<>> \in Seq(Nat)
  BY <1>1, <1>2, LoadChunksFacts
<1>4. config[j].node[1].inode \in Nat
  BY <1>2, TypeFacts, RecordNode, NodeFields
<1>5. /\ {config[j].node[1].inode} \cup Stray \subseteq Nat
      /\ {<<>>, LoadChunks(config, j, junk)} \subseteq Seq(Nat)
  BY <1>3, <1>4, JunkAssumption
<1> DEFINE inodes == {config[j].node[1].inode} \cup Stray
           chunks == {<<>>, LoadChunks(config, j, junk)}
<1>6. rest \in [name : Names, inode : inodes, size : {0}, chunks : chunks]
  BY <1>1 DEF Remains
<1> HIDE DEF inodes, chunks
<1>7. inodes \subseteq Nat /\ chunks \subseteq Seq(Nat)
  BY <1>5 DEF inodes, chunks
<1>8. PICK name \in Names, inode \in inodes, c \in chunks :
        rest = [name |-> name, inode |-> inode, size |-> 0, chunks |-> c]
  BY <1>6
<1>9. inode \in Nat /\ c \in Seq(Nat) /\ 0 \in Nat
  BY <1>7, <1>8
<1> QED
  BY <1>8, <1>9 DEF Node

(* A line that load_config reads is a node; of a complete record it is the node written. *)
LEMMA LoadLineFacts ==
  ASSUME TableInv, NEW junk \in Junk, NEW rest \in Rests(config, junk),
         NEW j \in DOMAIN config, config[j].node # <<>>
  PROVE  /\ LoadLine(config, j, junk, rest) \in Node
         /\ ~joined /\ ~IsJoined(config, j) /\ ~IsTorn(config) =>
              LoadLine(config, j, junk, rest) = config[j].node[1]
<1> DEFINE nd == config[j].node[1]
           c == LoadChunks(config, j, junk)
<1>1. nd \in Node
  BY TypeFacts, RecordNode
<1>2. c \in Seq(Nat) /\ (~joined /\ ~IsJoined(config, j) => c = nd.chunks)
  BY LoadChunksFacts
<1>3. CASE config[j].torn
  <2>1. IsTorn(config) /\ LoadLine(config, j, junk, rest) = rest
    BY <1>3 DEF IsTorn, LoadLine
  <2> QED
    BY <2>1, RestsFacts
<1>4. CASE ~config[j].torn
  <2>1. LoadLine(config, j, junk, rest) = [nd EXCEPT !.chunks = c]
    BY <1>4 DEF LoadLine
  <2> HIDE DEF nd, c
  <2>2. [nd EXCEPT !.chunks = c] \in Node
    BY <1>1, <1>2, WithChunks
  <2>3. [nd EXCEPT !.chunks = nd.chunks] = nd
    BY <1>1 DEF Node
  <2> QED
    BY <1>2, <2>1, <2>2, <2>3 DEF nd
<1> QED
  BY <1>3, <1>4

(* The restart as a map from records to files: record k + off makes file k. *)
LEMMA RestartFacts ==
  ASSUME TableInv, Restart
  PROVE  \E off \in 0..1 :
    /\ off = 1 <=> HasRoot(config)
    /\ nodes' \in Seq(Node)
    /\ \A k \in DOMAIN nodes' :
         /\ k \in Nat /\ k >= 1 /\ k + off \in DOMAIN config
         /\ config[k + off].node # <<>> /\ nodes'[k] \in Node
         /\ ~joined' => nodes'[k] = config[k + off].node[1]
    /\ ~joined' => /\ ~joined
                   /\ \A j \in DOMAIN config : j > off => j - off \in DOMAIN nodes'
<1>0. PICK m \in 0..Len(config), junk \in Junk :
        /\ Lines(config) = 1..m
        /\ \E rest \in Rests(config, junk) : \E low : Load(m, junk, rest, low)
  BY DEF Restart
<1>1. PICK rest \in Rests(config, junk) :
        /\ Lines(config) = 1..m /\ nodes' = Loaded(config, m, junk, rest)
        /\ joined' = (joined \/ IsTorn(config) \/ \E j \in Lines(config) : IsJoined(config, j))
  BY <1>0 DEF Load
<1> DEFINE off == IF HasRoot(config) THEN 1 ELSE 0
           n == m - off
<1>2. off \in 0..1 /\ (off = 1 <=> HasRoot(config))
  OBVIOUS
<1>3. m \in Nat /\ m <= Len(config) /\ DOMAIN config = 1..Len(config) /\ Len(config) \in Nat
  BY <1>1, TypeFacts
<1>4. config # <<>> => 1 \in Lines(config)
  <2>1. config # <<>> => 1 \in DOMAIN config
    BY TypeFacts
  <2> QED
    BY <2>1 DEF Lines
<1>5. HasRoot(config) => m >= 1
  BY <1>1, <1>3, <1>4 DEF HasRoot
<1>6. n \in Nat /\ n + off = m
  BY <1>3, <1>5
<1>7. nodes' = [k \in 1..n |-> LoadLine(config, k + off, junk, rest)]
  <2>1. CASE HasRoot(config)
    BY <1>1, <2>1 DEF Loaded
  <2>2. CASE ~HasRoot(config)
    <3>1. \A k \in 1..m : k + 0 = k
      BY <1>3
    <3>2. off = 0 /\ n = m
      BY <1>3, <2>2
    <3> QED
      BY <1>1, <2>2, <3>1, <3>2 DEF Loaded
  <2> QED
    BY <2>1, <2>2
<1> HIDE DEF off, n
<1>8. ASSUME NEW k \in 1..n
      PROVE  /\ k + off \in DOMAIN config /\ k + off \in Lines(config)
             /\ config[k + off].node # <<>>
  <2>1. k \in Nat /\ k >= 1 /\ k + off >= 1 /\ k + off <= m /\ k + off \in Nat
    BY <1>2, <1>6
  <2>2. k + off \in DOMAIN config /\ k + off \in Lines(config)
    BY <1>1, <1>3, <2>1
  <2>3. CASE k + off > 1
    BY <2>2, <2>3 DEF TableInv, ConfigShape
  <2>4. CASE k + off = 1
    <3>1. ~HasRoot(config) /\ config # <<>>
      BY <1>2, <2>1, <2>2, <2>4, TypeFacts
    <3>2. config[1].node # <<>>
      BY <3>1 DEF HasRoot
    <3> QED
      BY <2>2, <2>4, <3>2
  <2> QED
    BY <2>1, <2>2, <2>3, <2>4
<1>9. ASSUME NEW k \in 1..n
      PROVE  /\ LoadLine(config, k + off, junk, rest) \in Node
             /\ ~joined /\ ~IsJoined(config, k + off) /\ ~IsTorn(config) =>
                  LoadLine(config, k + off, junk, rest) = config[k + off].node[1]
  BY <1>1, <1>8, LoadLineFacts
<1>10. nodes' \in Seq(Node) /\ DOMAIN nodes' = 1..n
  BY <1>6, <1>7, <1>9
<1>11. ~joined' => ~joined /\ ~IsTorn(config) /\ \A j \in Lines(config) : ~IsJoined(config, j)
  BY <1>1
<1>12. ASSUME NEW k \in DOMAIN nodes'
       PROVE
         /\ k \in Nat /\ k >= 1 /\ k + off \in DOMAIN config
         /\ config[k + off].node # <<>> /\ nodes'[k] \in Node
         /\ ~joined' => nodes'[k] = config[k + off].node[1]
  <2>1. k \in 1..n /\ nodes'[k] = LoadLine(config, k + off, junk, rest)
    BY <1>7, <1>10
  <2>2. k \in Nat /\ k >= 1
    BY <1>6, <2>1
  <2> QED
    BY <1>8, <1>9, <1>11, <2>1, <2>2
<1>13. ASSUME ~joined'
       PROVE  \A j \in DOMAIN config : j > off => j - off \in DOMAIN nodes'
  <2>1. m = Len(config)
    <3>1. ASSUME m < Len(config) PROVE FALSE
      <4>1. m + 1 \in DOMAIN config /\ m + 1 \notin Lines(config) /\ (m + 1) - 1 = m
        BY <1>1, <1>3, <3>1
      <4>2. CASE m = 0
        BY <4>1, <4>2 DEF Lines
      <4>3. CASE m # 0
        <5>1. m \in Lines(config) /\ m \in DOMAIN config
          BY <1>1, <1>3, <4>3
        <5>2. config[m].nl
          BY <1>11, <1>13, <3>1, <5>1 DEF IsJoined
        <5> QED
          BY <4>1, <5>2 DEF Lines
      <4> QED
        BY <4>2, <4>3
    <3>2. m \in Nat /\ Len(config) \in Nat /\ m <= Len(config)
      BY <1>3
    <3> QED
      BY <3>1, <3>2
  <2> QED
    BY <1>2, <1>3, <1>6, <1>10, <2>1
<1> QED
  BY <1>2, <1>10, <1>11, <1>12, <1>13

(* A file that has a chunk after a restart had it before, at its place.     *)
LEMMA RestartForgets ==
  ASSUME TableInv, Restart, ~joined', NEW k \in DOMAIN nodes', nodes'[k].chunks # <<>>
  PROVE  /\ k \in DOMAIN nodes /\ nodes'[k].chunks = nodes[k].chunks
         /\ nodes'[k].inode = nodes[k].inode
         /\ HasRoot(config) /\ k + 1 \in DOMAIN config /\ config[k + 1].nl
<1>1. PICK off \in 0..1 :
        /\ off = 1 <=> HasRoot(config)
        /\ k \in Nat /\ k >= 1 /\ k + off \in DOMAIN config
        /\ config[k + off].node # <<>>
        /\ nodes'[k] = config[k + off].node[1]
        /\ ~joined
  BY RestartFacts
<1>2. config[k + off].nl
  BY <1>1 DEF TableInv, ConfigShape
<1>3. k + off > 1
  BY <1>1, <1>2, TypeFacts DEF TableInv, ConfigShape
<1>4. 1 \in DOMAIN config /\ config # <<>>
  BY <1>1, TypeFacts
<1>5. config[1].nl
  BY <1>1, <1>2, <1>3, <1>4 DEF TableInv, ConfigShape
<1>6. off = 1 /\ (k + 1) - 1 = k
  BY <1>1, <1>4, <1>5 DEF TableInv, ConfigShape, HasRoot
<1>7. Mirrors(config[k + 1], k)
  BY <1>1, <1>2, <1>3, <1>6 DEF TableInv, DiskBehindTable
<1> QED
  BY <1>1, <1>2, <1>6, <1>7 DEF Mirrors, IsOlder

(* And every file on disk is in the table after it. *)
LEMMA RestartKeeps ==
  ASSUME TableInv, Restart, ~joined', NEW q \in DOMAIN config, config[q].node # <<>>
  PROVE  \E k \in DOMAIN nodes' : /\ nodes'[k] = config[q].node[1]
                                  /\ k = IF HasRoot(config) THEN q - 1 ELSE q
<1>1. PICK off \in 0..1 :
        /\ off = 1 <=> HasRoot(config)
        /\ \A k \in DOMAIN nodes' : nodes'[k] = config[k + off].node[1]
        /\ \A j \in DOMAIN config : j > off => j - off \in DOMAIN nodes'
  BY RestartFacts
<1>2. q > off
  BY <1>1, TypeFacts DEF HasRoot
<1>3. q - off \in DOMAIN nodes' /\ (q - off) + off = q
  BY <1>1, <1>2, TypeFacts
<1>4. nodes'[q - off] = config[q].node[1]
  BY <1>1, <1>3
<1>5. q - off = IF HasRoot(config) THEN q - 1 ELSE q
  BY <1>1, TypeFacts
<1> QED
  BY <1>3, <1>4, <1>5

(* A restart preserves the invariant: load_fs reads back what mirrors the table. *)
LEMMA RestartStep ==
  ASSUME TableInv, Restart
  PROVE  TableInv'
<1>1. /\ up' \in BOOLEAN /\ root' = HasRoot(config)
      /\ change' = FALSE /\ creating' = <<>>
      /\ saver' = "idle" /\ image' = <<>> /\ pos' = 0 /\ child' = <<>>
      /\ config' = config
      /\ joined' \in BOOLEAN
  BY DEF Restart, Load, LoadEnds
<1>2. PICK off \in 0..1 :
        /\ off = 1 <=> HasRoot(config)
        /\ nodes' \in Seq(Node)
        /\ \A k \in DOMAIN nodes' :
             /\ k \in Nat /\ k >= 1 /\ k + off \in DOMAIN config
             /\ config[k + off].node # <<>> /\ nodes'[k] \in Node
             /\ ~joined' => nodes'[k] = config[k + off].node[1]
        /\ ~joined' => /\ ~joined
                       /\ \A j \in DOMAIN config : j > off => j - off \in DOMAIN nodes'
  BY RestartFacts
<1>3. /\ inode_next' \in Nat /\ \A k \in DOMAIN nodes' : nodes'[k].inode <= inode_next'
      /\ next_chunkid' \in Nat
      /\ \A k \in DOMAIN nodes' : nodes'[k].chunks # <<>> => nodes'[k].chunks[1] <= next_chunkid'
      /\ RootInode <= inode_next' /\ FirstChunk <= next_chunkid'
  <2>1. PICK n \in 0..MaxInode : MaxOf(n, {RootInode} \cup Inodes(nodes')) /\ inode_next' = n
    BY DEF Restart, Load
  <2>2. PICK c \in 0..(MaxInode + MaxChunk) : \E low :
          MaxOf(c, {FirstChunk, low} \cup FirstChunks(nodes')) /\ next_chunkid' = c
    BY DEF Restart, Load
  <2>3. n \in Nat /\ c \in Nat
    BY BoundsAssumption
  <2>4. \A k \in DOMAIN nodes' : nodes'[k].inode <= n
    BY <2>1 DEF MaxOf, Inodes
  <2>5. \A k \in DOMAIN nodes' : nodes'[k].chunks # <<>> => nodes'[k].chunks[1] <= c
    BY <2>2 DEF MaxOf, FirstChunks
  <2>6. RootInode <= n /\ FirstChunk <= c
    BY <2>1, <2>2 DEF MaxOf
  <2> QED
    BY <2>1, <2>2, <2>3, <2>4, <2>5, <2>6
<1>4. root' \in BOOLEAN
  BY <1>1 DEF HasRoot
<1>5. TypeOK'
  <2>1. pos' \in 0..(Wrap - 1) /\ saver' \in {"idle", "copy", "close", "clear"}
    BY <1>1, BoundsAssumption
  <2>2. image' \in Seq(RecordType) /\ config' \in Seq(RecordType) /\ creating' \in MaybeNode
        /\ child' \in MaybeNode
    BY <1>1, TypeFacts, EmptyMaybe
  <2>3. up' \in BOOLEAN /\ change' \in BOOLEAN /\ joined' \in BOOLEAN
    BY <1>1
  <2>4. nodes' \in Seq(Node) /\ inode_next' \in Nat /\ next_chunkid' \in Nat
    BY <1>2, <1>3
  <2> QED
    BY <1>4, <2>1, <2>2, <2>3, <2>4 DEF TypeOK
<1>6. ConfigShape'
  <2>1. ASSUME NEW j \in DOMAIN config, j = 1, config[j].nl
        PROVE  HasRoot(config)
    BY <2>1, TypeFacts DEF TableInv, ConfigShape, HasRoot
  <2> QED
    BY <1>1, <2>1 DEF TableInv, ConfigShape
<1>7. ImageShape' /\ ImageMirrors' /\ CreatingShape'
  BY <1>1 DEF ImageShape, ImageMirrors, CreatingShape
<1>10. ~joined' => FilesIn(config) \subseteq InTable'
  BY RestartKeeps DEF FilesIn, InTable
<1>11. FilesIn(image') = {} /\ Loading' = {}
  BY <1>1 DEF FilesIn, Loading
<1>13. ASSUME ~joined', NEW k \in DOMAIN nodes'
       PROVE  Len(nodes'[k].chunks) <= 1
  <2>1. nodes'[k] \in Everywhere
    <3>1. nodes'[k] = config[k + off].node[1] /\ k + off \in DOMAIN config
          /\ config[k + off].node # <<>>
      BY <1>2, <1>13
    <3>2. nodes'[k] \in FilesIn(config)
      BY <3>1 DEF FilesIn
    <3> QED
      BY <3>2 DEF Everywhere
  <2> QED
    BY <1>2, <1>13, <2>1 DEF TableInv, IdsBounded
<1>14. IdsBounded'
  BY <1>1, <1>3, <1>10, <1>11, <1>13 DEF IdsBounded, Everywhere, InTable
<1>15. DiskBehindTable'
  <2>1. ASSUME ~joined', NEW j \in DOMAIN config, config[j].nl, j > 1
        PROVE  /\ config[j].node # <<>> /\ j - 1 \in DOMAIN nodes'
               /\ nodes'[j - 1] = config[j].node[1]
    <3>1. config[j].node # <<>>
      BY <2>1 DEF TableInv, ConfigShape
    <3>2. off = 1
      <4>1. 1 \in DOMAIN config /\ config # <<>>
        BY <2>1, TypeFacts
      <4>2. config[1].nl
        BY <2>1, <4>1 DEF TableInv, ConfigShape
      <4> QED
        BY <1>2, <4>1, <4>2 DEF TableInv, ConfigShape, HasRoot
    <3>3. j - 1 \in DOMAIN nodes' /\ (j - 1) + 1 = j
      BY <1>2, <2>1, <3>2, TypeFacts
    <3> QED
      BY <1>2, <2>1, <3>1, <3>2, <3>3
  <2> QED
    BY <1>1, <2>1 DEF DiskBehindTable, Mirrors, IsOlder
<1>16. ChunksDisjoint'
  <2>1. ASSUME ~joined', NEW k \in DOMAIN nodes', nodes'[k].chunks # <<>>
        PROVE  k \in DOMAIN nodes /\ nodes'[k].chunks = nodes[k].chunks
    BY <2>1, RestartForgets
  <2>2. ASSUME ~joined', NEW j \in DOMAIN nodes', NEW k \in DOMAIN nodes', j # k,
               NEW a \in DOMAIN nodes'[j].chunks, NEW b \in DOMAIN nodes'[k].chunks
        PROVE  nodes'[j].chunks[a] # nodes'[k].chunks[b]
    <3>1. nodes'[j].chunks # <<>> /\ nodes'[k].chunks # <<>> /\ ~joined
      BY <1>2, <2>2
    <3>2. /\ j \in DOMAIN nodes /\ nodes'[j].chunks = nodes[j].chunks
          /\ k \in DOMAIN nodes /\ nodes'[k].chunks = nodes[k].chunks
      BY <2>1, <2>2, <3>1
    <3>3. a \in DOMAIN nodes[j].chunks /\ b \in DOMAIN nodes[k].chunks
      BY <3>2
    <3>4. nodes[j].chunks[a] # nodes[k].chunks[b]
      BY <2>2, <3>1, <3>2, <3>3 DEF TableInv, ChunksDisjoint
    <3> QED
      BY <3>2, <3>4
  <2> QED
    BY <2>2 DEF ChunksDisjoint
<1> QED
  BY <1>5, <1>6, <1>7, <1>14, <1>15, <1>16 DEF TableInv

-----------------------------------------------------------------------------
(* The theorems *)

(* Every step preserves the invariant. *)
LEMMA NextTableInv == TableInv /\ [Next]_vars => TableInv'
<1> SUFFICES ASSUME TableInv, [Next]_vars PROVE TableInv'
  OBVIOUS
<1>1. CASE Handler
  <2>1. CASE Creat
    BY <2>1, CreatNodeStep DEF Creat
  <2>2. CASE CreatAppend
    BY <2>2, CreatAppendStep
  <2>3. CASE WriteChunk
    BY <2>3, AddChunkStep DEF WriteChunk
  <2>4. CASE WriteChunkEnd
    BY <2>4, ChangeSizeStep DEF WriteChunkEnd
  <2> QED
    BY <1>1, <2>1, <2>2, <2>3, <2>4 DEF Handler
<1>2. CASE Save
  BY <1>2, SaveOpenStep, SaveLoadStep, SaveChildStep, SaveLeaveLoopStep, SaveCloseStep, SaveClearStep
  DEF Save
<1>3. CASE Restart
  BY <1>3, RestartStep
<1>4. CASE UNCHANGED vars
  BY <1>4
  DEF vars, TableInv, TypeOK, ConfigShape, ImageShape, ImageMirrors, CreatingShape, IdsBounded,
      ChunksDisjoint, DiskBehindTable, Mirrors, IsOlder,
      Everywhere, InTable, Loading, FilesIn
<1> QED
  BY <1>1, <1>2, <1>3, <1>4 DEF Next

(* The inductive invariant of the table and its copies holds, whatever      *)
(* clients, fs_thread and crashes do.                                       *)
LEMMA TableInvariance == Spec => []TableInv
  BY InitTableInv, NextTableInv, PTL DEF Spec

(* What is left is the part about creations that are on disk twice.  A step *)
(* that neither adds files nor records keeps it.                            *)
LEMMA TwinsKept ==
  ASSUME TwinsInv, joined' = joined, DOMAIN nodes' = DOMAIN nodes,
         \A j \in DOMAIN nodes : /\ nodes'[j].name = nodes[j].name
                                 /\ nodes'[j].inode = nodes[j].inode,
         config' = config \/ config' = <<>>,
         creating' = creating \/ creating' = <<>>,
         saver' = "close" => saver = "close" /\ image' = image
  PROVE  TwinsInv'
<1> SUFFICES ASSUME ~joined PROVE (TwinNames /\ RecordsKnown /\ TwinRecords /\ TwinImages)'
  BY DEF TwinsInv
<1>1. TwinNames /\ RecordsKnown /\ TwinRecords /\ TwinImages
  BY DEF TwinsInv
<1>2. \A nd : HasNode(nd) => HasNode(nd)'
  BY DEF HasNode
<1>3. \A j, k \in DOMAIN nodes : Twins(j, k)' <=> Twins(j, k)
  BY DEF Twins
<1>4. TwinNames'
  BY <1>1, <1>3 DEF TwinNames
<1>5. RecordsKnown'
  <2>1. FilesIn(config') \subseteq FilesIn(config)
    BY DEF FilesIn
  <2> QED
    BY <1>1, <1>2, <2>1 DEF RecordsKnown
<1>6. TwinRecords'
  BY <1>1, <1>3 DEF TwinRecords
<1>7. TwinImages'
  BY <1>1, <1>3 DEF TwinImages
<1> QED
  BY <1>4, <1>5, <1>6, <1>7

(* A file in the making has an inode number that no other file has. *)
LEMMA CreatNodeTwins ==
  ASSUME TableInv, TwinsInv, NEW n \in Names, CreatNode(n)
  PROVE  TwinsInv'
<1> SUFFICES ASSUME ~joined PROVE (TwinNames /\ RecordsKnown /\ TwinRecords /\ TwinImages)'
  BY DEF TwinsInv, CreatNode
<1>1. TwinNames /\ RecordsKnown /\ TwinRecords /\ TwinImages
  BY DEF TwinsInv
<1>2. PICK nd \in Node : nd = NewNode(n, inode_next + 1)
  BY NewNodeType, TypeFacts
<1>3. /\ nd.inode = inode_next + 1 /\ nodes' = Append(nodes, nd)
      /\ creating' = <<>> \/ creating' = <<nd>>
      /\ UNCHANGED <<config, saver, image>>
  BY <1>2 DEF CreatNode, NewNode, sav
<1>4. /\ nodes'[Len(nodes) + 1] = nd /\ Len(nodes) + 1 \in DOMAIN nodes'
      /\ \A j \in DOMAIN nodes : j \in DOMAIN nodes' /\ nodes'[j] = nodes[j]
      /\ \A j \in DOMAIN nodes' : j \in DOMAIN nodes \/ j = Len(nodes) + 1
  BY <1>3, TypeFacts, AppendFacts
<1>5. \A j \in DOMAIN nodes : nodes[j].inode # nd.inode /\ j < Len(nodes) + 1
  <2>1. \A j \in DOMAIN nodes : nodes[j].inode <= inode_next /\ nodes[j].inode \in Nat
    BY TypeFacts, NodeFields DEF TableInv, IdsBounded, Everywhere, InTable
  <2> QED
    BY <1>3, <2>1, TypeFacts
<1>6. ASSUME NEW j \in DOMAIN nodes', NEW k \in DOMAIN nodes', Twins(j, k)'
      PROVE  j \in DOMAIN nodes /\ k \in DOMAIN nodes /\ Twins(j, k)
  BY <1>4, <1>5, <1>6, TypeFacts DEF Twins
<1>7. TwinNames'
  BY <1>1, <1>4, <1>6 DEF TwinNames
<1>8. RecordsKnown'
  <2>1. \A f : HasNode(f) => HasNode(f)'
    BY <1>4 DEF HasNode
  <2>2. creating' # <<>> => HasNode(creating[1])'
    BY <1>3, <1>4 DEF HasNode
  <2> QED
    BY <1>1, <1>3, <2>1, <2>2 DEF RecordsKnown
<1>9. TwinRecords'
  BY <1>1, <1>3, <1>4, <1>6 DEF TwinRecords
<1>10. TwinImages'
  BY <1>1, <1>3, <1>6 DEF TwinImages
<1> QED
  BY <1>7, <1>8, <1>9, <1>10

(* The record of a creation lacks its newline, and comes after all others.  *)
LEMMA CreatAppendTwins ==
  ASSUME TableInv, TwinsInv, CreatAppend
  PROVE  TwinsInv'
<1> SUFFICES ASSUME ~joined PROVE (TwinNames /\ RecordsKnown /\ TwinRecords /\ TwinImages)'
  BY DEF TwinsInv, CreatAppend
<1>1. TwinNames /\ RecordsKnown /\ TwinRecords /\ TwinImages
  BY DEF TwinsInv
<1>2. /\ creating # <<>> /\ creating' = <<>> /\ UNCHANGED <<nodes, saver, image>>
      /\ config' = Append(config, Record(creating[1], FALSE)) \/ config' = config
  BY DEF CreatAppend, sav
<1>3. creating[1] \in Node
  BY <1>2, TypeFacts, MaybeNodeElement
<1>4. PICK rec \in RecordType : /\ rec = Record(creating[1], FALSE) /\ ~rec.nl
                                /\ rec.node # <<>> /\ rec.node[1] = creating[1]
  BY <1>3, NodeRecord
<1>5. /\ \A q \in DOMAIN config : q \in DOMAIN config' /\ config'[q] = config[q]
      /\ \A q \in DOMAIN config' :
           \/ q \in DOMAIN config /\ config'[q] = config[q]
           \/ config'[q] = rec
  <2>1. config' = Append(config, rec) \/ config' = config
    BY <1>2, <1>4
  <2>2. config \in Seq(RecordType)
    BY TypeFacts
  <2> QED
    BY <2>1, <2>2, AppendFacts
<1>6. TwinNames' /\ TwinImages'
  BY <1>1, <1>2 DEF TwinNames, TwinImages, Twins
<1>7. RecordsKnown'
  <2>1. FilesIn(config') \subseteq FilesIn(config) \cup {creating[1]}
    BY <1>4, <1>5 DEF FilesIn
  <2> QED
    BY <1>1, <1>2, <2>1 DEF RecordsKnown, HasNode
<1>8. TwinRecords'
  <2> SUFFICES ASSUME NEW j \in DOMAIN nodes, NEW k \in DOMAIN nodes, Twins(j, k),
                      j + 1 \in DOMAIN config', config'[j + 1].nl
               PROVE  \E q \in DOMAIN config' : /\ q > j + 1 /\ config'[q].node # <<>>
                                                /\ config'[q].node[1].inode = nodes[j].inode
    BY <1>2 DEF TwinRecords, Twins
  <2>1. j + 1 \in DOMAIN config /\ config[j + 1].nl
    BY <1>4, <1>5
  <2> QED
    BY <1>1, <1>5, <2>1 DEF TwinRecords
<1> QED
  BY <1>6, <1>7, <1>8

(* When the loop of a save ends, its image has every file of the table. *)
LEMMA SaveLeaveLoopTwins ==
  ASSUME TableInv, TwinsInv, SaveLeaveLoop
  PROVE  TwinsInv'
<1> SUFFICES ASSUME ~joined PROVE (TwinNames /\ RecordsKnown /\ TwinRecords /\ TwinImages)'
  BY DEF TwinsInv, SaveLeaveLoop
<1>1. TwinNames /\ RecordsKnown /\ TwinRecords
  BY DEF TwinsInv
<1>2. UNCHANGED <<nodes, config, creating, image>> /\ saver = "copy" /\ pos >= Len(nodes)
  BY DEF SaveLeaveLoop, mem
<1>3. Len(image) >= Len(nodes) + 1
  BY <1>2, TypeFacts, BoundsAssumption DEF TableInv, ImageMirrors
<1>4. \A k \in DOMAIN nodes : k + 1 \in DOMAIN image
  BY <1>3, TypeFacts
<1> QED
  BY <1>1, <1>2, <1>4 DEF TwinNames, RecordsKnown, TwinRecords, TwinImages, Twins, HasNode

(* The image has all nodes of a file that is in it, and what stays behind   *)
(* it stays in its order.                                                   *)
LEMMA SaveCloseTwins ==
  ASSUME TableInv, TwinsInv, SaveClose
  PROVE  TwinsInv'
<1> SUFFICES ASSUME ~joined PROVE (TwinNames /\ RecordsKnown /\ TwinRecords /\ TwinImages)'
  BY DEF TwinsInv, SaveClose, mem
<1>1. TwinNames /\ RecordsKnown /\ TwinRecords /\ TwinImages
  BY DEF TwinsInv
<1>0. PICK n \in 0..Len(config) : config' = WriteOver(image, config, n)
  BY DEF SaveClose
<1>2. saver = "close" /\ saver' = "clear" /\ UNCHANGED <<nodes, creating>>
  BY DEF SaveClose, mem
<1>3. /\ \A q \in DOMAIN image : q \in DOMAIN config' /\ config'[q] = image[q]
      /\ \A q \in DOMAIN config' : q \notin DOMAIN image =>
           \E p \in DOMAIN config : config'[q].node = config[p].node /\ config'[q].nl = config[p].nl
  <2>1. image \in Seq(RecordType) /\ config \in Seq(RecordType)
    BY TypeFacts
  <2> DEFINE new == WriteOver(image, config, n)
  <2>2. /\ new \in Seq(RecordType) /\ DOMAIN image \subseteq DOMAIN new
        /\ \A j \in DOMAIN image : new[j] = image[j]
        /\ \A j \in DOMAIN new : j \notin DOMAIN image =>
             /\ j > Len(image) /\ j \in Nat
             /\ \E q \in DOMAIN config : new[j].node = config[q].node /\ new[j].nl = config[q].nl
    BY <2>1, WriteOverFacts
  <2>3. config' = new
    BY <1>0
  <2> HIDE DEF new
  <2> QED
    BY <2>2, <2>3
<1>4. \A q \in DOMAIN image : q > 1 => Mirrors(image[q], q - 1)
  BY <1>2 DEF TableInv, ImageMirrors
<1>5. TwinNames' /\ TwinImages'
  BY <1>1, <1>2 DEF TwinNames, TwinImages, Twins
<1>6. RecordsKnown'
  <2>1. ASSUME NEW q \in DOMAIN config', config'[q].node # <<>>
        PROVE  HasNode(config'[q].node[1])
    <3>1. CASE q \in DOMAIN image
      <4>1. q > 1
        BY <1>2, <1>3, <2>1, <3>1, TypeFacts DEF TableInv, ImageShape
      <4> QED
        BY <1>3, <1>4, <3>1, <4>1 DEF Mirrors, IsOlder, HasNode
    <3>2. CASE q \notin DOMAIN image
      <4>1. PICK p \in DOMAIN config : config'[q].node = config[p].node
        BY <1>3, <3>2
      <4> QED
        BY <1>1, <2>1, <4>1 DEF RecordsKnown, FilesIn
    <3> QED
      BY <3>1, <3>2
  <2>2. \A nd : HasNode(nd) => HasNode(nd)'
    BY <1>2 DEF HasNode
  <2> QED
    BY <1>1, <1>2, <2>1, <2>2 DEF RecordsKnown, FilesIn
<1>7. TwinRecords'
  <2> SUFFICES ASSUME NEW j \in DOMAIN nodes, NEW k \in DOMAIN nodes, Twins(j, k),
                      j + 1 \in DOMAIN config', config'[j + 1].nl
               PROVE  \E q \in DOMAIN config' : /\ q > j + 1 /\ config'[q].node # <<>>
                                                /\ config'[q].node[1].inode = nodes[j].inode
    BY <1>2 DEF TwinRecords, Twins
  <2>0. j \in Nat /\ k \in Nat /\ j < k /\ k >= 1 /\ nodes[j].inode = nodes[k].inode
    BY TypeFacts DEF Twins
  <2>1. CASE j + 1 \in DOMAIN image
    <3>1. k + 1 \in DOMAIN image /\ k + 1 > j + 1 /\ k + 1 > 1 /\ (k + 1) - 1 = k
      BY <1>1, <1>2, <2>0, <2>1 DEF TwinImages
    <3>2. Mirrors(image[k + 1], k) /\ config'[k + 1] = image[k + 1] /\ k + 1 \in DOMAIN config'
      BY <1>3, <1>4, <3>1
    <3> QED
      BY <2>0, <3>1, <3>2 DEF Mirrors, IsOlder
  <2>2. CASE j + 1 \notin DOMAIN image
    <3>1. PICK p \in DOMAIN config : config'[j + 1].nl = config[p].nl
      BY <1>3, <2>2
    <3> QED
      BY <1>2, <3>1 DEF TableInv, ImageShape
  <2> QED
    BY <2>1, <2>2
<1> QED
  BY <1>5, <1>6, <1>7

(* The files that a restart loads are those of the records, in their order. *)
LEMMA RestartTwins ==
  ASSUME TableInv, TwinsInv, Restart
  PROVE  TwinsInv'
<1> SUFFICES ASSUME ~joined' PROVE (TwinNames /\ RecordsKnown /\ TwinRecords /\ TwinImages)'
  BY DEF TwinsInv
<1>1. PICK off \in 0..1 :
        /\ off = 1 <=> HasRoot(config)
        /\ \A k \in DOMAIN nodes' : /\ k \in Nat /\ k >= 1 /\ k + off \in DOMAIN config
                                    /\ config[k + off].node # <<>>
                                    /\ nodes'[k] = config[k + off].node[1]
        /\ ~joined
  BY RestartFacts
<1>2. TwinNames /\ RecordsKnown
  BY <1>1 DEF TwinsInv
<1>3. config' = config /\ creating' = <<>> /\ saver' = "idle"
  BY DEF Restart, Load
<1>4. ASSUME NEW j \in DOMAIN nodes', NEW k \in DOMAIN nodes', Twins(j, k)'
      PROVE  nodes'[j].name = nodes'[k].name
  <2>1. HasNode(nodes'[j]) /\ HasNode(nodes'[k])
    BY <1>1, <1>2 DEF RecordsKnown, FilesIn
  <2>2. PICK a \in DOMAIN nodes : nodes[a].name = nodes'[j].name /\ nodes[a].inode = nodes'[j].inode
    BY <2>1 DEF HasNode
  <2>3. PICK b \in DOMAIN nodes : nodes[b].name = nodes'[k].name /\ nodes[b].inode = nodes'[k].inode
    BY <2>1 DEF HasNode
  <2>4. a = b \/ Twins(a, b) \/ Twins(b, a)
    BY <1>4, <2>2, <2>3, TypeFacts DEF Twins
  <2> QED
    BY <1>2, <2>2, <2>3, <2>4 DEF TwinNames
<1>5. RecordsKnown'
  <2>1. ASSUME NEW q \in DOMAIN config, config[q].node # <<>>
        PROVE  HasNode(config[q].node[1])'
    <3>1. PICK k \in DOMAIN nodes' : nodes'[k] = config[q].node[1]
      BY <2>1, RestartKeeps
    <3> QED
      BY <1>3, <3>1 DEF HasNode
  <2> QED
    BY <1>3, <2>1 DEF RecordsKnown, FilesIn
<1>6. TwinRecords'
  <2> SUFFICES ASSUME NEW j \in DOMAIN nodes', NEW k \in DOMAIN nodes', Twins(j, k)',
                      j + 1 \in DOMAIN config, config[j + 1].nl
               PROVE  \E q \in DOMAIN config : /\ q > j + 1 /\ config[q].node # <<>>
                                               /\ config[q].node[1].inode = nodes'[j].inode
    BY <1>3 DEF TwinRecords
  <2>1. j \in Nat /\ k \in Nat /\ j >= 1 /\ j < k /\ nodes'[j].inode = nodes'[k].inode
    BY <1>1 DEF Twins
  <2>2. 1 \in DOMAIN config /\ config # <<>>
    BY <2>1, TypeFacts
  <2>3. config[1].nl
    BY <2>1, <2>2 DEF TableInv, ConfigShape
  <2>4. off = 1
    BY <1>1, <2>2, <2>3 DEF TableInv, ConfigShape, HasRoot
  <2>5. k + 1 \in DOMAIN config /\ k + 1 > j + 1
    BY <1>1, <2>1, <2>4
  <2> QED
    BY <1>1, <2>1, <2>4, <2>5
<1> QED
  BY <1>3, <1>4, <1>5, <1>6 DEF TwinNames, TwinImages

(* Every step preserves the part about twins. *)
LEMMA TwinsStep ==
  ASSUME TableInv, TwinsInv, [Next]_vars
  PROVE  TwinsInv'
<1>1. CASE SaveOpen \/ SaveLoad \/ SaveChild \/ SaveClear \/ UNCHANGED vars
  BY <1>1, TwinsKept DEF SaveOpen, SaveLoad, SaveChild, SaveClear, mem, sav, vars
<1>2. ASSUME NEW i \in DOMAIN nodes, AddChunk(i)
      PROVE  TwinsInv'
  <2>1. /\ DOMAIN nodes' = DOMAIN nodes
        /\ \A j \in DOMAIN nodes : /\ nodes'[j].name = nodes[j].name
                                   /\ nodes'[j].inode = nodes[j].inode
    BY <1>2, TypeFacts DEF AddChunk, Node
  <2> QED
    BY <1>2, <2>1, TwinsKept DEF AddChunk, sav
<1>3. ASSUME NEW i \in DOMAIN nodes, NEW size \in Sizes, ChangeSize(i, size)
      PROVE  TwinsInv'
  <2>1. /\ DOMAIN nodes' = DOMAIN nodes
        /\ \A j \in DOMAIN nodes : /\ nodes'[j].name = nodes[j].name
                                   /\ nodes'[j].inode = nodes[j].inode
    BY <1>3, TypeFacts DEF ChangeSize, Node
  <2> QED
    BY <1>3, <2>1, TwinsKept DEF ChangeSize, sav
<1>4. CASE Handler
  BY <1>2, <1>3, <1>4, CreatNodeTwins, CreatAppendTwins
     DEF Handler, Creat, WriteChunk, WriteChunkEnd
<1> QED
  BY <1>1, <1>4, SaveLeaveLoopTwins, SaveCloseTwins, RestartTwins DEF Next, Save

(* It holds at first: there are no files. *)
LEMMA InitTwins == Init => TwinsInv
<1> SUFFICES ASSUME Init PROVE TwinsInv
  OBVIOUS
<1>1. FilesIn(config) = {} /\ DOMAIN nodes = {} /\ creating = <<>>
  BY DEF Init, FilesIn, RootRecord
<1> QED
  BY <1>1 DEF TwinsInv, TwinNames, RecordsKnown, TwinRecords, TwinImages

(* The inductive invariant of fs.c, with both its parts. *)
THEOREM Invariance == Spec => []IInv
<1>1. IInv /\ [Next]_vars => IInv'
  BY NextTableInv, TwinsStep DEF IInv
<1>2. Init => IInv
  BY InitTableInv, InitTwins DEF IInv
<1> QED
  BY <1>1, <1>2, PTL DEF Spec

(* Every variable of the server keeps its type. *)
THEOREM TypeCorrect == Spec => []TypeOK
<1>1. TableInv => TypeOK
  BY DEF TableInv
<1> QED
  BY TableInvariance, <1>1, PTL

(* No two files of the table share a chunk, however saves, handlers and     *)
(* crashes interleave, as long as every load found one record per line.     *)
THEOREM ChunksStayDisjoint == Spec => []ChunksDisjoint
<1>1. TableInv => ChunksDisjoint
  BY DEF TableInv
<1> QED
  BY TableInvariance, <1>1, PTL

(* Complete records on disk never run ahead of the table. *)
THEOREM DiskStaysBehind == Spec => []DiskBehindTable
<1>1. TableInv => DiskBehindTable
  BY DEF TableInv
<1> QED
  BY TableInvariance, <1>1, PTL

(* The ids of the table and its copies are at most the counters, so one     *)
(* that is larger than the counter is new; a restart never raises them.     *)
LEMMA FreshStep ==
  ASSUME TableInv, Next, ~joined, ~joined'
  PROVE  /\ next_chunkid' > next_chunkid =>
              \A nd \in Everywhere : \A k \in DOMAIN nd.chunks : nd.chunks[k] # next_chunkid'
         /\ inode_next' > inode_next =>
              \A nd \in Everywhere : nd.inode # inode_next'
<1>1. next_chunkid' \in Nat /\ inode_next' \in Nat
  BY NextTableInv DEF TableInv, TypeOK
<1>2. ASSUME next_chunkid' > next_chunkid, NEW nd \in Everywhere, NEW k \in DOMAIN nd.chunks
      PROVE  nd.chunks[k] # next_chunkid'
  <2>1. nd \in Node /\ next_chunkid \in Nat
    BY EverywhereType, TypeFacts
  <2>2. Len(nd.chunks) <= 1 /\ (nd.chunks # <<>> => nd.chunks[1] <= next_chunkid)
    BY <1>2 DEF TableInv, IdsBounded
  <2>3. k = 1 /\ nd.chunks # <<>>
    BY <1>2, <2>1, <2>2, NodeFields
  <2> QED
    BY <1>1, <1>2, <2>1, <2>2, <2>3, NodeFields
<1>3. ASSUME inode_next' > inode_next, NEW nd \in Everywhere
      PROVE  nd.inode # inode_next'
  <2>1. nd \in Node /\ inode_next \in Nat /\ nd.inode <= inode_next
    BY <1>3, EverywhereType, TypeFacts DEF TableInv, IdsBounded
  <2> QED
    BY <1>1, <1>3, <2>1, NodeFields
<1> QED
  BY <1>2, <1>3

(* An inode number or a chunk id that is given out is not in use anywhere,  *)
(* and no copy of the table could bring it back with another owner.         *)
THEOREM IdsAreFresh == Spec => FreshIds
<1>1. TableInv /\ [Next]_vars =>
        [~joined /\ ~joined' =>
           /\ next_chunkid' > next_chunkid =>
                \A nd \in Everywhere : \A k \in DOMAIN nd.chunks : nd.chunks[k] # next_chunkid'
           /\ inode_next' > inode_next =>
                \A nd \in Everywhere : nd.inode # inode_next']_vars
  BY FreshStep
<1> QED
  BY TableInvariance, <1>1, PTL DEF Spec, FreshIds

-----------------------------------------------------------------------------
(* The server implements ChunkOwners *)

(* The pairs of Owns. *)
LEMMA OwnsElement ==
  \A p : p \in Owns <=> \E j \in DOMAIN nodes : \E k \in DOMAIN nodes[j].chunks :
                            p = <<nodes[j].inode, nodes[j].chunks[k]>>
  BY DEF Owns

(* The pairs of Owns after a step. *)
LEMMA OwnsElementPrime ==
  \A p : p \in Owns' <=> \E j \in DOMAIN nodes' : \E k \in DOMAIN nodes'[j].chunks :
                            p = <<nodes'[j].inode, nodes'[j].chunks[k]>>
  BY DEF Owns

(* A load that met joined records is not forgotten. *)
LEMMA JoinedStays == TypeOK /\ [Next]_vars => (joined => joined')
  BY DEF TypeOK, Next, Handler, Save, Creat, CreatNode, CreatAppend, WriteChunk, AddChunk,
         WriteChunkEnd, ChangeSize, SaveOpen, SaveLoad, SaveChild, SaveLeaveLoop, SaveClose, SaveClear,
         Restart, Load, vars

(* A new file owns nothing yet. *)
LEMMA CreatOwns ==
  ASSUME TableInv, NEW n \in Names, CreatNode(n)
  PROVE  Owns' = Owns /\ joined' = joined
<1>1. PICK nd \in Node : nd = NewNode(n, inode_next + 1)
  BY NewNodeType, TypeFacts
<1>2. nodes' = Append(nodes, nd) /\ joined' = joined
  BY <1>1 DEF CreatNode
<1>3. /\ nodes'[Len(nodes) + 1] = nd
      /\ \A j \in DOMAIN nodes : j \in DOMAIN nodes' /\ nodes'[j] = nodes[j]
      /\ \A j \in DOMAIN nodes' : j \in DOMAIN nodes \/ j = Len(nodes) + 1
  BY <1>2, TypeFacts, AppendFacts
<1>4. DOMAIN nd.chunks = {}
  BY <1>1 DEF NewNode
<1>5. Owns' \subseteq Owns
  <2>1. ASSUME NEW j \in DOMAIN nodes', NEW k \in DOMAIN nodes'[j].chunks
        PROVE  <<nodes'[j].inode, nodes'[j].chunks[k]>> \in Owns
    <3>1. j \in DOMAIN nodes /\ nodes'[j] = nodes[j]
      BY <1>3, <1>4
    <3> QED
      BY <3>1, OwnsElement
  <2> QED
    BY <2>1, OwnsElementPrime
<1>6. Owns \subseteq Owns'
  <2>1. ASSUME NEW j \in DOMAIN nodes, NEW k \in DOMAIN nodes[j].chunks
        PROVE  <<nodes[j].inode, nodes[j].chunks[k]>> \in Owns'
    <3>1. j \in DOMAIN nodes' /\ nodes'[j] = nodes[j]
      BY <1>3
    <3> QED
      BY <3>1, OwnsElementPrime
  <2> QED
    BY <2>1, OwnsElement
<1> QED
  BY <1>2, <1>5, <1>6

(* A chunk that is given out had no owner. *)
LEMMA AddChunkOwns ==
  ASSUME TableInv, ~joined, NEW inode \in 2..MaxInode, NEW i \in DOMAIN nodes,
         IsFound(inode, i), AddChunk(i)
  PROVE  Owners!Next
<1>1. /\ nodes[i].inode = inode /\ Len(nodes[i].chunks) < 1
      /\ next_chunkid < MaxChunk /\ next_chunkid' = next_chunkid + 1
      /\ nodes' = [nodes EXCEPT ![i].chunks = Append(@, next_chunkid')]
      /\ joined' = joined
  BY DEF IsFound, AddChunk, indx
<1>2. nodes[i] \in Node /\ nodes[i].chunks = <<>>
  BY <1>1, TypeFacts, NodeFields
<1> DEFINE chunk == next_chunkid + 1
<1>3. chunk \in FirstChunk..MaxChunk
  BY SMTT(30), <1>1, TypeFacts, BoundsAssumption DEF TableInv, IdsBounded, FirstChunk
<1>4. chunk \notin {p[2] : p \in Owns}
  <2>1. ASSUME NEW j \in DOMAIN nodes, NEW k \in DOMAIN nodes[j].chunks
        PROVE  nodes[j].chunks[k] # chunk
    <3>1. nodes[j] \in Node /\ nodes[j] \in Everywhere
      BY TypeFacts DEF Everywhere, InTable, Loading
    <3>2. Len(nodes[j].chunks) <= 1 /\ (nodes[j].chunks # <<>> => nodes[j].chunks[1] <= next_chunkid)
      BY <3>1 DEF TableInv, IdsBounded
    <3>3. k = 1 /\ nodes[j].chunks # <<>>
      BY <3>1, <3>2, NodeFields
    <3> QED
      BY <3>1, <3>2, <3>3, NodeFields, TypeFacts
  <2>2. ASSUME NEW p \in Owns PROVE p[2] # chunk
    BY <2>1, OwnsElement
  <2> QED
    BY <2>2
<1>5. PICK nd \in Node : /\ nd = [nodes[i] EXCEPT !.chunks = <<chunk>>]
                         /\ nd.inode = inode /\ nd.chunks = <<chunk>>
  <2>1. <<chunk>> \in Seq(Nat)
    BY TypeFacts
  <2> QED
    BY <1>1, <1>2, <2>1, WithChunks
<1>6. nodes' = [nodes EXCEPT ![i] = nd]
  BY <1>1, <1>2, <1>5
<1>7. /\ DOMAIN nodes' = DOMAIN nodes /\ nodes'[i] = nd
      /\ \A j \in DOMAIN nodes : j # i => nodes'[j] = nodes[j]
  BY <1>6, ExceptFacts
<1>8. DOMAIN nd.chunks = {1} /\ nd.chunks[1] = chunk /\ DOMAIN nodes[i].chunks = {}
  BY <1>2, <1>5
<1> HIDE DEF chunk
<1>9. Owns' = Owns \cup {<<inode, chunk>>}
  <2>1. ASSUME NEW j \in DOMAIN nodes', NEW k \in DOMAIN nodes'[j].chunks
        PROVE  <<nodes'[j].inode, nodes'[j].chunks[k]>> \in Owns \cup {<<inode, chunk>>}
    <3>1. CASE j = i
      BY <1>5, <1>7, <1>8, <2>1, <3>1
    <3>2. CASE j # i
      BY <1>7, <2>1, <3>2, OwnsElement
    <3> QED
      BY <3>1, <3>2
  <2>2. ASSUME NEW j \in DOMAIN nodes, NEW k \in DOMAIN nodes[j].chunks
        PROVE  <<nodes[j].inode, nodes[j].chunks[k]>> \in Owns'
    <3>1. j # i
      BY <1>8, <2>2
    <3> QED
      BY <1>7, <2>2, <3>1, OwnsElementPrime
  <2>3. <<inode, chunk>> \in Owns'
    BY <1>5, <1>7, <1>8, OwnsElementPrime
  <2>4. Owns' \subseteq Owns \cup {<<inode, chunk>>}
    BY <2>1, OwnsElementPrime
  <2>5. Owns \subseteq Owns'
    BY <2>2, OwnsElement
  <2> QED
    BY <2>3, <2>4, <2>5
<1>10. Owners!Give(inode, chunk)
  BY <1>1, <1>4, <1>9 DEF Owners!Give, Owners!Owned
<1> QED
  BY <1>3, <1>10 DEF Owners!Next

(* change_file_size gives and takes no chunk. *)
LEMMA ChangeSizeOwns ==
  ASSUME TableInv, NEW i \in DOMAIN nodes, NEW size \in Sizes, ChangeSize(i, size)
  PROVE  Owns' = Owns /\ joined' = joined
<1>1. nodes' = [nodes EXCEPT ![i].size = size] /\ joined' = joined
  BY DEF ChangeSize
<1>2. nodes[i] \in Node /\ size \in Nat
  BY TypeFacts, SizesAssumption
<1>3. PICK nd \in Node : /\ nd = [nodes[i] EXCEPT !.size = size]
                         /\ nd.inode = nodes[i].inode /\ nd.chunks = nodes[i].chunks
  BY <1>2, WithSize
<1>4. nodes' = [nodes EXCEPT ![i] = nd]
  BY <1>1, <1>3
<1>5. /\ DOMAIN nodes' = DOMAIN nodes
      /\ \A j \in DOMAIN nodes : /\ nodes'[j].inode = nodes[j].inode
                                /\ nodes'[j].chunks = nodes[j].chunks
  BY <1>3, <1>4, ExceptFacts
<1>6. \A p : p \in Owns' <=> p \in Owns
  BY <1>5, OwnsElement, OwnsElementPrime
<1> QED
  BY <1>1, <1>6

(* A crash takes chunks away from files, and gives none to another. *)
LEMMA RestartOwns ==
  ASSUME TableInv, Restart, ~joined'
  PROVE  Owns' \subseteq Owns
<1>1. ASSUME NEW j \in DOMAIN nodes', NEW k \in DOMAIN nodes'[j].chunks
      PROVE  <<nodes'[j].inode, nodes'[j].chunks[k]>> \in Owns
  <2>1. nodes'[j].chunks # <<>>
    BY <1>1
  <2>2. /\ j \in DOMAIN nodes /\ nodes'[j].chunks = nodes[j].chunks
        /\ nodes'[j].inode = nodes[j].inode
    BY <2>1, RestartForgets
  <2> QED
    BY <1>1, <2>2, OwnsElement
<1> QED
  BY <1>1, OwnsElementPrime

(* Every step of the server gives out an unowned chunk, forgets owners,     *)
(* breaks the promise by a misread line, or leaves the ownership alone.     *)
THEOREM ServerKeepsOwners == Spec => KeepsOwners
<1>1. Init => Owners!Init
  BY OwnsElement DEF Init, Owners!Init
<1>2. TableInv /\ [Next]_vars => [Owners!Next]_<<Owns, joined>>
  <2> SUFFICES ASSUME TableInv, [Next]_vars PROVE [Owners!Next]_<<Owns, joined>>
    OBVIOUS
  <2>1. CASE joined'
    BY <2>1 DEF Owners!Next, Owners!Break
  <2>2. CASE ~joined'
    <3>1. ~joined /\ (joined' = joined)
      <4>1. TypeOK /\ TypeOK'
        BY NextTableInv DEF TableInv
      <4>2. joined \in BOOLEAN /\ joined' \in BOOLEAN
        BY <4>1 DEF TypeOK
      <4>3. ~joined
        BY <2>2, <4>1, JoinedStays
      <4> QED
        BY <2>2, <4>2, <4>3
    <3>2. CASE Creat
      BY <3>2, CreatOwns DEF Creat
    <3>3. CASE WriteChunk
      BY <3>1, <3>3, AddChunkOwns DEF WriteChunk
    <3>4. CASE WriteChunkEnd
      BY <3>4, ChangeSizeOwns DEF WriteChunkEnd
    <3>5. CASE Restart
      BY <2>2, <3>1, <3>5, RestartOwns DEF Owners!Next, Owners!Forget
    <3>6. CASE CreatAppend \/ Save \/ UNCHANGED vars
      <4>1. nodes' = nodes
        BY <3>6 DEF CreatAppend, Save, SaveOpen, SaveLoad, SaveChild, SaveLeaveLoop, SaveClose,
                    SaveClear, mem, vars
      <4> QED
        BY <3>1, <4>1 DEF Owns
    <3> QED
      BY <3>2, <3>3, <3>4, <3>5, <3>6 DEF Next, Handler
  <2> QED
    BY <2>1, <2>2
<1> QED
  BY TableInvariance, <1>1, <1>2, PTL DEF Spec, KeepsOwners, Owners!Spec
-----------------------------------------------------------------------------
(* Between two saves the root's record is at the head of the config file;   *)
(* and `change' is set for a file of the table only, or the early return    *)
(* after fopen (fs.c:911) would leave the file empty.                       *)
RootInv == /\ root /\ saver \in {"idle", "clear"} => HasRoot(config)
           /\ change => nodes # <<>>

(* A change of the table is a change of one of its files. *)
LEMMA HandlerRoot ==
  ASSUME TableInv, RootInv, Handler
  PROVE  RootInv' /\ root' = root
<1>1. root' = root /\ saver' = saver
  BY DEF Handler, Creat, CreatNode, CreatAppend, WriteChunk, AddChunk, WriteChunkEnd,
         ChangeSize, sav
<1>2. CASE Creat
  <2>1. PICK n \in Names : CreatNode(n)
    BY <1>2 DEF Creat
  <2>2. config' = config /\ nodes' = Append(nodes, NewNode(n, inode_next + 1))
    BY <2>1 DEF CreatNode
  <2>3. Len(nodes') = Len(nodes) + 1 /\ Len(nodes) \in Nat
    BY <2>2, TypeFacts
  <2>4. nodes' # <<>>
    BY <2>3
  <2> QED
    BY <1>1, <2>2, <2>4 DEF RootInv, HasRoot
<1>3. CASE CreatAppend
  <2>1. nodes' = nodes /\ change' = change
        /\ (config' = config \/ config' = Append(config, Record(creating[1], FALSE)))
    BY <1>3 DEF CreatAppend
  <2>2. HasRoot(config) => HasRoot(config')
    <3>1. ASSUME HasRoot(config), NEW r, config' = Append(config, r)
          PROVE  HasRoot(config')
      <4>1. config \in Seq(RecordType) /\ 1 \in 1..Len(config) /\ Len(config) \in Nat
        BY <3>1, TypeFacts DEF HasRoot
      <4>2. config'[1] = config[1] /\ config' # <<>>
        BY <3>1, <4>1
      <4> QED
        BY <3>1, <4>2 DEF HasRoot
    <3> QED
      BY <2>1, <3>1
  <2> QED
    BY <1>1, <2>1, <2>2 DEF RootInv
<1>4. CASE WriteChunk \/ WriteChunkEnd
  <2>1. config' = config
    BY <1>4 DEF WriteChunk, AddChunk, WriteChunkEnd, ChangeSize
  <2>2. PICK j \in DOMAIN nodes : \E nd : nodes' = [nodes EXCEPT ![j] = nd]
    BY <1>4 DEF WriteChunk, AddChunk, WriteChunkEnd, ChangeSize
  <2>3. DOMAIN nodes' = DOMAIN nodes
    BY <2>2
  <2>4. nodes' # <<>>
    BY <2>2, <2>3
  <2> QED
    BY <1>1, <2>1, <2>4 DEF RootInv, HasRoot
<1> QED
  BY <1>2, <1>3, <1>4 DEF Handler

(* A save leaves the file with the root's record, or is not over. *)
LEMMA SaveRoot ==
  ASSUME TableInv, RootInv, Save
  PROVE  RootInv' /\ root' = root
<1>1. root' = root /\ nodes' = nodes
  BY DEF Save, SaveOpen, SaveLoad, SaveChild, SaveLeaveLoop, SaveClose, SaveClear, mem
<1>2. CASE SaveOpen
  <2>1. change /\ nodes # <<>>
    BY <1>2 DEF SaveOpen, RootInv
  <2>2. saver' = "copy"
    BY <1>2, <2>1 DEF SaveOpen
  <2> QED
    BY <1>1, <2>1, <2>2 DEF RootInv
<1>3. CASE SaveLoad \/ SaveChild \/ SaveLeaveLoop
  <2>1. saver' \in {"copy", "close"} /\ change' = change
    BY <1>3 DEF SaveLoad, SaveChild, SaveLeaveLoop, mem
  <2> QED
    BY <1>1, <2>1 DEF RootInv
<1>4. CASE SaveClose
  <2>1. PICK k \in 0..Len(config) : change' = change /\ config' = WriteOver(image, config, k)
    BY <1>4 DEF SaveClose, mem
  <2>2. 1 \in DOMAIN image /\ image[1].node = <<>>
    <3>1. image # <<>> /\ \A j \in DOMAIN image : image[j].node = <<>> <=> j = 1
      BY <1>4 DEF SaveClose, TableInv, ImageShape
    <3>2. 1 \in DOMAIN image
      BY <3>1, TypeFacts
    <3> QED
      BY <3>1, <3>2
  <2>3. 1 \in DOMAIN config' /\ config'[1] = image[1] /\ config' \in Seq(RecordType)
    <3>1. image \in Seq(RecordType) /\ config \in Seq(RecordType)
      BY TypeFacts
    <3> QED
      BY <2>1, <2>2, <3>1, WriteOverFacts
  <2>4. config' # <<>>
    BY <2>3
  <2> QED
    BY <1>1, <2>1, <2>2, <2>3, <2>4 DEF RootInv, HasRoot
<1>5. CASE SaveClear
  <2>1. saver = "clear" /\ config' = config /\ ~change'
    BY <1>5 DEF SaveClear
  <2> QED
    BY <1>1, <2>1 DEF RootInv, HasRoot
<1> QED
  BY <1>2, <1>3, <1>4, <1>5 DEF Save

(* The root's record is lost by a crash only, and only if the crash meets a *)
(* save between its fopen and its fclose.                                   *)
THEOREM RootLostInSaveOnly == Spec => RootIsSaved
<1>1. Init => RootInv
  BY DEF Init, RootInv, HasRoot, RootRecord
<1>2. TableInv /\ RootInv /\ [Next]_vars => RootInv'
  <2> SUFFICES ASSUME TableInv, RootInv, [Next]_vars PROVE RootInv'
    OBVIOUS
  <2>1. CASE Restart
    BY <2>1 DEF Restart, Load, RootInv, HasRoot
  <2>2. CASE UNCHANGED vars
    BY <2>2 DEF vars, RootInv, HasRoot
  <2> QED
    BY <2>1, <2>2, HandlerRoot, SaveRoot DEF Next
<1>3. TableInv /\ RootInv /\ [Next]_vars => [root /\ ~root' => saver \in {"copy", "close"}]_vars
  <2> SUFFICES ASSUME TableInv, RootInv, Next, root, ~root'
               PROVE  saver \in {"copy", "close"}
    OBVIOUS
  <2>1. CASE Restart
    <3>1. ~HasRoot(config)
      BY <2>1 DEF Restart, Load
    <3>2. saver \in {"idle", "copy", "close", "clear"}
      BY DEF TableInv, TypeOK
    <3> QED
      BY <3>1, <3>2 DEF RootInv
  <2> QED
    BY <2>1, HandlerRoot, SaveRoot DEF Next
<1> QED
  BY TableInvariance, <1>1, <1>2, <1>3, PTL DEF Spec, RootIsSaved

-----------------------------------------------------------------------------
(* What an inode number finds after a restart *)

(* The last record of a file is that of its last node, or of a creation,    *)
(* which has no chunk.                                                      *)
LEMMA RestartFinds ==
  ASSUME IInv, Restart, ~joined', NEW n, NEW j \in DOMAIN nodes', IsFound(n, j)'
  PROVE  \E i \in DOMAIN nodes :
           /\ IsFound(n, i)
           /\ nodes'[j].name = nodes[i].name
           /\ nodes'[j].chunks = <<>> \/ nodes'[j].chunks = nodes[i].chunks
<1>1. TableInv /\ TwinsInv
  BY DEF IInv
<1>2. /\ ~joined /\ HasNode(nodes'[j])
      /\ j \in Nat
  <2>1. PICK off \in 0..1 :
          /\ \A k \in DOMAIN nodes' : /\ k \in Nat /\ k + off \in DOMAIN config
                                      /\ config[k + off].node # <<>>
                                      /\ nodes'[k] = config[k + off].node[1]
          /\ ~joined
    BY <1>1, RestartFacts
  <2> QED
    BY <1>1, <2>1 DEF TwinsInv, RecordsKnown, FilesIn
<1>3. nodes'[j].inode = n /\ \A k \in DOMAIN nodes' : nodes'[k].inode = n => k <= j
  BY DEF IsFound
<1>4. PICK a \in DOMAIN nodes : nodes[a].name = nodes'[j].name /\ nodes[a].inode = n
  BY <1>2, <1>3 DEF HasNode
<1>5. PICK i \in {k \in DOMAIN nodes : nodes[k].inode = n} :
        \A k \in {l \in DOMAIN nodes : nodes[l].inode = n} : k <= i
  <2> DEFINE S == {k \in DOMAIN nodes : nodes[k].inode = n}
  <2>1. S # {} /\ S \subseteq 1..Len(nodes) /\ Len(nodes) \in Nat
    BY <1>1, <1>4, TypeFacts
  <2> HIDE DEF S
  <2>2. \E i \in S : \A k \in S : k <= i
    BY <2>1, LastPlace
  <2> QED
    BY <2>2 DEF S
<1>6. IsFound(n, i)
  BY <1>5 DEF IsFound
<1>7. nodes'[j].name = nodes[i].name
  <2>1. a = i \/ Twins(a, i)
    BY <1>1, <1>4, <1>5, TypeFacts DEF Twins
  <2> QED
    BY <1>1, <1>2, <1>4, <1>5, <2>1 DEF TwinsInv, TwinNames
<1>8. ASSUME nodes'[j].chunks # <<>> PROVE nodes'[j].chunks = nodes[i].chunks
  <2>1. /\ j \in DOMAIN nodes /\ nodes'[j].chunks = nodes[j].chunks
        /\ nodes'[j].inode = nodes[j].inode
        /\ HasRoot(config) /\ j + 1 \in DOMAIN config /\ config[j + 1].nl
    BY <1>1, <1>8, RestartForgets
  <2>2. ASSUME i # j PROVE FALSE
    <3>1. Twins(j, i)
      BY <1>1, <1>3, <1>5, <2>1, <2>2, TypeFacts DEF Twins
    <3>2. PICK q \in DOMAIN config : /\ q > j + 1 /\ config[q].node # <<>>
                                     /\ config[q].node[1].inode = nodes[j].inode
      BY <1>1, <1>2, <1>5, <2>1, <3>1 DEF TwinsInv, TwinRecords
    <3>3. q - 1 \in DOMAIN nodes' /\ nodes'[q - 1] = config[q].node[1]
      BY <1>1, <2>1, <3>2, RestartKeeps
    <3>4. q - 1 <= j
      BY <1>3, <2>1, <3>2, <3>3
    <3> QED
      BY <1>1, <1>2, <3>2, <3>4, TypeFacts
  <2> QED
    BY <2>1, <2>2
<1> QED
  BY <1>5, <1>6, <1>7, <1>8

(* After a restart an inode number finds what it found before, with the     *)
(* same chunk or none, or nothing: also of a creation that is on disk       *)
(* twice, because a save wrote it before fs_creat_file did.                 *)
THEOREM RestartsFindOlder == Spec => RestartFindsOlder
<1>1. IInv /\ [Next]_vars =>
        [~joined' /\ Restart =>
           \A n \in 2..MaxInode, j \in DOMAIN nodes' :
             IsFound(n, j)' =>
               \E i \in DOMAIN nodes :
                 /\ IsFound(n, i)
                 /\ nodes'[j].name = nodes[i].name
                 /\ nodes'[j].chunks = <<>> \/ nodes'[j].chunks = nodes[i].chunks]_vars
  BY RestartFinds
<1> QED
  BY Invariance, <1>1, PTL DEF Spec, RestartFindsOlder
=============================================================================
