--------------------------- MODULE TransferProofs ---------------------------
(***************************************************************************)
(* Proofs about Transfer, for any number of clients, names, sizes, uploads *)
(* and deaths: IInv is an inductive invariant, and with it what is         *)
(* promised to the readers of a file holds of every behaviour.             *)
(***************************************************************************)
EXTENDS Transfer, FiniteSetTheorems, TLAPS

USE DEF RETRIES, FirstChunk

(* The uploads of a name can be counted. *)
LEMMA UploadsAreFinite ==
  ASSUME TypeOK, NEW name
  PROVE  IsFiniteSet(UploadsOf(name))
<1>1. Len(uploads) \in Nat /\ DOMAIN uploads = 1 .. Len(uploads)
  BY DEF TypeOK
<1>2. IsFiniteSet(1 .. Len(uploads))
  BY <1>1, FS_Interval
<1>3. UploadsOf(name) \in SUBSET (1 .. Len(uploads))
  BY <1>1 DEF UploadsOf
<1> QED
  BY <1>2, <1>3, FS_Subset

(* A name that was uploaded once has one upload. *)
LEMMA OnlyUpload ==
  ASSUME TypeOK, NEW name, Once(name)
  PROVE  \E u \in DOMAIN uploads : UploadsOf(name) = {u}
<1>1. \E u : UploadsOf(name) = {u}
  BY UploadsAreFinite, FS_Singleton DEF Once
<1> QED
  BY <1>1 DEF UploadsOf

(* What is said of the uploads of a name does not change with them. *)
LEMMA SameUploads ==
  ASSUME uploads' = uploads, NEW name
  PROVE  UploadsOf(name)' = UploadsOf(name) /\ (Once(name)' <=> Once(name))
  BY DEF UploadsOf, Once

(* A new upload is one more for its name, and nothing to the others.        *)
LEMMA NewUpload ==
  ASSUME TypeOK, NEW up \in [name : Names, size : Sizes], uploads' = Append(uploads, up)
  PROVE  /\ Len(uploads') = Len(uploads) + 1
         /\ uploads' \in Seq([name : Names, size : Sizes])
         /\ DOMAIN uploads' = DOMAIN uploads \cup {Len(uploads')}
         /\ \A u \in DOMAIN uploads : uploads'[u] = uploads[u] /\ u # Len(uploads')
         /\ uploads'[Len(uploads')] = up
         /\ \A name : name # up.name => UploadsOf(name)' = UploadsOf(name)
         /\ UploadsOf(up.name)' = UploadsOf(up.name) \cup {Len(uploads')}
<1>1. /\ Len(uploads') = Len(uploads) + 1
      /\ uploads' \in Seq([name : Names, size : Sizes])
      /\ Len(uploads) \in Nat /\ DOMAIN uploads = 1 .. Len(uploads)
      /\ DOMAIN uploads' = 1 .. Len(uploads')
  BY DEF TypeOK
<1>2. DOMAIN uploads' = DOMAIN uploads \cup {Len(uploads')}
  BY <1>1
<1>3. \A u \in DOMAIN uploads : uploads'[u] = uploads[u] /\ u # Len(uploads')
  BY <1>1 DEF TypeOK
<1>4. uploads'[Len(uploads')] = up
  BY <1>1 DEF TypeOK
<1>5. \A name : UploadsOf(name)' = UploadsOf(name) \cup (IF name = up.name THEN {Len(uploads')} ELSE {})
  BY <1>2, <1>3, <1>4 DEF UploadsOf
<1> QED
  BY <1>1, <1>2, <1>3, <1>4, <1>5

(* A name that has now been uploaded once, and is not the name of the new   *)
(* upload alone, had been uploaded once before.                             *)
LEMMA OnceBefore ==
  ASSUME TypeOK, NEW up \in [name : Names, size : Sizes], uploads' = Append(uploads, up),
         NEW name, UploadsOf(name) # {}, Once(name)'
  PROVE  name # up.name /\ Once(name) /\ UploadsOf(name)' = UploadsOf(name)
<1>1. SUFFICES name # up.name
  BY NewUpload DEF Once
<1>2. SUFFICES ASSUME name = up.name PROVE FALSE
  OBVIOUS
<1>3. UploadsOf(name)' = UploadsOf(name) \cup {Len(uploads')}
  BY <1>2, NewUpload
<1>4. Len(uploads') \notin UploadsOf(name)
  BY NewUpload DEF UploadsOf
<1>6. IsFiniteSet(UploadsOf(name))
  BY UploadsAreFinite
<1>7. Cardinality(UploadsOf(name)') = Cardinality(UploadsOf(name)) + 1
  BY <1>3, <1>4, <1>6, FS_AddElement
<1>8. Cardinality(UploadsOf(name)) # 0
  BY <1>6, FS_EmptySet
<1> QED
  BY <1>6, <1>7, <1>8, FS_CardinalityType DEF Once

-----------------------------------------------------------------------------
(* Steps of one client. *)

(* What a client knows stays true while others act, if they leave the table *)
(* alone, give no chunk a second time, and keep the bytes of c.             *)
LEMMA ClientStays ==
  ASSUME UNCHANGED <<files, uploads, stale, forgotten>>,
         \A k : Pending(k)' => Pending(k),
         DOMAIN chunks \subseteq DOMAIN chunks',
         \A k \in DOMAIN chunks' : k \in DOMAIN chunks \/ Pending(k),
         NEW c \in Clients, drw'[c] = drw[c], WriterInv(c), ReaderInv(c),
         waiting' = waiting \/ drw[c].pc # "blocked",
         drw[c].pc = "data" /\ drw[c].conn /\ saving # <<>> =>
           /\ saving' # <<>> /\ saving'[1].by = saving[1].by
           /\ saving'[1].in = saving[1].in /\ saving'[1].chunk = saving[1].chunk,
         drw[c].pc = "end" =>
           \A j \in DOMAIN files : files[j].chunk = drw[c].chunk /\ Quiet(j, drw[c].chunk)
                                     /\ Once(files[j].name) /\ Stored(j) => Stored(j)'
  PROVE  WriterInv(c)' /\ ReaderInv(c)'
<1>1. \A name : UploadsOf(name)' = UploadsOf(name) /\ (Once(name)' <=> Once(name))
  BY SameUploads
<1>2. \A k : Known(k)' <=> Known(k)
  BY DEF Known
<1>3. \A bytes, name : Whole(bytes, name)' <=> Whole(bytes, name)
  BY <1>1 DEF Whole
<1>4. \A j, k : Quiet(j, k)' <=> Quiet(j, k)
  BY DEF Quiet
<1>5. (Writing(c)' <=> Writing(c)) /\ (Reading(c)' <=> Reading(c))
  BY DEF Writing, Reading
<1>6. InodeInv(c) => InodeInv(c)'
  BY DEF InodeInv
<1>7. ChunkInv(c) => ChunkInv(c)'
  BY <1>2, <1>4 DEF ChunkInv
<1>8. ASSUME DataInv(c) PROVE DataInv(c)'
  <2>0. PICK d : drw[c] = d /\ drw'[c] = d
    OBVIOUS
  <2>1. ~d.conn /\ d.chunk \notin forgotten =>
          d.chunk \notin DOMAIN chunks' /\ ~Pending(d.chunk)'
    BY <1>8, <2>0 DEF DataInv
  <2>2. d.pc \in {"data", "end"} /\ d.conn => d.chunk \in DOMAIN chunks'
    BY <1>8, <2>0 DEF DataInv
  <2>3. d.pc = "data" /\ d.conn =>
          /\ saving' # <<>> /\ saving'[1].by = d.upload
          /\ saving'[1].in = "open" /\ saving'[1].chunk = d.chunk
    BY <1>8, <2>0 DEF DataInv
  <2>4. ASSUME d.pc = "end", NEW j \in DOMAIN files, files[j].chunk = d.chunk,
               Quiet(j, d.chunk), Once(files[j].name)
        PROVE  Stored(j)'
    BY <1>8, <2>0, <2>4 DEF DataInv
  <2>5. d.pc = "end" =>
          \A j \in DOMAIN files' :
            files'[j].chunk = d.chunk /\ Quiet(j, d.chunk)' /\ Once(files[j].name)' => Stored(j)'
    <3>1. \A j : Once(files[j].name)' <=> Once(files[j].name)
      BY DEF Once, UploadsOf
    <3> QED
      BY <1>4, <2>4, <3>1
  <2> QED
    BY <1>8, <2>0, <2>1, <2>2, <2>3, <2>5 DEF DataInv
<1>9. WriterInv(c)'
  BY <1>5, <1>6, <1>7, <1>8 DEF WriterInv
<1>10. ReaderInv(c)'
  BY <1>1, <1>3, <1>4, <1>5 DEF ReaderInv
<1> QED
  BY <1>9, <1>10

(* A client whose surroundings stay the same stays as it was. *)
LEMMA OtherClient ==
  ASSUME UNCHANGED <<files, chunks, saving, uploads, stale, forgotten>>,
         \A k : Pending(k)' => Pending(k),
         NEW c \in Clients, drw'[c] = drw[c], WriterInv(c), ReaderInv(c),
         waiting' = waiting \/ drw[c].pc # "blocked"
  PROVE  WriterInv(c)' /\ ReaderInv(c)'
<1>1. \A bytes, name : Whole(bytes, name)' <=> Whole(bytes, name)
  BY SameUploads DEF Whole
<1>2. \A j : Stored(j)' <=> Stored(j)
  BY <1>1 DEF Stored
<1> QED
  BY <1>2, ClientStays

(* A file that has its size keeps what that means while its bytes stay.     *)
LEMMA SizedStays ==
  ASSUME SizedInv, files' = files, \A k : Pending(k)' => Pending(k),
         \A name : UploadsOf(name)' = UploadsOf(name) /\ (Once(name)' <=> Once(name)),
         uploads' = uploads, \A j, k : Quiet(j, k)' <=> Quiet(j, k),
         \A j \in DOMAIN files :
           files[j].size # 0 /\ Once(files[j].name) /\ Quiet(j, files[j].chunk) /\ Stored(j)
             => Stored(j)',
         stale' = stale, forgotten' = forgotten,
         \A e \in Clients : Writing(e)' => Writing(e) /\ drw'[e].upload = drw[e].upload
  PROVE  SizedInv'
<1>1. SUFFICES ASSUME NEW j \in DOMAIN files,
                      Once(files[j].name), j \notin stale, files[j].size # 0
               PROVE  /\ files[j].chunk \notin forgotten => Stored(j)' /\ ~Pending(files[j].chunk)'
                      /\ \A u \in UploadsOf(files[j].name) :
                           /\ files[j].size = uploads[u].size
                           /\ files[j].had \subseteq {0, uploads[u].size}
                           /\ \A e \in Clients : Writing(e)' => drw'[e].upload # u
  BY DEF SizedInv, Sized
<1>2. /\ files[j].chunk \notin forgotten => Stored(j) /\ ~Pending(files[j].chunk)
      /\ \A u \in UploadsOf(files[j].name) :
           /\ files[j].size = uploads[u].size /\ files[j].had \subseteq {0, uploads[u].size}
           /\ \A e \in Clients : Writing(e) => drw[e].upload # u
  BY <1>1 DEF SizedInv, Sized
<1> QED
  BY <1>1, <1>2 DEF Quiet

(* A step that only changes the variables of c preserves the invariant if   *)
(* they satisfy theirs, and c writes nothing that it has not written.       *)
LEMMA ClientStep ==
  ASSUME IInv, NEW c \in Clients, UNCHANGED <<ser, dat, uploads, life>>,
         drw' \in [Clients -> Drws], \A e \in Clients \ {c} : drw'[e] = drw[e],
         Writing(c)' => Writing(c) /\ drw'[c].upload = drw[c].upload,
         WriterInv(c)', ReaderInv(c)'
  PROVE  IInv'
<1>1. TypeOK'
  BY DEF IInv, TypeOK, ser, dat, life
<1>2. \A name : UploadsOf(name)' = UploadsOf(name) /\ (Once(name)' <=> Once(name))
  BY SameUploads
<1>3. \A k : Known(k)' <=> Known(k)
  BY DEF Known, ser, life
<1>4. \A k : Pending(k)' <=> Pending(k)
  BY DEF Pending, Asked, ser
<1>5. \A bytes, name : Whole(bytes, name)' <=> Whole(bytes, name)
  BY <1>2 DEF Whole
<1>6. \A j : Stored(j)' <=> Stored(j)
  BY <1>5 DEF Stored, ser, dat
<1>7. \A j, k : Quiet(j, k)' <=> Quiet(j, k)
  BY DEF Quiet, life
<1>8. TableInv'
  BY <1>2, <1>3 DEF IInv, TableInv, Asked, ser, dat, life
<1>9. ChunksInv'
  BY <1>3, <1>7 DEF IInv, ChunksInv, ser, dat, life
<1>10. BytesStayHome'
  BY <1>7 DEF IInv, BytesStayHome, ser, dat
<1>11. \A e \in Clients : Writing(e)' => Writing(e) /\ drw'[e].upload = drw[e].upload
  BY DEF Writing
<1>12. SizedInv'
  BY <1>2, <1>4, <1>6, <1>7, <1>11, SizedStays DEF IInv, ser, life
<1>13. \A e \in Clients : WriterInv(e)' /\ ReaderInv(e)'
  BY <1>4, OtherClient DEF IInv, ClientsInv, ser, dat, life
<1>14. ClientsInv'
  BY <1>11, <1>13 DEF IInv, ClientsInv
<1> QED
  BY <1>1, <1>8, <1>9, <1>10, <1>12, <1>14 DEF IInv

(* A command that ends leaves nothing behind. *)
LEMMA EndStep ==
  ASSUME IInv, NEW c \in Clients, End(c), UNCHANGED <<ser, dat, uploads, life>>
  PROVE  IInv'
<1>1. drw' \in [Clients -> Drws] /\ drw'[c] = Idle /\ \A e \in Clients \ {c} : drw'[e] = drw[e]
  BY DEF End, IInv, TypeOK, Drws, Idle, Empty, Bytes, Places
<1>2. ~Writing(c)' /\ ~Reading(c)'
  BY <1>1 DEF Idle, Writing, Reading
<1>3. WriterInv(c)' /\ ReaderInv(c)'
  BY <1>1, <1>2 DEF WriterInv, ReaderInv, Idle
<1> QED
  BY <1>1, <1>2, <1>3, ClientStep

(* What a request of c to ser begins with. *)
LEMMA ClientType ==
  ASSUME IInv, NEW c \in Clients
  PROVE  drw \in [Clients -> Drws] /\ drw[c] \in Drws /\ WriterInv(c) /\ ReaderInv(c)
  BY DEF IInv, TypeOK, ClientsInv

(* c goes on, with a file and a chunk, in the same command.                 *)
LEMMA GoesOn ==
  ASSUME IInv, NEW c \in Clients, UNCHANGED <<ser, dat, uploads, life>>,
         NEW d \in Drws, drw' = [drw EXCEPT ![c] = d],
         Writing(c)' => Writing(c) /\ d.upload = drw[c].upload,
         WriterInv(c)', ReaderInv(c)'
  PROVE  IInv'
<1>1. drw' \in [Clients -> Drws] /\ drw'[c] = d /\ \A e \in Clients \ {c} : drw'[e] = drw[e]
  BY ClientType
<1> QED
  BY <1>1, ClientStep

(* The name is looked up. *)
LEMMA JudgeNameStep ==
  ASSUME IInv, NEW c \in Clients, JudgeName(c)
  PROVE  IInv'
<1> USE ClientType DEF Drws, Places
<1>0. UNCHANGED <<ser, dat, uploads, life>> /\ drw[c].pc = "judge" /\ InodeInv(c)
  BY DEF JudgeName, Calls, WriterInv, Writing
<1>1. CASE ~Exists(drw[c].name[1]) /\ Goto(c, "creat")
  <2>1. drw' = [drw EXCEPT ![c] = [drw[c] EXCEPT !.pc = "creat"]]
    BY <1>1 DEF Goto
  <2>2. Writing(c) /\ ~Reading(c)' /\ InodeInv(c)'
    BY <1>0, <2>1 DEF Writing, Reading, InodeInv, ser, life
  <2>3. WriterInv(c)' /\ ReaderInv(c)'
    BY <2>1, <2>2 DEF WriterInv, ReaderInv
  <2> QED
    BY <1>0, <2>1, <2>2, <2>3, GoesOn
<1>2. CASE \E j \in DOMAIN files : /\ Finds(drw[c].name[1], j)
                                   /\ drw' = [drw EXCEPT ![c].inode = j, ![c].pc = "chunk"]
  <2>1. PICK j \in DOMAIN files : /\ Finds(drw[c].name[1], j)
                                  /\ drw' = [drw EXCEPT ![c] = [drw[c] EXCEPT !.inode = j, !.pc = "chunk"]]
    BY <1>2
  <2>2. j \in Nat
    BY SMTT(30) DEF IInv, TypeOK
  <2>3. Writing(c) /\ ~Reading(c)' /\ InodeInv(c)'
    BY <1>0, <2>1, <2>2 DEF Writing, Reading, InodeInv, Finds, ser, life
  <2>4. WriterInv(c)' /\ ReaderInv(c)'
    BY <2>1, <2>3 DEF WriterInv, ReaderInv
  <2> QED
    BY <1>0, <2>1, <2>2, <2>3, <2>4, GoesOn
<1> QED
  BY <1>1, <1>2 DEF JudgeName

(* A turn begins. *)
LEMMA TurnType ==
  ASSUME IInv, NEW c \in Clients, drw[c].pc \in {"chunk", "rchunk"}
  PROVE  /\ drw[c].cnt + 1 \in 0 .. RETRIES
         /\ Turn(c) = [drw EXCEPT ![c] = [drw[c] EXCEPT !.cnt = drw[c].cnt + 1, !.conn = FALSE]]
<1>1. drw \in [Clients -> Drws] /\ drw[c] \in Drws /\ drw[c].cnt < RETRIES
  BY ClientType DEF WriterInv, ReaderInv, Writing, Reading, InodeInv
<1>2. drw[c].cnt \in 0 .. RETRIES
  BY <1>1 DEF Drws
<1>3. drw[c].cnt + 1 \in 0 .. RETRIES
  BY <1>1, <1>2
<1>4. Turn(c) = [drw EXCEPT ![c] = [drw[c] EXCEPT !.cnt = drw[c].cnt + 1, !.conn = FALSE]]
  BY <1>1 DEF Turn
<1> QED
  BY <1>3, <1>4

(* A turn in which ser gives no chunk. *)
LEMMA NoChunkStep ==
  ASSUME IInv, NEW c \in Clients, drw[c].pc \in {"chunk", "rchunk"}, NoChunk(c),
         UNCHANGED <<ser, dat, uploads, life>>
  PROVE  IInv'
<1> DEFINE d == [drw[c] EXCEPT !.cnt = drw[c].cnt + 1, !.conn = FALSE]
<1>1. Turn(c) = [drw EXCEPT ![c] = d] /\ d \in Drws /\ d.cnt = drw[c].cnt + 1
  BY TurnType, ClientType DEF Drws
<1>2. CASE Turn(c)[c].cnt >= RETRIES
  BY <1>2, EndStep DEF NoChunk
<1>3. CASE ~(Turn(c)[c].cnt >= RETRIES)
  <2>0. Turn(c)[c] = d
    BY <1>1, ClientType
  <2>1. drw' = [drw EXCEPT ![c] = d] /\ d.cnt < RETRIES
    <3>1. d.cnt \in 0 .. RETRIES
      BY <1>1 DEF Drws
    <3>2. ~(d.cnt >= RETRIES)
      BY <2>0, <1>3
    <3> QED
      BY <1>1, <1>3, <3>1, <3>2 DEF NoChunk
  <2>2. drw'[c] = d
    BY <2>1, ClientType
  <2>3. /\ d.pc = drw[c].pc /\ d.inode = drw[c].inode /\ d.name = drw[c].name
        /\ d.upload = drw[c].upload /\ d.size = drw[c].size
    BY ClientType DEF Drws
  <2>4. (Writing(c)' <=> Writing(c)) /\ (Reading(c)' <=> Reading(c))
    BY <2>2, <2>3 DEF Writing, Reading
  <2>5. WriterInv(c)'
    BY <2>1, <2>2, <2>3, <2>4, ClientType DEF WriterInv, InodeInv, ser, life
  <2>6. ReaderInv(c)'
    BY <2>1, <2>2, <2>3, <2>4, ClientType DEF ReaderInv, ser, life
  <2> HIDE DEF d
  <2> QED
    BY <1>1, <2>1, <2>3, <2>4, <2>5, <2>6, GoesOn
<1> QED
  BY <1>2, <1>3

(* The chunk of the file is asked for; the select loop may have to wait.    *)
LEMMA WriteChunkStep ==
  ASSUME IInv, NEW c \in Clients, WriteChunk(c)
  PROVE  IInv'
<1>0. /\ UNCHANGED <<dat, uploads, life>> /\ drw[c].pc = "chunk" /\ waiting = <<>>
      /\ Writing(c) /\ InodeInv(c)
  BY ClientType DEF WriteChunk, Calls, WriterInv, Writing
<1> DEFINE inode == drw[c].inode
<1>1. CASE NoChunk(c) /\ UNCHANGED ser
  BY <1>0, <1>1, NoChunkStep
<1>2. CASE /\ IsFile(inode) /\ files[inode].chunk # 0
           /\ drw' = [Turn(c) EXCEPT ![c].chunk = files[inode].chunk, ![c].pc = "connect"]
           /\ UNCHANGED ser
  <2>1. inode \in Nat /\ inode # 0 /\ inode \in DOMAIN files /\ files[inode].chunk \in Nat
    <3>1. inode \in DOMAIN files /\ files \in Seq(File)
      BY <1>2 DEF IsFile, IInv, TypeOK
    <3>2. inode \in 1 .. Len(files) /\ files[inode] \in File
      BY <3>1
    <3> QED
      BY <3>1, <3>2 DEF File
  <2>2. PICK d \in Drws :
          /\ drw' = [drw EXCEPT ![c] = d]
          /\ d = [drw[c] EXCEPT !.cnt = drw[c].cnt + 1, !.conn = FALSE,
                                !.chunk = files[inode].chunk, !.pc = "connect"]
    BY <1>0, <1>2, <2>1, TurnType, ClientType, ZenonT(60) DEF Drws, Places
  <2>3. drw'[c] = d
    BY <2>2, ClientType
  <2>4. /\ d.pc = "connect" /\ d.inode = inode /\ d.name = drw[c].name /\ d.chunk = files[inode].chunk
        /\ d.upload = drw[c].upload /\ d.size = drw[c].size
    BY <2>2, ClientType DEF Drws
  <2>5. Writing(c)' /\ ~Reading(c)' /\ InodeInv(c)'
    BY <1>0, <1>2, <2>3, <2>4 DEF Writing, Reading, InodeInv, ser, life
  <2>6. ChunkInv(c)'
    <3>1. Known(d.chunk)' /\ d.chunk # 0 /\ d.inode # 0
      <4>1. files' = files
        BY <1>2 DEF ser
      <4>2. inode \in DOMAIN files' /\ files'[inode].chunk = d.chunk
        BY <4>1, <2>1, <2>4
      <4> QED
        BY <1>2, <2>1, <2>4, <4>2 DEF Known
    <3>2. d.inode \notin stale' => files'[d.inode].chunk = d.chunk
      BY <1>2, <2>4 DEF ser
    <3>3. ASSUME NEW j \in DOMAIN files, files[j].chunk = d.chunk, Quiet(j, d.chunk)
          PROVE  files[j].name = d.name[1]
      <4>1. j = inode
        BY <1>2, <2>1, <2>4, <3>3 DEF IInv, TableInv
      <4> QED
        BY <1>0, <2>1, <2>4, <3>3, <4>1 DEF Quiet, InodeInv
    <3>4. \A j \in DOMAIN files' : files'[j].chunk = d.chunk /\ Quiet(j, d.chunk)' =>
                                     files'[j].name = d.name[1]
      BY <1>0, <1>2, <3>3 DEF Quiet, ser, life
    <3> HIDE DEF inode
    <3> QED
      BY <2>3, <3>1, <3>2, <3>4 DEF ChunkInv
  <2>7. WriterInv(c)' /\ ReaderInv(c)'
    BY <2>3, <2>4, <2>5, <2>6 DEF WriterInv, ReaderInv
  <2> QED
    BY <1>0, <1>2, <2>2, <2>4, <2>7, GoesOn
<1>3. CASE /\ IsFile(inode) /\ files[inode].chunk = 0
           /\ next_chunkid' = next_chunkid + 1
           /\ waiting' = <<c, inode>>
           /\ drw' = [Turn(c) EXCEPT ![c].pc = "blocked"]
           /\ UNCHANGED <<files, link, lock>>
  <2>1. PICK d \in Drws :
          /\ drw' = [drw EXCEPT ![c] = d]
          /\ d = [drw[c] EXCEPT !.cnt = drw[c].cnt + 1, !.conn = FALSE, !.pc = "blocked"]
    <3>1. drw' = [drw EXCEPT ![c] =
                    [drw[c] EXCEPT !.cnt = drw[c].cnt + 1, !.conn = FALSE, !.pc = "blocked"]]
      BY <1>0, <1>3, TurnType, ClientType, ZenonT(60)
    <3>2. [drw[c] EXCEPT !.cnt = drw[c].cnt + 1, !.conn = FALSE, !.pc = "blocked"] \in Drws
      BY <1>0, TurnType, ClientType, ZenonT(60) DEF Drws, Places
    <3> QED
      BY <3>1, <3>2
  <2>2. drw'[c] = d /\ drw' \in [Clients -> Drws] /\ \A e \in Clients \ {c} : drw'[e] = drw[e]
    BY <2>1, ClientType
  <2>3. /\ d.pc = "blocked" /\ d.inode = inode /\ d.name = drw[c].name
        /\ d.upload = drw[c].upload /\ d.size = drw[c].size
    BY <2>1, ClientType DEF Drws
  <2>4. next_chunkid \in Nat /\ next_chunkid >= FirstChunk
    BY DEF IInv, TypeOK, TableInv
  <2>5. Asked = next_chunkid /\ Asked' = next_chunkid /\ waiting' # <<>>
    BY <1>0, <1>3, <2>4 DEF Asked
  <2>6. TypeOK'
    BY <1>0, <1>3, <2>2, <2>4 DEF IInv, TypeOK, IsFile, dat, life
  <2>7. \A name : UploadsOf(name)' = UploadsOf(name) /\ (Once(name)' <=> Once(name))
    BY <1>0, SameUploads
  <2>8. (\A k : Known(k)' <=> Known(k)) /\ (\A k : Pending(k)' <=> Pending(k))
    BY <1>0, <1>3, <2>5 DEF Known, Pending, life
  <2>9. \A bytes, name : Whole(bytes, name)' <=> Whole(bytes, name)
    BY <1>0, <2>7 DEF Whole
  <2>10. \A j : Stored(j)' <=> Stored(j)
    BY <1>0, <1>3, <2>9 DEF Stored, dat
  <2>11. \A j, k : Quiet(j, k)' <=> Quiet(j, k)
    BY <1>0 DEF Quiet, life
  <2>12. TableInv'
    <3>1. Once(files[inode].name) /\ inode \notin stale => files[inode].size = 0
      BY <1>0, <1>3 DEF IInv, SizedInv, Sized, IsFile, InodeInv, UploadsOf
    <3> QED
      BY <1>0, <1>3, <2>4, <2>5, <2>7, <2>8, <3>1 DEF IInv, TableInv, IsFile, dat, life
  <2>13. ChunksInv'
    BY <1>0, <1>3, <2>8, <2>11 DEF IInv, ChunksInv, dat, life
  <2>14. BytesStayHome'
    BY <1>0, <1>3, <2>11 DEF IInv, BytesStayHome, dat
  <2>15. \A e \in Clients : Writing(e)' => Writing(e) /\ drw'[e].upload = drw[e].upload
    BY <1>0, <2>2, <2>3 DEF Writing
  <2>16. SizedInv'
    BY <1>0, <1>3, <2>7, <2>8, <2>10, <2>11, <2>15, SizedStays DEF IInv, life
  <2>17. ASSUME NEW e \in Clients
         PROVE  WriterInv(e)' /\ ReaderInv(e)'
    <3>1. CASE e = c
      BY <1>0, <1>3, <2>2, <2>3, <3>1 DEF WriterInv, ReaderInv, Writing, Reading, InodeInv, life
    <3>2. CASE e # c
      <4>1. drw'[e] = drw[e] /\ WriterInv(e) /\ ReaderInv(e)
        BY <2>2, <3>2, ClientType
      <4>2. drw[e].pc # "blocked"
        BY <1>0, <4>1 DEF WriterInv, InodeInv, Writing
      <4> QED
        BY <1>0, <1>3, <2>8, <4>1, <4>2, OtherClient DEF dat, life
    <3> QED
      BY <3>1, <3>2
  <2>18. ClientsInv'
    BY <2>15, <2>17 DEF IInv, ClientsInv
  <2> QED
    BY <2>6, <2>12, <2>13, <2>14, <2>16, <2>18 DEF IInv
<1> QED
  BY <1>0, <1>1, <1>2, <1>3 DEF WriteChunk

(* A step in which c only moves on, and perhaps gets or loses a connection. *)
LEMMA MovesOn ==
  ASSUME IInv, NEW c \in Clients, UNCHANGED <<ser, dat, uploads, life>>,
         NEW pc \in Places, NEW conn \in BOOLEAN, NEW cnt \in 0 .. RETRIES,
         drw' = [drw EXCEPT ![c] = [drw[c] EXCEPT !.pc = pc, !.conn = conn, !.cnt = cnt]],
         Writing(c)' => Writing(c), WriterInv(c)', ReaderInv(c)'
  PROVE  IInv'
<1>1. PICK d \in Drws : /\ drw' = [drw EXCEPT ![c] = d]
                        /\ d.upload = drw[c].upload
  <2>1. [drw[c] EXCEPT !.pc = pc, !.conn = conn, !.cnt = cnt] \in Drws
    BY ClientType DEF Drws
  <2>2. [drw[c] EXCEPT !.pc = pc, !.conn = conn, !.cnt = cnt].upload = drw[c].upload
    BY ClientType DEF Drws
  <2> QED
    BY <2>1, <2>2
<1> QED
  BY <1>1, GoesOn

(* What c has in hand after such a step. *)
LEMMA MovesTo ==
  ASSUME IInv, NEW c \in Clients,
         NEW pc, NEW conn, NEW cnt,
         drw' = [drw EXCEPT ![c] = [drw[c] EXCEPT !.pc = pc, !.conn = conn, !.cnt = cnt]]
  PROVE  /\ drw'[c].pc = pc /\ drw'[c].conn = conn /\ drw'[c].cnt = cnt
         /\ drw'[c].name = drw[c].name /\ drw'[c].upload = drw[c].upload
         /\ drw'[c].inode = drw[c].inode /\ drw'[c].chunk = drw[c].chunk
         /\ drw'[c].size = drw[c].size /\ drw'[c].got = drw[c].got
  BY ClientType DEF Drws

(* Goto leaves connection and turns alone. *)
LEMMA GotoMoves ==
  ASSUME IInv, NEW c \in Clients, NEW pc, Goto(c, pc)
  PROVE  /\ drw[c].conn \in BOOLEAN /\ drw[c].cnt \in 0 .. RETRIES
         /\ drw' = [drw EXCEPT ![c] = [drw[c] EXCEPT !.pc = pc, !.conn = drw[c].conn,
                                                       !.cnt = drw[c].cnt]]
  BY ClientType DEF Goto, Drws

(* The file and the chunk of a writer that moves on stay the same. *)
LEMMA WriterMoves ==
  ASSUME IInv, NEW c \in Clients, UNCHANGED <<ser, dat, uploads, life>>,
         NEW pc, NEW conn, NEW cnt,
         drw' = [drw EXCEPT ![c] = [drw[c] EXCEPT !.pc = pc, !.conn = conn, !.cnt = cnt]]
  PROVE  /\ InodeInv(c) /\ pc # "blocked" /\ (pc \in {"judge", "creat", "chunk"} => cnt < RETRIES)
              => InodeInv(c)'
         /\ ChunkInv(c) => ChunkInv(c)'
<1>1. ASSUME InodeInv(c), pc # "blocked", pc \in {"judge", "creat", "chunk"} => cnt < RETRIES
      PROVE  InodeInv(c)'
  BY <1>1, MovesTo, ZenonT(60) DEF InodeInv, ser, life
<1>2. ASSUME ChunkInv(c) PROVE ChunkInv(c)'
  <2>1. (\A k : Known(k)' <=> Known(k)) /\ (\A j, k : Quiet(j, k)' <=> Quiet(j, k))
    BY DEF Known, Quiet, ser, life
  <2>2. /\ drw'[c].name = drw[c].name /\ drw'[c].inode = drw[c].inode
        /\ drw'[c].chunk = drw[c].chunk /\ files' = files /\ stale' = stale
    BY MovesTo DEF ser, life
  <2>3. Known(drw[c].chunk)'
    BY <1>2, <2>1 DEF ChunkInv, Known, ser, life
  <2> QED
    BY <1>2, <2>1, <2>2, <2>3 DEF ChunkInv, Known, ser, life
<1> QED
  BY <1>1, <1>2

(* What drw knows of the bytes that it has no connection for.               *)
LEMMA DataMoves ==
  ASSUME IInv, NEW c \in Clients, UNCHANGED <<ser, dat, uploads, life>>,
         NEW pc \in {"wait", "data", "end"}, Goto(c, pc), DataInv(c), ChunkInv(c),
         drw[c].size # 0, ~drw[c].conn \/ pc = "wait"
  PROVE  DataInv(c)'
<1>1. /\ drw'[c].pc = pc /\ drw'[c].conn = drw[c].conn /\ drw'[c].size = drw[c].size
      /\ drw'[c].chunk = drw[c].chunk /\ drw'[c].upload = drw[c].upload
  BY ClientType DEF Goto, Drws
<1>2. \A name : UploadsOf(name)' = UploadsOf(name) /\ (Once(name)' <=> Once(name))
  BY SameUploads
<1>3. \A k : Pending(k)' <=> Pending(k)
  BY DEF Pending, Asked, ser
<1>4. ~drw[c].conn /\ drw[c].chunk \notin forgotten =>
        drw[c].chunk \notin DOMAIN chunks /\ ~Pending(drw[c].chunk)
  BY DEF DataInv
<1>5. ASSUME pc = "end", NEW j \in DOMAIN files, files[j].chunk = drw[c].chunk,
             Quiet(j, drw[c].chunk)
      PROVE  Stored(j)'
  BY <1>4, <1>5 DEF Quiet, Stored, ser, dat
<1>6. \A j, k : Quiet(j, k)' <=> Quiet(j, k)
  BY DEF Quiet, life
<1>7. \A j \in DOMAIN files' :
        drw'[c].pc = "end" /\ files'[j].chunk = drw'[c].chunk /\ Quiet(j, drw[c].chunk)'
          => Stored(j)'
  BY <1>1, <1>5, <1>6 DEF ser
<1> QED
  BY <1>1, <1>3, <1>4, <1>7 DEF DataInv, dat, life

(* drw connects to dat. *)
LEMMA ConnectStep ==
  ASSUME IInv, NEW c \in Clients, Connect(c)
  PROVE  IInv'
<1>0. /\ UNCHANGED <<ser, dat, uploads, life>> /\ drw[c].pc = "connect"
      /\ Writing(c) /\ InodeInv(c) /\ ChunkInv(c)
      /\ drw[c].conn \in BOOLEAN /\ drw[c].cnt \in 0 .. RETRIES
  BY ClientType DEF Connect, WriterInv, Writing, Drws
<1>1. CASE End(c)
  BY <1>0, <1>1, EndStep
<1>2. CASE drw' = [drw EXCEPT ![c].conn = TRUE, ![c].cnt = 0, ![c].pc = "info"]
  <2>1. drw' = [drw EXCEPT ![c] = [drw[c] EXCEPT !.pc = "info", !.conn = TRUE, !.cnt = 0]]
    BY <1>2, ClientType DEF Drws
  <2>2. drw'[c].pc = "info" /\ drw'[c].conn = TRUE
    BY <2>1, ClientType DEF Drws
  <2>3. InodeInv(c)' /\ ChunkInv(c)' /\ DataInv(c)'
    BY <1>0, <2>1, <2>2, WriterMoves DEF DataInv
  <2>4. WriterInv(c)' /\ ReaderInv(c)'
    BY <2>2, <2>3 DEF WriterInv, ReaderInv, Reading
  <2>5. "info" \in Places /\ TRUE \in BOOLEAN /\ 0 \in 0 .. RETRIES
    BY DEF Places
  <2> QED
    BY <1>0, <2>1, <2>4, <2>5, MovesOn
<1>3. CASE Goto(c, "chunk") /\ drw[c].cnt < RETRIES
  <2>1. drw' = [drw EXCEPT ![c] = [drw[c] EXCEPT !.pc = "chunk", !.conn = drw[c].conn,
                                                   !.cnt = drw[c].cnt]]
    BY <1>3, GotoMoves
  <2>2. drw'[c].pc = "chunk" /\ InodeInv(c)'
    BY <1>0, <1>3, <2>1, MovesTo, WriterMoves
  <2>3. WriterInv(c)' /\ ReaderInv(c)'
    BY <2>2 DEF WriterInv, ReaderInv, Reading
  <2> QED
    BY <1>0, <2>1, <2>3, MovesOn DEF Places
<1>4. CASE Retry(c, "chunk")
  BY <1>0, <1>1, <1>3, <1>4 DEF Retry
<1> QED
  BY <1>1, <1>2, <1>4 DEF Connect

(* drw tells dat what will come. *)
LEMMA SendInfoStep ==
  ASSUME IInv, NEW c \in Clients, SendInfo(c)
  PROVE  IInv'
<1>0. /\ UNCHANGED <<ser, dat, uploads, life>> /\ drw[c].pc = "info"
      /\ Writing(c) /\ InodeInv(c) /\ ChunkInv(c) /\ DataInv(c)
  BY ClientType DEF SendInfo, WriterInv, Writing
<1>1. CASE End(c)
  BY <1>0, <1>1, EndStep
<1>2. CASE drw[c].size # 0 /\ Goto(c, "wait")
  <2>1. drw[c].conn \in BOOLEAN /\ drw[c].cnt \in 0 .. RETRIES /\
        drw' = [drw EXCEPT ![c] = [drw[c] EXCEPT !.pc = "wait", !.conn = drw[c].conn,
                                                   !.cnt = drw[c].cnt]]
    BY <1>2, GotoMoves
  <2>2. drw'[c].pc = "wait" /\ InodeInv(c)' /\ ChunkInv(c)'
    <3>1. drw'[c].pc = "wait"
      BY <2>1, MovesTo
    <3> QED
      BY <1>0, <2>1, <3>1, WriterMoves
  <2>3. DataInv(c)'
    BY <1>0, <1>2, DataMoves
  <2>4. WriterInv(c)' /\ ReaderInv(c)'
    BY <2>2, <2>3 DEF WriterInv, ReaderInv, Reading
  <2> QED
    BY <1>0, <2>1, <2>4, MovesOn DEF Places
<1> QED
  BY <1>0, <1>1, <1>2 DEF SendInfo

(* A request to dat is cut off. *)
LEMMA DatGoneStep ==
  ASSUME IInv, NEW c \in Clients, DatGone(c)
  PROVE  IInv'
<1>0. UNCHANGED <<ser, dat, uploads, life>> /\ ~drw[c].conn
  BY DEF DatGone
<1>1. CASE End(c)
  BY <1>0, <1>1, EndStep
<1>2. CASE drw[c].pc = "wait" /\ Goto(c, "data")
  <2>1. Writing(c) /\ InodeInv(c) /\ ChunkInv(c) /\ DataInv(c) /\ drw[c].size # 0
    BY <1>2, ClientType DEF WriterInv, Writing, DataInv
  <2>2. drw[c].conn \in BOOLEAN /\ drw[c].cnt \in 0 .. RETRIES /\
        drw' = [drw EXCEPT ![c] = [drw[c] EXCEPT !.pc = "data", !.conn = drw[c].conn,
                                                   !.cnt = drw[c].cnt]]
    BY <1>2, GotoMoves
  <2>3. drw'[c].pc = "data" /\ InodeInv(c)' /\ ChunkInv(c)'
    <3>1. drw'[c].pc = "data"
      BY <2>2, MovesTo
    <3> QED
      BY <1>0, <2>1, <2>2, <3>1, WriterMoves
  <2>4. DataInv(c)'
    BY <1>0, <1>2, <2>1, DataMoves
  <2>5. WriterInv(c)' /\ ReaderInv(c)'
    BY <2>3, <2>4 DEF WriterInv, ReaderInv, Reading
  <2> QED
    BY <1>0, <2>1, <2>2, <2>5, MovesOn DEF Places
<1> QED
  BY <1>1, <1>2 DEF DatGone

(* A request to ser fails. *)
LEMMA CallFailsStep ==
  ASSUME IInv, NEW c \in Clients, CallFails(c)
  PROVE  IInv'
<1>0. UNCHANGED <<ser, dat, uploads, life>>
  BY DEF CallFails
<1>1. CASE End(c)
  BY <1>0, <1>1, EndStep
<1>2. CASE drw[c].pc \in {"chunk", "rchunk"} /\ NoChunk(c)
  BY <1>0, <1>2, NoChunkStep
<1>3. ASSUME NEW pc \in {"creat", "chunk"}, drw[c].pc \in {"judge", "creat"}, Goto(c, pc)
      PROVE  IInv'
  <2>1. Writing(c) /\ InodeInv(c) /\ drw[c].cnt < RETRIES
    BY <1>3, ClientType DEF WriterInv, Writing, InodeInv
  <2>2. drw[c].conn \in BOOLEAN /\ drw[c].cnt \in 0 .. RETRIES /\
        drw' = [drw EXCEPT ![c] = [drw[c] EXCEPT !.pc = pc, !.conn = drw[c].conn,
                                                   !.cnt = drw[c].cnt]]
    BY <1>3, GotoMoves
  <2>3. drw'[c].pc = pc /\ InodeInv(c)'
    BY <1>0, <1>3, <2>1, <2>2, MovesTo, WriterMoves
  <2>4. WriterInv(c)' /\ ReaderInv(c)'
    BY <1>3, <2>3 DEF WriterInv, ReaderInv, Reading
  <2> QED
    BY <1>0, <2>1, <2>2, <2>4, MovesOn DEF Places
<1> QED
  BY <1>1, <1>2, <1>3 DEF CallFails

(* A client becomes a reader, or goes on as one. *)
LEMMA ReaderStep ==
  ASSUME IInv, NEW c \in Clients, UNCHANGED <<ser, dat, uploads, life>>,
         NEW d \in Drws, drw' = [drw EXCEPT ![c] = d],
         d.pc \in {"rjudge", "rchunk", "rconnect", "rwait", "rdata", "spin"}, ReaderInv(c)'
  PROVE  IInv'
<1>1. drw'[c] = d
  BY ClientType
<1>2. ~Writing(c)' /\ WriterInv(c)'
  BY <1>1 DEF Writing, WriterInv
<1> QED
  BY <1>2, GoesOn

(* A command to read begins. *)
LEMMA StartReadStep ==
  ASSUME IInv, NEW c \in Clients, StartRead(c)
  PROVE  IInv'
<1>1. PICK name \in Names :
        drw' = [drw EXCEPT ![c] = [Idle EXCEPT !.pc = "rjudge", !.name = <<name>>]]
  BY DEF StartRead
<1>2. PICK d \in Drws : /\ drw' = [drw EXCEPT ![c] = d] /\ d.pc = "rjudge"
                        /\ Len(d.name) = 1 /\ d.cnt = 0
  <2> DEFINE d == [Idle EXCEPT !.pc = "rjudge", !.name = <<name>>]
  <2>1. d \in Drws
    <3>1. <<name>> \in Seq(Names) /\ Empty \in Bytes
      BY DEF Empty, Bytes
    <3>2. Idle \in Drws
      BY DEF Drws, Idle, Empty, Bytes, Places
    <3>3. "rjudge" \in Places
      BY DEF Places
    <3> QED
      BY <3>1, <3>2, <3>3 DEF Drws
  <2>2. d.pc = "rjudge" /\ Len(d.name) = 1 /\ d.cnt = 0
    BY DEF Idle
  <2> QED
    BY <1>1, <2>1, <2>2
<1>3. drw'[c] = d
  BY <1>2, ClientType
<1>4. ReaderInv(c)'
  BY <1>2, <1>3 DEF ReaderInv
<1> QED
  BY <1>2, <1>4, ReaderStep DEF StartRead

(* The name is looked up. *)
LEMMA ReadJudgeStep ==
  ASSUME IInv, NEW c \in Clients, ReadJudge(c)
  PROVE  IInv'
<1>0. UNCHANGED <<ser, dat, uploads, life>> /\ drw[c].pc = "rjudge"
  BY DEF ReadJudge, Calls
<1>1. CASE End(c)
  BY <1>0, <1>1, EndStep
<1>2. ASSUME NEW j \in DOMAIN files, Finds(drw[c].name[1], j),
             drw' = [drw EXCEPT ![c].inode = j, ![c].pc = "rchunk"]
      PROVE  IInv'
  <2>1. j \in Nat /\ j # 0
    BY DEF IInv, TypeOK
  <2>2. Len(drw[c].name) = 1 /\ drw[c].cnt < RETRIES
    BY <1>0, ClientType DEF ReaderInv, Reading
  <2>3. PICK d \in Drws : /\ drw' = [drw EXCEPT ![c] = d] /\ d.pc = "rchunk" /\ d.inode = j
                          /\ d.name = drw[c].name /\ d.cnt = drw[c].cnt
    <3> DEFINE d == [drw[c] EXCEPT !.inode = j, !.pc = "rchunk"]
    <3>1. d \in Drws /\ d.pc = "rchunk" /\ d.inode = j
          /\ d.name = drw[c].name /\ d.cnt = drw[c].cnt
      BY <2>1, ClientType, ZenonT(60) DEF Drws, Places
    <3>2. drw' = [drw EXCEPT ![c] = d]
      BY <1>2, ClientType DEF Drws
    <3> QED
      BY <3>1, <3>2
  <2>4. drw'[c] = d
    BY <2>3, ClientType
  <2>5. ReaderInv(c)'
    BY <1>0, <1>2, <2>1, <2>2, <2>3, <2>4 DEF ReaderInv, Finds, ser, life
  <2> QED
    BY <1>0, <2>3, <2>5, ReaderStep
<1> QED
  BY <1>1, <1>2 DEF ReadJudge

(* Chunk and size of the file are asked for. *)
LEMMA ReadChunkStep ==
  ASSUME IInv, NEW c \in Clients, ReadChunk(c)
  PROVE  IInv'
<1>0. UNCHANGED <<ser, dat, uploads, life>> /\ drw[c].pc = "rchunk"
  BY DEF ReadChunk, Calls
<1>1. CASE NoChunk(c)
  BY <1>0, <1>1, NoChunkStep
<1>2. ASSUME NEW j, j = drw[c].inode, IsFile(j), files[j].size # 0, files[j].chunk # 0,
             drw' = [Turn(c) EXCEPT ![c].chunk = files[j].chunk, ![c].size = files[j].size,
                                    ![c].pc = "rconnect"]
      PROVE  IInv'
  <2>1. j \in DOMAIN files /\ files[j].chunk \in Nat /\ files[j].size \in Nat
    <3>1. j \in DOMAIN files /\ files \in Seq(File)
      BY <1>2 DEF IsFile, IInv, TypeOK
    <3>2. files[j] \in File
      BY <3>1
    <3> QED
      BY <3>1, <3>2 DEF File
  <2>2. Len(drw[c].name) = 1 /\ j # 0 /\ (j \notin stale => files[j].name = drw[c].name[1])
    BY <1>0, <1>2, ClientType DEF ReaderInv, Reading
  <2>3. PICK d \in Drws : /\ drw' = [drw EXCEPT ![c] = d] /\ d.pc = "rconnect" /\ d.inode = j
                          /\ d.name = drw[c].name /\ d.chunk = files[j].chunk
                          /\ d.size = files[j].size
    <3> DEFINE d == [drw[c] EXCEPT !.cnt = drw[c].cnt + 1, !.conn = FALSE,
                                   !.chunk = files[j].chunk, !.size = files[j].size,
                                   !.pc = "rconnect"]
    <3>1. d \in Drws
      BY <1>0, <2>1, TurnType, ClientType, ZenonT(60) DEF Drws, Places
    <3>2. /\ d.pc = "rconnect" /\ d.inode = j /\ d.name = drw[c].name
          /\ d.chunk = files[j].chunk /\ d.size = files[j].size
      BY <1>2, ClientType DEF Drws
    <3>3. drw' = [drw EXCEPT ![c] = d]
      <4> DEFINE t == [drw[c] EXCEPT !.cnt = drw[c].cnt + 1, !.conn = FALSE]
      <4>1. Turn(c) = [drw EXCEPT ![c] = t] /\ Turn(c)[c] = t
        BY <1>0, TurnType, ClientType
      <4>2. drw' = [drw EXCEPT ![c] = [t EXCEPT !.chunk = files[j].chunk,
                                                 !.size = files[j].size, !.pc = "rconnect"]]
        BY <1>2, <4>1, ClientType
      <4> QED
        BY <4>2, ClientType DEF Drws
    <3> QED
      BY <3>1, <3>2, <3>3
  <2>4. drw'[c] = d
    BY <2>3, ClientType
  <2>5. ASSUME Quiet(j, d.chunk), Once(d.name[1])
        PROVE  \A u \in UploadsOf(d.name[1]) : d.size = uploads[u].size
    BY <1>2, <2>1, <2>2, <2>3, <2>5 DEF Quiet, IInv, SizedInv, Sized
  <2>6. /\ \A name : UploadsOf(name)' = UploadsOf(name) /\ (Once(name)' <=> Once(name))
        /\ Quiet(j, d.chunk)' <=> Quiet(j, d.chunk)
    BY <1>0, SameUploads DEF Quiet, life
  <2>7. ReaderInv(c)'
    BY <1>0, <1>2, <2>1, <2>2, <2>3, <2>4, <2>5, <2>6 DEF ReaderInv, ser, life
  <2> QED
    BY <1>0, <2>3, <2>7, ReaderStep
<1> QED
  BY <1>1, <1>2 DEF ReadChunk

(* A reader that moves on keeps its file, its chunk and its size. *)
LEMMA ReaderMoves ==
  ASSUME IInv, NEW c \in Clients, UNCHANGED <<ser, dat, uploads, life>>,
         drw[c].pc \in {"rconnect", "rwait", "rdata"},
         NEW pc \in {"rchunk", "rwait", "spin"}, NEW conn \in BOOLEAN, NEW cnt \in 0 .. RETRIES,
         pc = "rwait" => drw[c].pc = "rconnect", pc = "rchunk" => cnt < RETRIES,
         drw' = [drw EXCEPT ![c] = [drw[c] EXCEPT !.pc = pc, !.conn = conn, !.cnt = cnt]]
  PROVE  IInv'
<1>1. PICK d \in Drws : /\ drw' = [drw EXCEPT ![c] = d] /\ d.pc = pc /\ d.cnt = cnt
                        /\ d.inode = drw[c].inode /\ d.name = drw[c].name
                        /\ d.chunk = drw[c].chunk /\ d.size = drw[c].size
  <2> DEFINE d == [drw[c] EXCEPT !.pc = pc, !.conn = conn, !.cnt = cnt]
  <2>1. d \in Drws
    BY ClientType, ZenonT(60) DEF Drws, Places
  <2>2. /\ d.pc = pc /\ d.cnt = cnt /\ d.inode = drw[c].inode /\ d.name = drw[c].name
        /\ d.chunk = drw[c].chunk /\ d.size = drw[c].size
    BY ClientType DEF Drws
  <2> QED
    BY <2>1, <2>2
<1>2. drw'[c] = d
  BY <1>1, ClientType
<1>3. /\ \A name : UploadsOf(name)' = UploadsOf(name) /\ (Once(name)' <=> Once(name))
      /\ \A j, k : Quiet(j, k)' <=> Quiet(j, k)
  BY SameUploads DEF Quiet, life
<1>4. ReaderInv(c)'
  BY <1>1, <1>2, <1>3, ClientType DEF ReaderInv, Reading, ser, life
<1> QED
  BY <1>1, <1>4, ReaderStep

(* A reader connects to dat. *)
LEMMA ReadConnectStep ==
  ASSUME IInv, NEW c \in Clients, ReadConnect(c)
  PROVE  IInv'
<1>0. /\ UNCHANGED <<ser, dat, uploads, life>> /\ drw[c].pc = "rconnect"
      /\ drw[c].conn \in BOOLEAN /\ drw[c].cnt \in 0 .. RETRIES
  BY ClientType DEF ReadConnect, Drws
<1>1. CASE End(c)
  BY <1>0, <1>1, EndStep
<1>2. CASE drw' = [drw EXCEPT ![c].conn = TRUE, ![c].cnt = 0, ![c].pc = "rwait"]
  <2>1. drw' = [drw EXCEPT ![c] = [drw[c] EXCEPT !.pc = "rwait", !.conn = TRUE, !.cnt = 0]]
    BY <1>2, ClientType DEF Drws
  <2>2. TRUE \in BOOLEAN /\ 0 \in 0 .. RETRIES
    OBVIOUS
  <2> QED
    BY <1>0, <2>1, <2>2, ReaderMoves
<1>3. CASE Goto(c, "rchunk") /\ drw[c].cnt < RETRIES
  <2>1. drw' = [drw EXCEPT ![c] = [drw[c] EXCEPT !.pc = "rchunk", !.conn = drw[c].conn,
                                                   !.cnt = drw[c].cnt]]
    BY <1>3, GotoMoves
  <2> QED
    BY <1>0, <1>3, <2>1, ReaderMoves
<1>4. CASE Retry(c, "rchunk")
  BY <1>0, <1>1, <1>3, <1>4 DEF Retry
<1> QED
  BY <1>1, <1>2, <1>4 DEF ReadConnect

(* A reader has its bytes, or waits for them for ever. *)
LEMMA ReadDataStep ==
  ASSUME IInv, NEW c \in Clients, ReadData(c)
  PROVE  IInv'
<1>0. UNCHANGED <<ser, dat, uploads, life>> /\ drw[c].pc = "rdata"
  BY DEF ReadData
<1>1. CASE End(c)
  BY <1>0, <1>1, EndStep
<1>2. CASE Goto(c, "spin")
  <2>1. drw[c].conn \in BOOLEAN /\ drw[c].cnt \in 0 .. RETRIES /\
        drw' = [drw EXCEPT ![c] = [drw[c] EXCEPT !.pc = "spin", !.conn = drw[c].conn,
                                                   !.cnt = drw[c].cnt]]
    BY <1>2, GotoMoves
  <2> QED
    BY <1>0, <2>1, ReaderMoves
<1> QED
  BY <1>1, <1>2 DEF ReadData

(* dat answers a reader. *)
LEMMA SendFileStep ==
  ASSUME IInv, NEW c \in Clients, SendFile(c)
  PROVE  IInv'
<1>0. UNCHANGED <<ser, dat, uploads, life>> /\ drw[c].pc = "rwait" /\ saving = <<>>
  BY DEF SendFile
<1>1. CASE End(c)
  BY <1>0, <1>1, EndStep
<1> DEFINE bytes == IF chunks[drw[c].chunk].len = drw[c].size
                    THEN chunks[drw[c].chunk] ELSE Garbage(drw[c].size)
<1>2. CASE /\ drw[c].chunk \in DOMAIN chunks
           /\ drw' = [drw EXCEPT ![c].pc = "rdata", ![c].got = bytes]
  <2>1. PICK b \in Bytes : b = bytes
    BY <1>2, ClientType DEF Drws, Garbage, Bytes, IInv, TypeOK
  <2>2. PICK d \in Drws : /\ drw' = [drw EXCEPT ![c] = d] /\ d.pc = "rdata" /\ d.got = b
                          /\ d.inode = drw[c].inode /\ d.name = drw[c].name
                          /\ d.chunk = drw[c].chunk /\ d.size = drw[c].size
    <3> DEFINE d == [drw[c] EXCEPT !.pc = "rdata", !.got = b]
    <3>1. /\ d \in Drws /\ d.pc = "rdata" /\ d.got = b
          /\ d.inode = drw[c].inode /\ d.name = drw[c].name
          /\ d.chunk = drw[c].chunk /\ d.size = drw[c].size
      BY ClientType, ZenonT(60) DEF Drws, Places
    <3>2. drw' = [drw EXCEPT ![c] = d]
      BY <1>2, <2>1, ClientType DEF Drws
    <3> QED
      BY <3>1, <3>2
  <2>3. drw'[c] = d
    BY <2>2, ClientType
  <2>4. /\ Len(d.name) = 1 /\ d.inode # 0
        /\ d.inode \notin stale => /\ d.inode \in DOMAIN files
                                   /\ files[d.inode].name = d.name[1]
                                   /\ files[d.inode].chunk = d.chunk /\ d.chunk # 0
                                   /\ files[d.inode].size # 0
    BY <1>0, <2>2, ClientType DEF ReaderInv, Reading
  <2>5. ASSUME Quiet(d.inode, d.chunk), Once(d.name[1])
        PROVE  Whole(d.got, d.name[1])
    <3>1. Whole(chunks[d.chunk], d.name[1])
      BY <1>0, <1>2, <2>2, <2>4, <2>5 DEF IInv, SizedInv, Sized, Stored, Quiet
    <3>2. \A u \in UploadsOf(d.name[1]) : d.size = uploads[u].size
      BY <1>0, <2>2, <2>5, ClientType DEF ReaderInv, Reading
    <3>3. chunks[d.chunk].len = d.size
      BY <3>1, <3>2 DEF Whole
    <3> QED
      BY <2>1, <2>2, <3>1, <3>3
  <2>6. /\ \A name : UploadsOf(name)' = UploadsOf(name) /\ (Once(name)' <=> Once(name))
        /\ \A j, k : Quiet(j, k)' <=> Quiet(j, k)
    BY <1>0, SameUploads DEF Quiet, life
  <2>7. \A name : Whole(d.got, name)' <=> Whole(d.got, name)
    BY <1>0, <2>6 DEF Whole
  <2>8. ReaderInv(c)'
    BY <1>0, <2>2, <2>3, <2>4, <2>5, <2>6, <2>7 DEF ReaderInv, ser, life
  <2> QED
    BY <1>0, <2>2, <2>8, ReaderStep
<1> QED
  BY <1>1, <1>2 DEF SendFile

-----------------------------------------------------------------------------
(* Steps of the servers. *)

(* A step that leaves the bytes and the table alone, and sends no request.  *)
LEMMA LinkStep ==
  ASSUME IInv, UNCHANGED <<files, next_chunkid, waiting, chunks, saving, drw, uploads,
                           bound, crashes, stale, forgotten>>,
         serUp' \in BOOLEAN, datUp' \in BOOLEAN, link' \in {"none", "up", "broken"},
         lock' = lock \/ lock' = "free"
  PROVE  IInv'
<1>1. TypeOK'
  BY DEF IInv, TypeOK
<1>2. \A name : UploadsOf(name)' = UploadsOf(name) /\ (Once(name)' <=> Once(name))
  BY SameUploads
<1>3. \A k : Known(k)' <=> Known(k)
  BY DEF Known
<1>4. \A k : Pending(k)' => Pending(k)
  BY DEF Pending, Asked
<1>5. \A bytes, name : Whole(bytes, name)' <=> Whole(bytes, name)
  BY <1>2 DEF Whole
<1>6. \A j : Stored(j)' <=> Stored(j)
  BY <1>5 DEF Stored
<1>7. \A j, k : Quiet(j, k)' <=> Quiet(j, k)
  BY DEF Quiet
<1>8. TableInv'
  BY <1>2, <1>3 DEF IInv, TableInv, Asked
<1>9. ChunksInv'
  BY <1>3, <1>7 DEF IInv, ChunksInv
<1>10. BytesStayHome'
  BY <1>7 DEF IInv, BytesStayHome
<1>11. \A e \in Clients : Writing(e)' => Writing(e) /\ drw'[e].upload = drw[e].upload
  BY DEF Writing
<1>12. SizedInv'
  BY <1>2, <1>4, <1>6, <1>7, <1>11, SizedStays DEF IInv
<1>13. \A e \in Clients : WriterInv(e)' /\ ReaderInv(e)'
  BY <1>4, OtherClient DEF IInv, ClientsInv
<1>14. ClientsInv'
  BY <1>11, <1>13 DEF IInv, ClientsInv
<1> QED
  BY <1>1, <1>8, <1>9, <1>10, <1>12, <1>14 DEF IInv

(* dat starts, is accepted or missed, answers; ser starts. *)
LEMMA LinkSteps ==
  ASSUME IInv, Answered \/ DatStart \/ DatAccept \/ DatNoticed \/ SerStart
  PROVE  IInv'
<1>1. /\ serUp \in BOOLEAN /\ datUp \in BOOLEAN /\ link \in {"none", "up", "broken"}
      /\ TRUE \in BOOLEAN
  BY DEF IInv, TypeOK
<1>2. CASE Answered
  BY <1>1, <1>2, LinkStep DEF Answered, dat, life
<1>3. CASE DatStart
  BY <1>1, <1>3, LinkStep DEF DatStart, ser, life
<1>4. CASE DatAccept
  BY <1>1, <1>4, LinkStep DEF DatAccept, dat, life
<1>5. CASE DatNoticed
  BY <1>1, <1>5, LinkStep DEF DatNoticed, dat, life
<1>6. CASE SerStart
  BY <1>1, <1>6, LinkStep DEF SerStart, ser, dat
<1> QED
  BY <1>2, <1>3, <1>4, <1>5, <1>6

(* dat's `saving' while an upload runs. *)
LEMMA SavingType ==
  ASSUME IInv, saving # <<>>
  PROVE  saving[1] \in Saves /\ saving = <<saving[1]>>
<1>1. saving \in Seq(Saves)
  BY DEF IInv, TypeOK
<1>2. Len(saving) \in Nat /\ Len(saving) # 0
  BY <1>1
<1>3. Len(saving) <= 1
  BY DEF IInv, TypeOK
<1>4. \A n \in Nat : n # 0 /\ n <= 1 => n = 1
  OBVIOUS
<1>5. Len(saving) = 1
  BY <1>2, <1>3, <1>4
<1> QED
  BY <1>1, <1>5

(* The drw that dat listens to has sent everything, or is gone. *)
LEMMA SentOrGone ==
  ASSUME IInv, NEW c \in Clients, drw[c].pc = "data", drw[c].conn,
         UNCHANGED <<ser, datUp, chunks, uploads, life>>,
         NEW in \in {"sent", "eof"}, saving' = <<[saving[1] EXCEPT !.in = in]>>,
         NEW d \in Drws, drw' = [drw EXCEPT ![c] = d],
         \/ d = Idle
         \/ in = "sent" /\ d = [drw[c] EXCEPT !.pc = "end"]
  PROVE  IInv'
<1>1. /\ saving # <<>> /\ saving[1].by = drw[c].upload /\ saving[1].in = "open"
      /\ saving[1].chunk = drw[c].chunk /\ drw[c].size # 0 /\ drw[c].chunk \in DOMAIN chunks
      /\ Writing(c) /\ InodeInv(c) /\ ChunkInv(c)
  BY ClientType DEF WriterInv, DataInv, Writing
<1>2. PICK s \in Saves : /\ saving' = <<s>> /\ s.in = in /\ s.by = saving[1].by
                         /\ s.chunk = saving[1].chunk /\ s.size = saving[1].size
                         /\ s.hole = saving[1].hole
  <2>1. [saving[1] EXCEPT !.in = in] \in Saves
    BY <1>1, SavingType DEF Saves
  <2>2. /\ [saving[1] EXCEPT !.in = in].in = in
        /\ [saving[1] EXCEPT !.in = in].by = saving[1].by
        /\ [saving[1] EXCEPT !.in = in].chunk = saving[1].chunk
        /\ [saving[1] EXCEPT !.in = in].size = saving[1].size
        /\ [saving[1] EXCEPT !.in = in].hole = saving[1].hole
    BY <1>1, SavingType DEF Saves
  <2> QED
    BY <2>1, <2>2
<1>3. saving' # <<>> /\ saving'[1] = s /\ saving' \in Seq(Saves) /\ Len(saving') = 1
  BY <1>2
<1>4. /\ drw' \in [Clients -> Drws] /\ drw'[c] = d
      /\ \A e \in Clients \ {c} : drw'[e] = drw[e]
  BY ClientType
<1>5. d.pc = "idle" \/ (in = "sent" /\ /\ d.pc = "end" /\ d.inode = drw[c].inode /\ d.name = drw[c].name
                                  /\ d.chunk = drw[c].chunk /\ d.upload = drw[c].upload
                                  /\ d.size = drw[c].size /\ d.conn = drw[c].conn)
  <2>1. CASE d = Idle
    BY <2>1 DEF Idle
  <2>2. CASE in = "sent" /\ d = [drw[c] EXCEPT !.pc = "end"]
    BY <2>2, ClientType DEF Drws
  <2> QED
    BY <2>1, <2>2
<1>6. TypeOK'
  BY <1>3, <1>4 DEF IInv, TypeOK, ser, life
<1>7. \A name : UploadsOf(name)' = UploadsOf(name) /\ (Once(name)' <=> Once(name))
  BY SameUploads
<1>8. (\A k : Known(k)' <=> Known(k)) /\ (\A k : Pending(k)' <=> Pending(k))
  BY DEF Known, Pending, Asked, ser, life
<1>9. \A bytes, name : Whole(bytes, name)' <=> Whole(bytes, name)
  BY <1>7 DEF Whole
<1>10. \A j : Stored(j) => Stored(j)'
  BY <1>1, <1>2, <1>3, <1>9 DEF Stored, ser
<1>11. \A j, k : Quiet(j, k)' <=> Quiet(j, k)
  BY DEF Quiet, life
<1>12. TableInv'
  BY <1>7, <1>8 DEF IInv, TableInv, Asked, ser, life
<1>13. ChunksInv'
  BY <1>1, <1>2, <1>3, <1>8, <1>11 DEF IInv, ChunksInv, ser, life
<1>14. BytesStayHome'
  BY <1>11 DEF IInv, BytesStayHome, ser
<1>15. \A e \in Clients : Writing(e)' => Writing(e) /\ drw'[e].upload = drw[e].upload
  BY <1>1, <1>4, <1>5 DEF Writing
<1>16. SizedInv'
  BY <1>7, <1>8, <1>10, <1>11, <1>15, SizedStays DEF IInv, ser, life
<1>17. ASSUME NEW e \in Clients PROVE WriterInv(e)' /\ ReaderInv(e)'
  <2>1. CASE e # c
    <3>1. ~(drw[e].pc = "data" /\ drw[e].conn)
      <4>1. SUFFICES ASSUME drw[e].pc = "data", drw[e].conn PROVE FALSE
        OBVIOUS
      <4>2. Writing(e) /\ saving[1].by = drw[e].upload
        BY <4>1, ClientType DEF Writing, WriterInv, DataInv
      <4> QED
        BY <1>1, <2>1, <4>2 DEF IInv, ClientsInv
    <3>2. drw'[e] = drw[e]
      BY <1>4, <2>1
    <3> QED
      BY <1>8, <1>10, <3>1, <3>2, ClientStays, ClientType DEF ser, life
  <2>2. CASE e = c /\ d.pc = "idle"
    BY <1>4, <2>2 DEF WriterInv, ReaderInv, Writing, Reading
  <2>3. CASE e = c /\ d.pc # "idle"
    <3>1. InodeInv(c)'
      BY <1>1, <1>4, <1>5, <2>3 DEF InodeInv, ser, life
    <3>2. ChunkInv(c)'
      <4>1. Known(d.chunk)' /\ d.chunk # 0 /\ d.inode # 0
        <5>1. Known(d.chunk) /\ d.chunk # 0 /\ d.inode # 0
          BY <1>1, <1>5, <2>3 DEF ChunkInv
        <5> QED
          BY <1>8, <5>1
      <4>2. d.inode \notin stale' => files'[d.inode].chunk = d.chunk
        BY <1>1, <1>5, <2>3 DEF ChunkInv, ser, life
      <4>3. \A j \in DOMAIN files' : files'[j].chunk = d.chunk /\ Quiet(j, d.chunk)'
                                       => files'[j].name = d.name[1]
        BY <1>1, <1>5, <1>11, <2>3, ZenonT(60) DEF ChunkInv, ser, life
      <4> QED
        BY <1>4, <4>1, <4>2, <4>3 DEF ChunkInv
    <3>3. DataInv(c)'
      <4>1. \A j \in DOMAIN files' : files'[j].chunk = d.chunk => Stored(j)'
        <5>1. saving'[1].in = "sent" /\ saving'[1].chunk = d.chunk
          BY <1>1, <1>2, <1>3, <1>5, <2>3
        <5> QED
          BY <1>3, <5>1 DEF Stored
      <4> QED
        BY <1>1, <1>4, <1>5, <2>3, <4>1 DEF DataInv
    <3> QED
      BY <1>4, <1>5, <2>3, <3>1, <3>2, <3>3 DEF WriterInv, ReaderInv, Reading
  <2> QED
    BY <2>1, <2>2, <2>3
<1>18. ClientsInv'
  BY <1>15, <1>17 DEF IInv, ClientsInv
<1> QED
  BY <1>6, <1>12, <1>13, <1>14, <1>16, <1>18 DEF IInv

(* drw has sent the bytes. *)
LEMMA SendDataStep ==
  ASSUME IInv, NEW c \in Clients, SendData(c)
  PROVE  IInv'
<1>0. /\ UNCHANGED <<ser, datUp, chunks, uploads, life>> /\ drw[c].pc = "data"
      /\ Writing(c) /\ InodeInv(c) /\ ChunkInv(c) /\ DataInv(c) /\ drw[c].size # 0
  BY ClientType DEF SendData, WriterInv, DataInv, Writing
<1>1. CASE End(c) /\ UNCHANGED saving
  BY <1>0, <1>1, EndStep DEF dat
<1>2. CASE Goto(c, "end") /\ ~drw[c].conn /\ UNCHANGED saving
  <2>1. drw[c].conn \in BOOLEAN /\ drw[c].cnt \in 0 .. RETRIES /\
        drw' = [drw EXCEPT ![c] = [drw[c] EXCEPT !.pc = "end", !.conn = drw[c].conn,
                                                   !.cnt = drw[c].cnt]]
    BY <1>2, GotoMoves
  <2>2. UNCHANGED <<ser, dat, uploads, life>>
    BY <1>0, <1>2 DEF dat
  <2>3. drw'[c].pc = "end"
    BY <2>1, MovesTo
  <2>4. InodeInv(c)' /\ ChunkInv(c)'
    <3>1. InodeInv(c) /\ ChunkInv(c) /\ drw[c].conn \in BOOLEAN
      BY <1>0, <2>1
    <3> QED
      BY <2>1, <2>2, <2>3, <3>1, WriterMoves
  <2>5. DataInv(c)'
    BY <1>0, <1>2, <2>2, DataMoves
  <2>6. WriterInv(c)' /\ ReaderInv(c)'
    BY <2>3, <2>4, <2>5 DEF WriterInv, ReaderInv, Reading
  <2> QED
    BY <1>0, <2>1, <2>2, <2>6, MovesOn DEF Places
<1>3. CASE Goto(c, "end") /\ drw[c].conn /\ saving' = <<[saving[1] EXCEPT !.in = "sent"]>>
  <2>1. PICK d \in Drws : drw' = [drw EXCEPT ![c] = d] /\ d = [drw[c] EXCEPT !.pc = "end"]
    BY <1>3, ClientType, ZenonT(60) DEF Goto, Drws, Places
  <2> QED
    BY <1>0, <1>3, <2>1, SentOrGone
<1> QED
  BY <1>1, <1>2, <1>3 DEF SendData

(* A drw dies. *)
LEMMA DrwCrashStep ==
  ASSUME IInv, NEW c \in Clients, DrwCrash(c)
  PROVE  IInv'
<1>1. CASE drw[c].pc = "data" /\ drw[c].conn
  <2>1. Idle \in Drws
    BY DEF Drws, Idle, Empty, Bytes, Places
  <2> QED
    BY <1>1, <2>1, SentOrGone DEF DrwCrash, End
<1>2. CASE ~(drw[c].pc = "data" /\ drw[c].conn)
  BY <1>2, EndStep DEF DrwCrash, dat
<1> QED
  BY <1>1, <1>2

(* dat takes an upload on: it empties the chunk file and waits. *)
LEMMA RecvInfoStep ==
  ASSUME IInv, NEW c \in Clients, RecvInfo(c)
  PROVE  IInv'
<1>0. /\ UNCHANGED <<ser, datUp, uploads, life>> /\ saving = <<>>
      /\ drw[c].pc = "wait" /\ drw[c].conn /\ Writing(c)
      /\ InodeInv(c) /\ ChunkInv(c) /\ DataInv(c) /\ drw[c].size # 0
  BY ClientType DEF RecvInfo, WriterInv, DataInv, Writing
<1>1. CASE End(c) /\ UNCHANGED <<chunks, saving>>
  BY <1>0, <1>1, EndStep DEF dat
<1>2. CASE /\ drw[c].chunk \in DOMAIN chunks
           /\ chunks' = [chunks EXCEPT ![drw[c].chunk] = Empty]
           /\ saving' = <<[by |-> drw[c].upload, chunk |-> drw[c].chunk,
                           size |-> drw[c].size, in |-> "open", hole |-> FALSE]>>
           /\ Goto(c, "data")
  <2>1. PICK s \in Saves : /\ saving' = <<s>> /\ s.by = drw[c].upload /\ s.chunk = drw[c].chunk
                           /\ s.size = drw[c].size /\ s.in = "open" /\ ~s.hole
    <3>1. drw[c].upload \in Nat /\ drw[c].chunk \in Nat /\ drw[c].size \in Nat
      BY ClientType DEF Drws
    <3>2. [by |-> drw[c].upload, chunk |-> drw[c].chunk, size |-> drw[c].size,
           in |-> "open", hole |-> FALSE] \in Saves
      BY <3>1 DEF Saves
    <3> QED
      BY <1>2, <3>2
  <2>2. saving' # <<>> /\ saving'[1] = s /\ saving' \in Seq(Saves) /\ Len(saving') = 1
    BY <2>1
  <2>3. PICK d \in Drws : /\ drw' = [drw EXCEPT ![c] = d] /\ d.pc = "data" /\ d.name = drw[c].name
                          /\ d.inode = drw[c].inode /\ d.chunk = drw[c].chunk /\ d.conn = drw[c].conn
                          /\ d.size = drw[c].size /\ d.upload = drw[c].upload
    <3>1. drw' = [drw EXCEPT ![c] = [drw[c] EXCEPT !.pc = "data"]]
      BY <1>2, ClientType DEF Goto
    <3>2. [drw[c] EXCEPT !.pc = "data"] \in Drws
      BY ClientType, ZenonT(60) DEF Drws, Places
    <3> QED
      BY <3>1, <3>2, ClientType DEF Drws
  <2>4. /\ drw' \in [Clients -> Drws] /\ drw'[c] = d
        /\ \A e \in Clients \ {c} : drw'[e] = drw[e]
    BY <2>3, ClientType
  <2>5. chunks \in [DOMAIN chunks -> Bytes] /\ DOMAIN chunks' = DOMAIN chunks
        /\ chunks'[drw[c].chunk] = Empty
        /\ \A k \in DOMAIN chunks : k # drw[c].chunk => chunks'[k] = chunks[k]
    BY <1>2 DEF IInv, TypeOK
  <2>6. TypeOK'
    <3>1. chunks' \in [DOMAIN chunks' -> Bytes]
      BY <1>2, <2>5 DEF Bytes, Empty
    <3>2. DOMAIN chunks' \subseteq Nat
      BY <2>5 DEF IInv, TypeOK
    <3> QED
      BY <1>0, <2>2, <2>4, <3>1, <3>2 DEF IInv, TypeOK, ser, life
  <2>7. \A name : UploadsOf(name)' = UploadsOf(name) /\ (Once(name)' <=> Once(name))
    BY <1>0, SameUploads
  <2>8. (\A k : Known(k)' <=> Known(k)) /\ (\A k : Pending(k)' <=> Pending(k))
    BY <1>0 DEF Known, Pending, Asked, ser, life
  <2>9. \A bytes, name : Whole(bytes, name)' <=> Whole(bytes, name)
    BY <1>0, <2>7 DEF Whole
  <2>10. \A j, k : Quiet(j, k)' <=> Quiet(j, k)
    BY <1>0 DEF Quiet, life
  <2>11. \A j \in DOMAIN files : files[j].chunk # drw[c].chunk /\ Stored(j) => Stored(j)'
    BY <1>0, <2>1, <2>2, <2>5, <2>9 DEF Stored, ser
  (* Whoever else has the file of c has uploaded it, too. *)
  <2>12. \A j \in DOMAIN files : files[j].chunk = drw[c].chunk /\ Quiet(j, files[j].chunk) =>
           drw[c].upload \in UploadsOf(files[j].name)
    BY <1>0 DEF ChunkInv, InodeInv, UploadsOf
  <2>13. TableInv'
    BY <1>0, <2>5, <2>7, <2>8 DEF IInv, TableInv, Asked, ser, life
  <2>14. ChunksInv'
    <3>1. \A k \in DOMAIN chunks' : /\ k > FirstChunk /\ Known(k)'
                                    /\ chunks'[k].by \in DOMAIN uploads' \cup {0}
      BY <1>0, <2>5, <2>8 DEF IInv, ChunksInv, Empty
    <3>2. s.by \in DOMAIN uploads' /\ s.size = uploads'[s.by].size /\ s.size # 0
          /\ s.chunk \in DOMAIN chunks'
      BY <1>0, <1>2, <2>1, <2>5 DEF InodeInv
    <3>3. \A j \in DOMAIN files' : files'[j].chunk = s.chunk /\ Quiet(j, s.chunk)' =>
                                     uploads'[s.by].name = files'[j].name
      BY <1>0, <2>1, <2>10, <2>12 DEF UploadsOf, ser
    <3> QED
      BY <2>1, <2>2, <3>1, <3>2, <3>3 DEF ChunksInv
  <2>15. BytesStayHome'
    BY <1>0, <2>5, <2>10 DEF IInv, BytesStayHome, ser, Empty
  <2>16. \A e \in Clients : Writing(e)' => Writing(e) /\ drw'[e].upload = drw[e].upload
    BY <1>0, <2>3, <2>4 DEF Writing
  <2>17. \A j \in DOMAIN files :
           files[j].size # 0 /\ Once(files[j].name) /\ Quiet(j, files[j].chunk) /\ Stored(j) =>
             Stored(j)'
    BY <1>0, <2>11, <2>12 DEF IInv, SizedInv, Sized, Quiet
  <2>18. SizedInv'
    BY <1>0, <2>7, <2>8, <2>10, <2>16, <2>17, SizedStays DEF IInv, ser, life
  <2>19. ASSUME NEW e \in Clients PROVE WriterInv(e)' /\ ReaderInv(e)'
    <3>1. CASE e # c
      <4>1. drw'[e] = drw[e] /\ WriterInv(e) /\ ReaderInv(e)
        BY <2>4, <3>1, ClientType
      <4>2. ASSUME drw[e].pc = "end", NEW j \in DOMAIN files, files[j].chunk = drw[e].chunk,
                   Quiet(j, drw[e].chunk), Once(files[j].name), Stored(j)
            PROVE  Stored(j)'
        <5>1. CASE files[j].chunk # drw[c].chunk
          BY <2>11, <4>2, <5>1
        <5>2. CASE files[j].chunk = drw[c].chunk
          <6>1. Writing(e) /\ InodeInv(e) /\ ChunkInv(e)
            BY <4>1, <4>2 DEF WriterInv, Writing
          <6>2. drw[e].upload \in UploadsOf(files[j].name)
            BY <4>2, <6>1 DEF InodeInv, ChunkInv, UploadsOf
          <6>3. drw[e].upload = drw[c].upload
            BY <2>12, <4>2, <5>2, <6>2, OnlyUpload DEF IInv
          <6> QED
            BY <1>0, <3>1, <6>1, <6>3 DEF IInv, ClientsInv
        <5> QED
          BY <5>1, <5>2
      <4> QED
        BY <1>0, <2>5, <2>8, <4>1, <4>2, ClientStays DEF ser, life
    <3>2. CASE e = c
      <4>1. InodeInv(c)'
        BY <1>0, <2>3, <2>4 DEF InodeInv, ser, life
      <4>2. ChunkInv(c)'
        <5>1. Known(d.chunk) /\ d.chunk # 0 /\ d.inode # 0
          BY <1>0, <2>3 DEF ChunkInv
        <5>2. d.inode \notin stale' => files'[d.inode].chunk = d.chunk
          BY <1>0, <2>3 DEF ChunkInv, ser, life
        <5>3. \A j \in DOMAIN files' : files'[j].chunk = d.chunk /\ Quiet(j, d.chunk)'
                                         => files'[j].name = d.name[1]
          BY <1>0, <2>3, <2>10 DEF ChunkInv, ser
        <5> QED
          BY <2>4, <2>8, <5>1, <5>2, <5>3 DEF ChunkInv
      <4>3. DataInv(c)'
        BY <1>0, <1>2, <2>1, <2>2, <2>3, <2>4, <2>5 DEF DataInv
      <4> QED
        BY <2>3, <2>4, <3>2, <4>1, <4>2, <4>3 DEF WriterInv, ReaderInv, Reading
    <3> QED
      BY <3>1, <3>2
  <2>20. ClientsInv'
    BY <2>16, <2>19 DEF IInv, ClientsInv
  <2> QED
    BY <2>6, <2>13, <2>14, <2>15, <2>18, <2>20 DEF IInv
<1> QED
  BY <1>0, <1>1, <1>2 DEF RecvInfo

(* An upload has been stored, or what came of it. *)
LEMMA SaveDataStep ==
  ASSUME IInv, SaveData
  PROVE  IInv'
<1>0. UNCHANGED <<ser, datUp, drw, uploads, life>> /\ saving # <<>> /\ saving' = <<>>
  BY DEF SaveData
<1>1. PICK s \in Saves : s = saving[1]
  BY <1>0, SavingType
<1>2. /\ s.by \in DOMAIN uploads /\ s.by # 0 /\ s.size = uploads[s.by].size /\ s.size # 0
      /\ s.chunk \in DOMAIN chunks /\ (s.hole => s.chunk \in forgotten)
      /\ \A j \in DOMAIN files :
           files[j].chunk = s.chunk /\ Quiet(j, s.chunk) => uploads[s.by].name = files[j].name
  BY <1>0, <1>1 DEF IInv, TypeOK, ChunksInv
<1>3. PICK n \in 0 .. s.size, fails \in BOOLEAN :
        /\ s.in = "sent" <=> n = s.size
        /\ fails => s.in = "eof"
        /\ chunks' = [chunks EXCEPT ![s.chunk] = CASE n = 0 -> Empty
                                                   [] n > 0 /\ (s.hole \/ fails) -> Garbage(n)
                                                   [] OTHER -> [by |-> s.by, len |-> n]]
  BY <1>0, <1>1 DEF SaveData
<1>4. PICK b \in Bytes :
        /\ chunks' = [chunks EXCEPT ![s.chunk] = b]
        /\ b.by \in {0, s.by}
        /\ s.in = "sent" /\ ~s.hole => b = [by |-> s.by, len |-> s.size]
  <2>1. n \in Nat /\ s.by \in Nat /\ s.size \in Nat
    BY <1>3 DEF Saves
  <2>2. CASE n = 0
    <3>1. chunks' = [chunks EXCEPT ![s.chunk] = Empty]
      BY <1>3, <2>2
    <3>2. Empty \in Bytes /\ Empty.by = 0
      BY DEF Empty, Bytes
    <3>3. s.in # "sent"
      BY <1>2, <1>3, <2>2
    <3> QED
      BY <3>1, <3>2, <3>3
  <2>3. CASE n # 0 /\ (s.hole \/ fails)
    BY <1>3, <2>1, <2>3 DEF Garbage, Bytes
  <2>4. CASE n # 0 /\ ~s.hole /\ ~fails
    <3>1. chunks' = [chunks EXCEPT ![s.chunk] = [by |-> s.by, len |-> n]]
      BY <1>3, <2>1, <2>4
    <3>2. [by |-> s.by, len |-> n] \in Bytes
      BY <2>1 DEF Bytes
    <3>3. s.in = "sent" => n = s.size
      BY <1>3
    <3> QED
      BY <3>1, <3>2, <3>3
  <2> QED
    BY <2>2, <2>3, <2>4
<1>5. chunks \in [DOMAIN chunks -> Bytes] /\ DOMAIN chunks' = DOMAIN chunks
      /\ chunks'[s.chunk] = b /\ chunks' \in [DOMAIN chunks' -> Bytes]
      /\ \A k \in DOMAIN chunks : k # s.chunk => chunks'[k] = chunks[k]
  BY <1>2, <1>4 DEF IInv, TypeOK
<1>6. TypeOK'
  <2>1. saving' \in Seq(Saves) /\ Len(saving') <= 1
    BY <1>0
  <2> QED
    BY <1>0, <1>5, <2>1 DEF IInv, TypeOK, ser, life
<1>7. \A name : UploadsOf(name)' = UploadsOf(name) /\ (Once(name)' <=> Once(name))
  BY <1>0, SameUploads
<1>8. (\A k : Known(k)' <=> Known(k)) /\ (\A k : Pending(k)' <=> Pending(k))
  BY <1>0 DEF Known, Pending, Asked, ser, life
<1>9. \A bytes, name : Whole(bytes, name)' <=> Whole(bytes, name)
  BY <1>0, <1>7 DEF Whole
<1>10. \A j, k : Quiet(j, k)' <=> Quiet(j, k)
  BY <1>0 DEF Quiet, life
<1>11. ASSUME NEW j \in DOMAIN files, Quiet(j, files[j].chunk), Stored(j)
       PROVE  Stored(j)'
  <2>1. CASE files[j].chunk # s.chunk
    BY <1>0, <1>1, <1>5, <1>9, <1>11, <2>1 DEF Stored, ser
  <2>2. CASE files[j].chunk = s.chunk
    <3>1. s.in = "sent" /\ ~s.hole
      BY <1>0, <1>1, <1>2, <1>11, <2>2 DEF Stored, Quiet
    <3>2. s.by \in UploadsOf(files[j].name)
      BY <1>2, <1>11, <2>2 DEF UploadsOf
    <3>3. Whole(chunks'[s.chunk], files[j].name)
      BY <1>2, <1>4, <1>5, <3>1, <3>2 DEF Whole
    <3>4. Whole(chunks[s.chunk], files[j].name)'
      BY <1>0, <3>3 DEF Whole, UploadsOf, ser
    <3> QED
      BY <1>0, <2>2, <3>3, <1>7, <1>5 DEF Stored, Whole, ser
  <2> QED
    BY <2>1, <2>2
<1>12. TableInv'
  BY <1>0, <1>5, <1>7, <1>8 DEF IInv, TableInv, Asked, ser, life
<1>13. ChunksInv'
  BY <1>0, <1>2, <1>4, <1>5, <1>8 DEF IInv, ChunksInv
<1>14. BytesStayHome'
  BY <1>0, <1>2, <1>4, <1>5, <1>10 DEF IInv, BytesStayHome, ser
<1>15. \A e \in Clients : Writing(e)' => Writing(e) /\ drw'[e].upload = drw[e].upload
  BY <1>0 DEF Writing
<1>16. SizedInv'
  BY <1>0, <1>7, <1>8, <1>10, <1>11, <1>15, SizedStays DEF IInv, ser, life
<1>17. ASSUME NEW e \in Clients PROVE WriterInv(e)' /\ ReaderInv(e)'
  <2>1. ~(drw[e].pc = "data" /\ drw[e].conn)
    <3>1. SUFFICES ASSUME drw[e].pc = "data", drw[e].conn PROVE FALSE
      OBVIOUS
    <3>2. saving[1].in = "open"
      BY <3>1, ClientType DEF WriterInv, DataInv
    <3> QED
      BY <3>2 DEF SaveData
  <2>2. drw'[e] = drw[e] /\ WriterInv(e) /\ ReaderInv(e)
    BY <1>0, ClientType
  <2>3. \A j \in DOMAIN files : files[j].chunk = drw[e].chunk /\ Quiet(j, drw[e].chunk)
                                  /\ Once(files[j].name) /\ Stored(j) => Stored(j)'
    BY <1>11
  <2> QED
    BY <1>0, <1>5, <1>8, <2>1, <2>2, <2>3, ClientStays DEF ser, life
<1>18. ClientsInv'
  BY <1>15, <1>17 DEF IInv, ClientsInv
<1> QED
  BY <1>6, <1>12, <1>13, <1>14, <1>16, <1>18 DEF IInv

(* What create_file does to the chunk files, if it comes to it. *)
LEMMA MayCreate ==
  ASSUME IInv, NEW id \in Nat, Created(id) \/ UNCHANGED <<chunks, saving>>
  PROVE  /\ chunks' \in [DOMAIN chunks' -> Bytes]
         /\ DOMAIN chunks \subseteq DOMAIN chunks' /\ DOMAIN chunks' \subseteq DOMAIN chunks \cup {id}
         /\ \A k \in DOMAIN chunks' :
              chunks'[k] = Empty \/ (k \in DOMAIN chunks /\ chunks'[k] = chunks[k])
         /\ \A k \in DOMAIN chunks : k # id => chunks'[k] = chunks[k]
         /\ saving' \in Seq(Saves) /\ Len(saving') <= 1 /\ (saving' = <<>> <=> saving = <<>>)
         /\ saving # <<>> =>
              /\ saving'[1].by = saving[1].by /\ saving'[1].chunk = saving[1].chunk
              /\ saving'[1].size = saving[1].size /\ saving'[1].in = saving[1].in
              /\ saving'[1].hole => saving[1].hole \/ saving[1].chunk = id
<1>1. CASE UNCHANGED <<chunks, saving>>
  BY <1>1 DEF IInv, TypeOK
<1>2. CASE Created(id)
  <2>1. chunks' = [k \in DOMAIN chunks \cup {id} |-> IF k = id THEN Empty ELSE chunks[k]]
    BY <1>2 DEF Created
  <2>2. Empty \in Bytes /\ chunks \in [DOMAIN chunks -> Bytes]
    BY DEF IInv, TypeOK, Empty, Bytes
  <2>3. /\ chunks' \in [DOMAIN chunks' -> Bytes] /\ DOMAIN chunks' = DOMAIN chunks \cup {id}
        /\ \A k \in DOMAIN chunks' :
             chunks'[k] = Empty \/ (k \in DOMAIN chunks /\ chunks'[k] = chunks[k])
        /\ \A k \in DOMAIN chunks : k # id => chunks'[k] = chunks[k]
    BY <2>1, <2>2
  <2>4. CASE saving' = saving
    BY <2>3, <2>4 DEF IInv, TypeOK
  <2>5. CASE /\ saving # <<>> /\ saving[1].chunk = id
             /\ saving' = <<[saving[1] EXCEPT !.hole = TRUE]>>
    <3>1. PICK s \in Saves : /\ saving' = <<s>> /\ s.by = saving[1].by /\ s.chunk = saving[1].chunk
                             /\ s.size = saving[1].size /\ s.in = saving[1].in
      <4>1. [saving[1] EXCEPT !.hole = TRUE] \in Saves
        BY <2>5, SavingType DEF Saves
      <4> QED
        BY <2>5, <4>1, SavingType DEF Saves
    <3>2. saving' # <<>> /\ saving'[1] = s /\ saving' \in Seq(Saves) /\ Len(saving') <= 1
      BY <3>1
    <3> QED
      BY <2>3, <2>5, <3>1, <3>2
  <2> QED
    BY <1>2, <2>4, <2>5 DEF Created
<1> QED
  BY <1>1, <1>2

(* dat executes the request that is under way. *)
LEMMA CreateFileStep ==
  ASSUME IInv, CreateFile
  PROVE  IInv'
<1>0. /\ UNCHANGED <<files, next_chunkid, link, waiting, datUp, drw, uploads, life>>
      /\ lock = "asked" /\ lock' = "answering"
      /\ Created(Asked) \/ UNCHANGED <<chunks, saving>>
  BY DEF CreateFile
<1>1. PICK id \in Nat : id = Asked
  BY DEF Asked, IInv, TypeOK, TableInv
<1>2. id > FirstChunk /\ Known(id) /\ Pending(id) /\ (id \in DOMAIN chunks => id \in forgotten)
  BY <1>0, <1>1 DEF IInv, TableInv, Pending
<1>3. /\ chunks' \in [DOMAIN chunks' -> Bytes]
      /\ DOMAIN chunks \subseteq DOMAIN chunks' /\ DOMAIN chunks' \subseteq DOMAIN chunks \cup {id}
      /\ \A k \in DOMAIN chunks' :
           chunks'[k] = Empty \/ (k \in DOMAIN chunks /\ chunks'[k] = chunks[k])
      /\ \A k \in DOMAIN chunks : k # id => chunks'[k] = chunks[k]
      /\ saving' \in Seq(Saves) /\ Len(saving') <= 1 /\ (saving' = <<>> <=> saving = <<>>)
      /\ saving # <<>> =>
           /\ saving'[1].by = saving[1].by /\ saving'[1].chunk = saving[1].chunk
           /\ saving'[1].size = saving[1].size /\ saving'[1].in = saving[1].in
           /\ saving'[1].hole => saving[1].hole \/ saving[1].chunk = id
  BY <1>0, <1>1, MayCreate
<1>4. TypeOK'
  BY <1>0, <1>3 DEF IInv, TypeOK, life
<1>5. \A name : UploadsOf(name)' = UploadsOf(name) /\ (Once(name)' <=> Once(name))
  BY <1>0, SameUploads
<1>6. (\A k : Known(k)' <=> Known(k)) /\ (\A k : ~Pending(k)')
  BY <1>0 DEF Known, Pending, life
<1>7. \A bytes, name : Whole(bytes, name)' <=> Whole(bytes, name)
  BY <1>0, <1>5 DEF Whole
<1>8. \A j, k : Quiet(j, k)' <=> Quiet(j, k)
  BY <1>0 DEF Quiet, life
<1>9. \A j \in DOMAIN files : Stored(j) /\ files[j].chunk # id => Stored(j)'
  BY <1>0, <1>3, <1>7 DEF Stored
<1>10. TableInv'
  BY <1>0, <1>5, <1>6 DEF IInv, TableInv, Asked, life
<1>11. ChunksInv'
  <2>1. \A k \in DOMAIN chunks' : /\ k > FirstChunk /\ Known(k)'
                                  /\ chunks'[k].by \in DOMAIN uploads' \cup {0}
    BY <1>0, <1>2, <1>3, <1>6 DEF IInv, ChunksInv, Empty
  <2>2. ASSUME saving # <<>>
        PROVE  /\ saving'[1].by \in DOMAIN uploads'
               /\ saving'[1].size = uploads'[saving'[1].by].size /\ saving'[1].size # 0
               /\ saving'[1].chunk \in DOMAIN chunks'
               /\ saving'[1].hole => saving'[1].chunk \in forgotten'
               /\ \A j \in DOMAIN files' :
                    files'[j].chunk = saving'[1].chunk /\ j \notin stale'
                      /\ files'[j].chunk \notin forgotten' =>
                      uploads'[saving'[1].by].name = files'[j].name
    BY <1>0, <1>2, <1>3, <2>2 DEF IInv, ChunksInv, Quiet, life
  <2> QED
    BY <1>3, <2>1, <2>2 DEF ChunksInv, Quiet
<1>12. BytesStayHome'
  BY <1>0, <1>3, <1>8 DEF IInv, BytesStayHome, Empty
<1>13. \A e \in Clients : Writing(e)' => Writing(e) /\ drw'[e].upload = drw[e].upload
  BY <1>0 DEF Writing
<1>14. \A j \in DOMAIN files :
         files[j].size # 0 /\ Once(files[j].name) /\ Quiet(j, files[j].chunk) /\ Stored(j) =>
           Stored(j)'
  BY <1>2, <1>9 DEF IInv, SizedInv, Sized, Quiet
<1>15. SizedInv'
  BY <1>0, <1>5, <1>6, <1>8, <1>13, <1>14, SizedStays DEF IInv, life
<1>16. ASSUME NEW e \in Clients PROVE WriterInv(e)' /\ ReaderInv(e)'
  <2>1. drw'[e] = drw[e] /\ WriterInv(e) /\ ReaderInv(e)
    BY <1>0, ClientType
  <2>2. ASSUME drw[e].pc = "end", NEW j \in DOMAIN files, files[j].chunk = drw[e].chunk,
               Quiet(j, drw[e].chunk), Stored(j)
        PROVE  Stored(j)'
    <3>1. drw[e].chunk \notin forgotten /\ DataInv(e)
      BY <2>1, <2>2 DEF Quiet, WriterInv
    <3>2. drw[e].chunk # id
      BY <1>2, <2>2, <3>1 DEF DataInv
    <3> QED
      BY <1>9, <2>2, <3>2
  <2>3. \A k \in DOMAIN chunks' : k \in DOMAIN chunks \/ Pending(k)
    BY <1>2, <1>3
  <2> QED
    BY <1>0, <1>3, <1>6, <2>1, <2>2, <2>3, ClientStays DEF life
<1>17. ClientsInv'
  BY <1>13, <1>16 DEF IInv, ClientsInv
<1> QED
  BY <1>4, <1>10, <1>11, <1>12, <1>15, <1>17 DEF IInv

(* The elements of a sequence. *)
LEMMA SeqElements ==
  ASSUME NEW S, NEW s \in Seq(S)
  PROVE  /\ Len(s) \in Nat /\ DOMAIN s = 1 .. Len(s)
         /\ \A i \in DOMAIN s : s[i] \in S
  OBVIOUS

(* The files of the table. *)
LEMMA FileType ==
  ASSUME IInv
  PROVE  /\ files \in Seq(File) /\ Len(files) \in Nat /\ DOMAIN files = 1 .. Len(files)
         /\ \A j \in DOMAIN files :
              /\ files[j] \in File /\ files[j].name \in Names \cup {Lost}
              /\ files[j].chunk \in Nat /\ files[j].size \in Nat /\ files[j].had \subseteq Nat
<1>1. files \in Seq(File)
  BY DEF IInv, TypeOK
<1>2. \A j \in DOMAIN files : files[j] \in File
  BY <1>1
<1> QED
  BY <1>1, <1>2 DEF File

(* A name that no file may have been forgotten under. *)
LEMMA LostIsNoUpload ==
  ASSUME IInv
  PROVE  UploadsOf(Lost) = {} /\ ~Once(Lost)
<1>1. UploadsOf(Lost) = {}
  <2>1. uploads \in Seq([name : Names, size : Sizes])
    BY DEF IInv, TypeOK
  <2>2. \A u \in DOMAIN uploads : uploads[u] \in [name : Names, size : Sizes]
    BY <2>1, SeqElements
  <2>3. \A u \in DOMAIN uploads : uploads[u].name \in Names
    BY <2>2
  <2> QED
    BY <2>3, LostAssumption DEF UploadsOf
<1> QED
  BY <1>1, OnlyUpload DEF IInv

(* An upload begins. *)
LEMMA StartWriteStep ==
  ASSUME IInv, NEW c \in Clients, StartWrite(c)
  PROVE  IInv'
<1>0. UNCHANGED <<ser, dat, life>> /\ Len(uploads) < bound.uploads
  BY DEF StartWrite
<1>1. PICK name \in Names, size \in bound.sizes :
        /\ uploads' = Append(uploads, [name |-> name, size |-> size])
        /\ drw' = [drw EXCEPT ![c] = [Idle EXCEPT !.pc = "judge", !.name = <<name>>,
                                        !.upload = Len(uploads'), !.size = size]]
  BY DEF StartWrite
<1>2. bound.uploads \in Nat /\ size \in Sizes /\ size \in Nat
  BY BoundsAssumption, SizesAssumption DEF IInv, TypeOK
<1>3. PICK up \in [name : Names, size : Sizes] :
        up = [name |-> name, size |-> size] /\ uploads' = Append(uploads, up)
  BY <1>1, <1>2
<1>4. PICK u : u = Len(uploads')
  OBVIOUS
<1>5. /\ u = Len(uploads) + 1 /\ u \in Nat /\ Len(uploads) \in Nat
      /\ uploads' \in Seq([name : Names, size : Sizes])
      /\ DOMAIN uploads' = DOMAIN uploads \cup {u}
      /\ \A v \in DOMAIN uploads : uploads'[v] = uploads[v] /\ v # u
      /\ uploads'[u] = up
      /\ \A n : n # name => UploadsOf(n)' = UploadsOf(n)
      /\ UploadsOf(name)' = UploadsOf(name) \cup {u}
  <2>1. TypeOK /\ up.name = name /\ Len(uploads) \in Nat
    BY <1>3 DEF IInv, TypeOK
  <2>2. /\ Len(uploads') = Len(uploads) + 1
        /\ uploads' \in Seq([name : Names, size : Sizes])
        /\ DOMAIN uploads' = DOMAIN uploads \cup {Len(uploads')}
        /\ \A v \in DOMAIN uploads : uploads'[v] = uploads[v] /\ v # Len(uploads')
        /\ uploads'[Len(uploads')] = up
        /\ \A n : n # name => UploadsOf(n)' = UploadsOf(n)
        /\ UploadsOf(name)' = UploadsOf(name) \cup {Len(uploads')}
    BY <1>3, <2>1, NewUpload
  <2> QED
    BY <1>4, <2>1, <2>2
<1>6. PICK d \in Drws : /\ drw' = [drw EXCEPT ![c] = d] /\ d.pc = "judge" /\ d.name = <<name>>
                        /\ d.upload = u /\ d.size = size /\ d.cnt = 0 /\ d.inode = 0
  <2> DEFINE d == [Idle EXCEPT !.pc = "judge", !.name = <<name>>, !.upload = u, !.size = size]
  <2>1. d \in Drws
    <3>1. <<name>> \in Seq(Names) /\ Empty \in Bytes
      BY DEF Empty, Bytes
    <3>2. Idle \in Drws
      BY DEF Drws, Idle, Empty, Bytes, Places
    <3>3. "judge" \in Places
      BY DEF Places
    <3> QED
      BY <1>2, <1>5, <3>1, <3>2, <3>3 DEF Drws
  <2>2. d.pc = "judge" /\ d.name = <<name>> /\ d.upload = u /\ d.size = size
        /\ d.cnt = 0 /\ d.inode = 0
    BY DEF Idle
  <2> QED
    BY <1>1, <1>4, <2>1, <2>2
<1>7. /\ drw' \in [Clients -> Drws] /\ drw'[c] = d
      /\ \A e \in Clients \ {c} : drw'[e] = drw[e]
  BY <1>6, ClientType
<1>8. TypeOK'
  BY <1>0, <1>2, <1>4, <1>5, <1>7 DEF IInv, TypeOK, ser, dat, life
<1>9. ASSUME NEW n, UploadsOf(n) # {}, Once(n)'
      PROVE  Once(n) /\ UploadsOf(n)' = UploadsOf(n) /\ u \notin UploadsOf(n)'
  <2>1. Once(n) /\ UploadsOf(n)' = UploadsOf(n)
    BY <1>3, <1>9, OnceBefore DEF IInv
  <2> QED
    BY <1>5, <2>1 DEF UploadsOf
<1>10. \A j \in DOMAIN files : Once(files[j].name)' => UploadsOf(files[j].name) # {}
  <2>1. SUFFICES ASSUME NEW j \in DOMAIN files, Once(files[j].name)', files[j].name \notin Names
                 PROVE  FALSE
    BY DEF IInv, TableInv
  <2>2. files[j].name = Lost /\ name # Lost
    BY <2>1, FileType, LostAssumption
  <2>3. UploadsOf(Lost)' = {}
    BY <1>5, <2>2, LostIsNoUpload
  <2>4. Cardinality({}) = 0
    BY FS_EmptySet
  <2>5. ~Once(Lost)'
    BY <2>3, <2>4 DEF Once
  <2> QED
    BY <1>0, <2>1, <2>2, <2>5 DEF ser
<1>11. (\A k : Known(k)' <=> Known(k)) /\ (\A k : Pending(k)' <=> Pending(k))
  BY <1>0 DEF Known, Pending, Asked, ser, life
<1>12. \A j, k : Quiet(j, k)' <=> Quiet(j, k)
  BY <1>0 DEF Quiet, life
<1>13. ASSUME NEW bytes, NEW n, UploadsOf(n)' = UploadsOf(n)
       PROVE  Whole(bytes, n)' <=> Whole(bytes, n)
  BY <1>5, <1>13 DEF Whole, UploadsOf
<1>14. ASSUME NEW j \in DOMAIN files, Stored(j), UploadsOf(files[j].name)' = UploadsOf(files[j].name)
       PROVE  Stored(j)'
  BY <1>0, <1>13, <1>14 DEF Stored, ser, dat
<1>15. TableInv'
  <2>1. \A j \in DOMAIN files : Once(files[j].name)' => Once(files[j].name)
    <3>1. SUFFICES ASSUME NEW j \in DOMAIN files, Once(files[j].name)'
                   PROVE  Once(files[j].name)
      OBVIOUS
    <3>2. PICK n : n = files[j].name
      OBVIOUS
    <3>3. files' = files
      BY <1>0 DEF ser
    <3>4. UploadsOf(n)' = UploadsOf(n)
      BY <1>9, <1>10, <3>1, <3>2, <3>3
    <3> QED
      BY <3>1, <3>2, <3>3, <3>4 DEF Once
  <2>2. waiting # <<>> => waiting[2] \in DOMAIN files
    BY DEF IInv, TypeOK
  <2>3. waiting' # <<>> /\ Once(files[waiting[2]].name)' /\ waiting[2] \notin stale =>
          files[waiting[2]].size = 0
    BY <1>0, <2>1, <2>2 DEF IInv, TableInv, ser
  <2> QED
    BY <1>0, <1>5, <1>11, <2>3 DEF IInv, TableInv, Asked, ser, dat, life
<1>16. ChunksInv'
  BY <1>0, <1>5, <1>11, <1>12 DEF IInv, ChunksInv, ser, dat, life
<1>17. BytesStayHome'
  BY <1>0, <1>5, <1>12 DEF IInv, BytesStayHome, ChunksInv, ser, dat

<1>18. ASSUME NEW e \in Clients
       PROVE  Writing(e)' => \/ e = c
                             \/ Writing(e) /\ drw'[e] = drw[e] /\ drw[e].upload \in DOMAIN uploads
  BY <1>7, ClientType DEF Writing, WriterInv, InodeInv
<1>19. SizedInv'
  <2>1. SUFFICES ASSUME NEW j \in DOMAIN files,
                        Once(files[j].name)', j \notin stale, files[j].size # 0
                 PROVE  /\ files[j].chunk \notin forgotten =>
                             Stored(j)' /\ ~Pending(files[j].chunk)'
                        /\ \A v \in UploadsOf(files[j].name)' :
                             /\ files[j].size = uploads'[v].size
                             /\ files[j].had \subseteq {0, uploads'[v].size}
                             /\ \A e \in Clients : Writing(e)' => drw'[e].upload # v
    BY <1>0 DEF SizedInv, Sized, ser, life
  <2>2. PICK n : n = files[j].name /\ n = files'[j].name
    BY <1>0 DEF ser
  <2>3. Once(n) /\ UploadsOf(n)' = UploadsOf(n) /\ u \notin UploadsOf(n)'
    BY <1>9, <1>10, <2>1, <2>2
  <2>4. /\ files[j].chunk \notin forgotten => Stored(j) /\ ~Pending(files[j].chunk)
        /\ \A v \in UploadsOf(n) :
             /\ files[j].size = uploads[v].size /\ files[j].had \subseteq {0, uploads[v].size}
             /\ \A e \in Clients : Writing(e) => drw[e].upload # v
    BY <1>0, <1>12, <2>1, <2>2, <2>3 DEF IInv, SizedInv, Sized, ser
  <2>5. \A v \in UploadsOf(n) : v \in DOMAIN uploads /\ v # u /\ uploads'[v] = uploads[v]
    BY <1>5 DEF UploadsOf
  <2>6. files[j].chunk \notin forgotten => Stored(j)'
    BY <1>14, <2>2, <2>3, <2>4
  <2>7. files[j].chunk \notin forgotten => ~Pending(files[j].chunk)'
    BY <1>0, <1>11, <2>4 DEF ser
  <2>8. \A v \in UploadsOf(n), e \in Clients : Writing(e)' => drw'[e].upload # v
    BY <1>6, <1>7, <1>18, <2>4, <2>5
  <2> QED
    BY <2>2, <2>3, <2>4, <2>5, <2>6, <2>7, <2>8
<1>20. ASSUME NEW e \in Clients \ {c} PROVE WriterInv(e)' /\ ReaderInv(e)'
  <2>1. PICK f \in Drws : drw[e] = f /\ drw'[e] = f
    BY <1>7, ClientType
  <2>2. WriterInv(e) /\ ReaderInv(e)
    BY ClientType
  <2>3. InodeInv(e) => InodeInv(e)'
    BY <1>0, <1>5, <2>1 DEF InodeInv, ser, life
  <2>4. ChunkInv(e) => ChunkInv(e)'
    <3>1. ChunkInv(e) => Known(f.chunk)'
      BY <1>11, <2>1 DEF ChunkInv
    <3> QED
      BY <1>0, <1>12, <2>1, <3>1 DEF ChunkInv, ser, life
  <2>5. ASSUME DataInv(e) PROVE DataInv(e)'
    <3>1. ASSUME f.pc = "end", NEW j \in DOMAIN files, files[j].chunk = f.chunk,
                 Quiet(j, f.chunk), Once(files[j].name)'
          PROVE  Stored(j)'
      <4>1. PICK n : n = files[j].name /\ n = files'[j].name
        BY <1>0 DEF ser
      <4>2. Once(n) /\ UploadsOf(n)' = UploadsOf(n)
        BY <1>9, <1>10, <3>1, <4>1
      <4>3. Stored(j)
        BY <2>1, <2>5, <3>1, <4>1, <4>2 DEF DataInv
      <4> QED
        BY <1>14, <4>1, <4>2, <4>3
    <3>2. f.pc = "end" =>
            \A j \in DOMAIN files' :
              files'[j].chunk = f.chunk /\ Quiet(j, f.chunk)' /\ Once(files[j].name)' => Stored(j)'
      BY <1>0, <1>12, <3>1 DEF ser
    <3>3. Pending(f.chunk)' <=> Pending(f.chunk)
      BY <1>11
    <3> QED
      BY <1>0, <2>1, <2>5, <3>2, <3>3 DEF DataInv, dat, life
  <2>6. WriterInv(e)'
    BY <2>1, <2>2, <2>3, <2>4, <2>5 DEF WriterInv, Writing
  <2>7. ReaderInv(e)'
    <3>1. SUFFICES ASSUME Reading(e)' PROVE ReaderInv(e)'
      BY DEF ReaderInv
    <3>2. Reading(e)
      BY <2>1, <3>1 DEF Reading
    <3>3. PICK n : n = f.name[1]
      OBVIOUS
    <3>4. ASSUME f.inode \notin stale, f.pc # "rjudge", Once(n)'
          PROVE  Once(n) /\ UploadsOf(n)' = UploadsOf(n)
      <4>1. f.inode \in DOMAIN files /\ files[f.inode].name = n /\ files'[f.inode].name = n
        BY <1>0, <2>1, <2>2, <3>2, <3>3, <3>4 DEF ReaderInv, ser
      <4>2. Once(files[f.inode].name)'
        BY <3>4, <4>1
      <4>3. UploadsOf(n) # {}
        BY <1>10, <4>1, <4>2
      <4> QED
        BY <1>9, <3>4, <4>3
    <3>5. \A v \in UploadsOf(n) : uploads'[v] = uploads[v]
      BY <1>5 DEF UploadsOf
    <3>6. ASSUME f.pc \in {"rconnect", "rwait"}, Quiet(f.inode, f.chunk), Once(n)'
          PROVE  \A v \in UploadsOf(n)' : f.size = uploads'[v].size
      BY <2>1, <2>2, <3>2, <3>3, <3>4, <3>5, <3>6 DEF ReaderInv, Quiet
    <3>7. ASSUME f.pc = "rdata", Quiet(f.inode, f.chunk), Once(n)'
          PROVE  Whole(f.got, n)'
      BY <1>13, <2>1, <2>2, <3>2, <3>3, <3>4, <3>7 DEF ReaderInv, Quiet
    <3>8. Quiet(f.inode, f.chunk)' <=> Quiet(f.inode, f.chunk)
      BY <1>12
    <3> QED
      BY <1>0, <2>1, <2>2, <3>2, <3>3, <3>6, <3>7, <3>8 DEF ReaderInv, ser, life
  <2> QED
    BY <2>6, <2>7
<1>21. WriterInv(c)' /\ ReaderInv(c)'
  <2>1. d.name[1] = name /\ Len(d.name) = 1 /\ d.upload \in DOMAIN uploads'
    BY <1>5, <1>6
  <2>2. uploads'[d.upload] = [name |-> d.name[1], size |-> d.size]
    BY <1>3, <1>5, <1>6, <2>1
  <2>3. InodeInv(c)'
    <3>1. drw'[c] = d /\ d.pc = "judge" /\ d.inode = 0 /\ d.cnt < RETRIES
      BY <1>6, <1>7
    <3> QED
      BY <2>1, <2>2, <3>1 DEF InodeInv
  <2> QED
    BY <1>6, <1>7, <2>3 DEF WriterInv, ReaderInv, Reading
<1>22. ClientsInv'
  <2>1. \A e, f \in Clients :
          Writing(e)' /\ Writing(f)' /\ drw'[e].upload = drw'[f].upload => e = f
    BY <1>5, <1>6, <1>7, <1>18 DEF IInv, ClientsInv
  <2> QED
    BY <1>20, <1>21, <2>1 DEF ClientsInv
<1> QED
  BY <1>8, <1>15, <1>16, <1>17, <1>19, <1>22 DEF IInv

-----------------------------------------------------------------------------
(* Steps that change the table.  A file keeps its name and the chunk and    *)
(* size that it has; a chunk that it gets is new, and dat is asked for new  *)
(* chunks only.                                                             *)
TableGrows ==
  /\ DOMAIN files \subseteq DOMAIN files'
  /\ \A j \in DOMAIN files : /\ files'[j].name = files[j].name
                             /\ files[j].chunk # 0 => files'[j].chunk = files[j].chunk
                             /\ files[j].size # 0 => files'[j].size # 0
  /\ \A j \in DOMAIN files' :
       files'[j].chunk # 0 /\ files'[j].chunk \notin forgotten /\ Known(files'[j].chunk) =>
         j \in DOMAIN files /\ files'[j].chunk = files[j].chunk
  /\ \A k : Pending(k)' => Pending(k) \/ k \in forgotten \/ ~Known(k)

(* What is known of a chunk stays known. *)
LEMMA KnownStays ==
  ASSUME TableGrows, forgotten' = forgotten, NEW k, k # 0, Known(k)
  PROVE  Known(k)'
  BY DEF TableGrows, Known

(* What a client knows stays true while the table grows. *)
LEMMA ClientSeesGrowth ==
  ASSUME TableGrows, UNCHANGED <<dat, uploads, stale, forgotten>>,
         NEW e \in Clients, drw'[e] = drw[e], WriterInv(e), ReaderInv(e),
         waiting' = waiting \/ drw[e].pc # "blocked"
  PROVE  WriterInv(e)' /\ ReaderInv(e)'
<1>1. PICK d : drw[e] = d /\ drw'[e] = d
  OBVIOUS
<1>2. \A name : UploadsOf(name)' = UploadsOf(name) /\ (Once(name)' <=> Once(name))
  BY SameUploads
<1>3. \A bytes, name : Whole(bytes, name)' <=> Whole(bytes, name)
  BY <1>2 DEF Whole
<1>4. \A j, k : Quiet(j, k)' <=> Quiet(j, k)
  BY DEF Quiet
<1>5. (Writing(e)' <=> Writing(e)) /\ (Reading(e)' <=> Reading(e))
  BY <1>1 DEF Writing, Reading
<1>6. InodeInv(e) => InodeInv(e)'
  BY <1>1 DEF InodeInv, TableGrows
<1>7. ASSUME InodeInv(e), ChunkInv(e) PROVE ChunkInv(e)'
  <2>1. Known(d.chunk)'
    BY <1>1, <1>7, KnownStays DEF ChunkInv
  <2>2. d.inode \notin stale' => files'[d.inode].chunk = d.chunk
    BY <1>1, <1>7 DEF ChunkInv, InodeInv, TableGrows
  <2>3. \A j \in DOMAIN files' : files'[j].chunk = d.chunk /\ Quiet(j, d.chunk)'
                                   => files'[j].name = d.name[1]
    BY <1>1, <1>4, <1>7 DEF ChunkInv, TableGrows, Quiet
  <2> QED
    BY <1>1, <1>7, <2>1, <2>2, <2>3 DEF ChunkInv
<1>8. ASSUME ChunkInv(e), DataInv(e) PROVE DataInv(e)'
  <2>1. d.chunk \notin forgotten /\ Pending(d.chunk)' => Pending(d.chunk)
    BY <1>1, <1>8 DEF ChunkInv, TableGrows
  <2>2. ASSUME d.pc = "end", NEW j \in DOMAIN files', files'[j].chunk = d.chunk,
               Quiet(j, d.chunk), Once(files'[j].name)
        PROVE  Stored(j)'
    <3>1. j \in DOMAIN files /\ files[j].chunk = d.chunk /\ files'[j].name = files[j].name
      BY <1>1, <1>8, <2>2 DEF ChunkInv, TableGrows, Quiet
    <3>2. Stored(j)
      BY <1>1, <1>8, <2>2, <3>1 DEF DataInv
    <3> QED
      BY <1>3, <2>2, <3>1, <3>2 DEF Stored, dat
  <2>3. d.pc = "end" =>
          \A j \in DOMAIN files' :
            files'[j].chunk = d.chunk /\ Quiet(j, d.chunk)' /\ Once(files[j].name)' => Stored(j)'
    BY <1>2, <1>4, <2>2
  <2> QED
    BY <1>1, <1>8, <2>1, <2>3 DEF DataInv, dat
<1>9. WriterInv(e)'
  BY <1>1, <1>5, <1>6, <1>7, <1>8 DEF WriterInv, Writing
<1>10. ReaderInv(e)'
  BY <1>1, <1>2, <1>3, <1>4, <1>5 DEF ReaderInv, TableGrows
<1> QED
  BY <1>9, <1>10

(* What the chunk files hold stays right while the table grows. *)
LEMMA ChunksSeeGrowth ==
  ASSUME IInv, TableGrows, UNCHANGED <<dat, uploads, stale, forgotten>>
  PROVE  ChunksInv' /\ BytesStayHome'
<1>1. \A k \in DOMAIN chunks : Known(k) /\ Known(k)' /\ k # 0 /\ k > FirstChunk
  BY KnownStays DEF IInv, ChunksInv
<1>2. \A j, k : Quiet(j, k)' <=> Quiet(j, k)
  BY DEF Quiet
<1>3. \A j \in DOMAIN files' :
        Quiet(j, files'[j].chunk) /\ files'[j].chunk \in DOMAIN chunks =>
          j \in DOMAIN files /\ files'[j].chunk = files[j].chunk /\ files'[j].name = files[j].name
  BY <1>1 DEF TableGrows, Quiet
<1>4. ChunksInv'
  <2>1. \A k \in DOMAIN chunks' : /\ k > FirstChunk /\ Known(k)'
                                  /\ chunks'[k].by \in DOMAIN uploads' \cup {0}
    BY <1>1 DEF IInv, ChunksInv, dat
  <2>2. ASSUME saving # <<>>
        PROVE  /\ saving'[1].by \in DOMAIN uploads'
               /\ saving'[1].size = uploads'[saving'[1].by].size /\ saving'[1].size # 0
               /\ saving'[1].chunk \in DOMAIN chunks'
               /\ saving'[1].hole => saving'[1].chunk \in forgotten'
               /\ \A j \in DOMAIN files' :
                    files'[j].chunk = saving'[1].chunk /\ j \notin stale'
                      /\ files'[j].chunk \notin forgotten' =>
                      uploads'[saving'[1].by].name = files'[j].name
    BY <1>3, <2>2 DEF IInv, ChunksInv, Quiet, dat
  <2> QED
    BY <2>1, <2>2 DEF ChunksInv, Quiet, dat
<1>5. BytesStayHome'
  <2>1. SUFFICES ASSUME NEW j \in DOMAIN files', Quiet(j, files'[j].chunk),
                        files'[j].chunk \in DOMAIN chunks, chunks[files'[j].chunk].by # 0
                 PROVE  uploads[chunks[files'[j].chunk].by].name = files'[j].name
    BY DEF BytesStayHome, Quiet, dat
  <2> QED
    BY <1>3, <2>1 DEF IInv, BytesStayHome
<1> QED
  BY <1>4, <1>5

(* A file that the step leaves alone keeps what its size means. *)
LEMMA SizedSeesGrowth ==
  ASSUME IInv, TableGrows, UNCHANGED <<dat, uploads, stale, forgotten>>,
         \A e \in Clients : Writing(e)' => Writing(e) /\ drw'[e].upload = drw[e].upload,
         NEW j \in DOMAIN files, files'[j] = files[j]
  PROVE  Sized(j)'
<1>1. PICK f : f = files[j] /\ files'[j] = f
  OBVIOUS
<1>2. SUFFICES ASSUME Once(f.name), j \notin stale, f.size # 0
               PROVE  /\ f.chunk \notin forgotten => Stored(j)' /\ ~Pending(f.chunk)'
                      /\ \A u \in UploadsOf(f.name) :
                           /\ f.size = uploads[u].size
                           /\ f.had \subseteq {0, uploads[u].size}
                           /\ \A e \in Clients : Writing(e)' => drw'[e].upload # u
  <2>1. UploadsOf(f.name)' = UploadsOf(f.name) /\ (Once(f.name)' <=> Once(f.name))
    BY SameUploads
  <2> QED
    BY <1>1, <1>2, <2>1 DEF Sized
<1>3. /\ f.chunk \notin forgotten => Stored(j) /\ ~Pending(f.chunk)
      /\ \A u \in UploadsOf(f.name) :
           /\ f.size = uploads[u].size /\ f.had \subseteq {0, uploads[u].size}
           /\ \A e \in Clients : Writing(e) => drw[e].upload # u
  BY <1>1, <1>2 DEF IInv, SizedInv, Sized
<1>4. f.chunk \notin forgotten => Stored(j)'
  <2>1. \A bytes : Whole(bytes, f.name)' <=> Whole(bytes, f.name)
    BY SameUploads DEF Whole
  <2> QED
    BY <1>1, <1>3, <2>1 DEF Stored, dat
<1>5. f.chunk \notin forgotten => ~Pending(f.chunk)'
  BY <1>1, <1>2, <1>3 DEF TableGrows, Known
<1> QED
  BY <1>3, <1>4, <1>5

(* A file is created. *)
LEMMA CreatFileStep ==
  ASSUME IInv, NEW c \in Clients, CreatFile(c)
  PROVE  IInv'
<1>0. /\ UNCHANGED <<next_chunkid, link, lock, waiting, dat, uploads, life>>
      /\ drw[c].pc = "creat" /\ Writing(c) /\ InodeInv(c)
  BY ClientType DEF CreatFile, Calls, WriterInv, Writing
<1>1. PICK f \in File : /\ files' = Append(files, f) /\ f.name = drw[c].name[1]
                        /\ f.chunk = 0 /\ f.size = 0 /\ f.had = {0}
  <2>1. drw[c].name \in Seq(Names) /\ Len(drw[c].name) = 1
    BY <1>0, ClientType DEF Drws, InodeInv
  <2>2. drw[c].name[1] \in Names
    BY <2>1, SeqElements
  <2>3. /\ [NoFile EXCEPT !.name = drw[c].name[1]] \in File
        /\ [NoFile EXCEPT !.name = drw[c].name[1]].name = drw[c].name[1]
        /\ [NoFile EXCEPT !.name = drw[c].name[1]].chunk = 0
        /\ [NoFile EXCEPT !.name = drw[c].name[1]].size = 0
        /\ [NoFile EXCEPT !.name = drw[c].name[1]].had = {0}
    BY <2>2 DEF NoFile, File
  <2> QED
    BY <2>3 DEF CreatFile
<1>2. PICK n \in Nat : n = Len(files')
  BY <1>1, FileType
<1>3. /\ files' \in Seq(File) /\ n = Len(files) + 1 /\ DOMAIN files' = DOMAIN files \cup {n}
      /\ files'[n] = f /\ \A j \in DOMAIN files : files'[j] = files[j] /\ j # n
  BY <1>1, <1>2, FileType
<1>4. PICK d \in Drws : /\ drw' = [drw EXCEPT ![c] = d] /\ d.pc = "chunk" /\ d.inode \in {0, n}
                        /\ d.name = drw[c].name /\ d.upload = drw[c].upload
                        /\ d.size = drw[c].size /\ d.cnt = drw[c].cnt
  <2>1. PICK inode \in {0, n} : drw' = [drw EXCEPT ![c].inode = inode, ![c].pc = "chunk"]
    BY <1>2 DEF CreatFile
  <2>2. drw' = [drw EXCEPT ![c] = [drw[c] EXCEPT !.inode = inode, !.pc = "chunk"]]
    BY <2>1, ClientType DEF Drws
  <2>3. [drw[c] EXCEPT !.inode = inode, !.pc = "chunk"] \in Drws
    <3>1. inode \in Nat
      OBVIOUS
    <3> QED
      BY <3>1, ClientType, ZenonT(60) DEF Drws, Places
  <2> QED
    BY <2>2, <2>3, ClientType DEF Drws
<1>5. /\ drw' \in [Clients -> Drws] /\ drw'[c] = d
      /\ \A e \in Clients \ {c} : drw'[e] = drw[e]
  BY <1>4, ClientType
<1>6. TypeOK'
  <2>1. waiting' = <<>> \/ waiting' \in Clients \X (DOMAIN files')
    BY <1>0, <1>3 DEF IInv, TypeOK
  <2> QED
    BY <1>0, <1>3, <1>5, <2>1 DEF IInv, TypeOK, dat, life
<1>7. TableGrows
  <2>1. \A k : Pending(k)' <=> Pending(k)
    BY <1>0 DEF Pending, Asked
  <2> QED
    BY <1>1, <1>3, <2>1 DEF TableGrows
<1>8. \A name : UploadsOf(name)' = UploadsOf(name) /\ (Once(name)' <=> Once(name))
  BY <1>0, SameUploads
<1>9. TableInv'
  <2>1. Asked' = Asked /\ waiting' = waiting /\ chunks' = chunks /\ forgotten' = forgotten
        /\ lock' = lock /\ next_chunkid' = next_chunkid /\ stale' = stale
    BY <1>0 DEF Asked, dat, life
  <2>2. UploadsOf(f.name)' # {}
    BY <1>0, <1>1, <1>8 DEF InodeInv, UploadsOf
  <2>3. waiting # <<>> => waiting[2] \in DOMAIN files
    BY DEF IInv, TypeOK
  <2>4. lock = "asked" => Known(Asked)'
    BY <2>1, <1>3 DEF IInv, TableInv, Known
  <2>5. \A j \in DOMAIN files' :
          /\ files'[j].chunk = 0 \/ files'[j].chunk \in FirstChunk + 1 .. Asked
          /\ files'[j].size = 0 => files'[j].had \subseteq {0}
    BY <1>1, <1>3 DEF IInv, TableInv
  <2>6. \A j \in DOMAIN files' : files'[j].name \in Names => UploadsOf(files[j].name)' # {}
    BY <1>3, <1>8, <2>2 DEF IInv, TableInv
  <2>7. \A i, j \in DOMAIN files' :
          files'[i].chunk = files'[j].chunk /\ files'[j].chunk # 0 => i = j
    BY <1>1, <1>3 DEF IInv, TableInv
  <2> QED
    BY <1>3, <1>8, <2>1, <2>3, <2>4, <2>5, <2>6, <2>7 DEF IInv, TableInv
<1>10. ChunksInv' /\ BytesStayHome'
  BY <1>0, <1>7, ChunksSeeGrowth DEF life
<1>11. \A e \in Clients : Writing(e)' => Writing(e) /\ drw'[e].upload = drw[e].upload
  BY <1>0, <1>4, <1>5 DEF Writing
<1>12. SizedInv'
  <2>1. \A j \in DOMAIN files : Sized(j)'
    BY <1>0, <1>3, <1>7, <1>11, SizedSeesGrowth DEF life
  <2>2. Sized(n)'
    BY <1>1, <1>3 DEF Sized
  <2> QED
    BY <1>3, <2>1, <2>2 DEF SizedInv
<1>13. ASSUME NEW e \in Clients PROVE WriterInv(e)' /\ ReaderInv(e)'
  <2>1. CASE e # c
    BY <1>0, <1>5, <1>7, <2>1, ClientSeesGrowth, ClientType DEF life
  <2>2. CASE e = c
    <3>1. InodeInv(c)'
      <4>1. Len(d.name) = 1 /\ d.upload \in DOMAIN uploads' /\ d.cnt < RETRIES
            /\ uploads'[d.upload] = [name |-> d.name[1], size |-> d.size]
        BY <1>0, <1>4 DEF InodeInv
      <4>2. d.inode # 0 => d.inode \in DOMAIN files' /\ files'[d.inode].name = d.name[1]
        BY <1>1, <1>3, <1>4
      <4> QED
        BY <1>4, <1>5, <4>1, <4>2 DEF InodeInv
    <3> QED
      BY <1>4, <1>5, <2>2, <3>1 DEF WriterInv, ReaderInv, Reading
  <2> QED
    BY <2>1, <2>2
<1>14. ClientsInv'
  BY <1>11, <1>13 DEF IInv, ClientsInv
<1> QED
  BY <1>6, <1>9, <1>10, <1>12, <1>14 DEF IInv

(* A chunk is given to the file of the client that waits, and dat is asked. *)
LEMMA ChunkSentStep ==
  ASSUME IInv, ChunkSent
  PROVE  IInv'
<1>0. /\ UNCHANGED <<next_chunkid, link, dat, uploads, life>>
      /\ waiting # <<>> /\ lock = "free" /\ waiting' = <<>> /\ lock' \in {"asked", "lost"}
  BY DEF ChunkSent
<1>1. PICK c \in Clients, j \in DOMAIN files : waiting = <<c, j>>
  BY <1>0 DEF IInv, TypeOK
<1>2. PICK n \in Nat : /\ n = next_chunkid /\ n > FirstChunk /\ Asked = n - 1 /\ Asked' = n
                       /\ files[j].chunk = 0
                       /\ Once(files[j].name) /\ j \notin stale => files[j].size = 0
  BY <1>0, <1>1 DEF IInv, TypeOK, TableInv, Asked
<1>3. /\ files' \in Seq(File) /\ DOMAIN files' = DOMAIN files
      /\ files'[j].name = files[j].name /\ files'[j].chunk = n
      /\ files'[j].size = files[j].size /\ files'[j].had = files[j].had
      /\ \A i \in DOMAIN files : i # j => files'[i] = files[i]
  <2>1. files' = [files EXCEPT ![j] = [files[j] EXCEPT !.chunk = n]]
    BY <1>1, <1>2 DEF ChunkSent
  <2>2. [files[j] EXCEPT !.chunk = n] \in File
    BY FileType DEF File
  <2>3. files' \in Seq(File) /\ DOMAIN files' = DOMAIN files
    BY <2>1, <2>2, FileType
  <2>4. files'[j] = [files[j] EXCEPT !.chunk = n]
        /\ \A i \in DOMAIN files : i # j => files'[i] = files[i]
    BY <2>1, FileType
  <2> QED
    BY <2>3, <2>4, FileType DEF File
<1>4. \A i \in DOMAIN files : files[i].chunk < n
  BY <1>2 DEF IInv, TableInv
<1>5. Known(n) => n \in forgotten
  BY <1>2, <1>4 DEF Known
<1>6. /\ drw' \in [Clients -> Drws]
      /\ \A e \in Clients : \/ drw'[e] = drw[e] /\ ~(e = c /\ drw[e].pc = "blocked")
                            \/ /\ e = c /\ drw[e].pc = "blocked"
                               /\ drw'[e] = [drw[e] EXCEPT !.chunk = n, !.pc = "connect"]
  <2>1. drw' = [e \in Clients |-> IF e = c /\ drw[e].pc = "blocked"
                                  THEN [drw[e] EXCEPT !.chunk = n, !.pc = "connect"] ELSE drw[e]]
    BY <1>1, <1>2 DEF ChunkSent
  <2>2. \A e \in Clients : [drw[e] EXCEPT !.chunk = n, !.pc = "connect"] \in Drws
    BY ClientType, ZenonT(60) DEF Drws, Places
  <2> QED
    BY <2>1, <2>2, ClientType
<1>7. TypeOK'
  BY <1>0, <1>3, <1>6 DEF IInv, TypeOK, dat, life
<1>8. TableGrows
  <2>1. \A k : Pending(k)' => k = n
    BY <1>2 DEF Pending
  <2> QED
    BY <1>2, <1>3, <1>5, <2>1 DEF TableGrows
<1>9. \A name : UploadsOf(name)' = UploadsOf(name) /\ (Once(name)' <=> Once(name))
  BY <1>0, SameUploads
<1>10. TableInv'
  <2>1. waiting' = <<>> /\ chunks' = chunks /\ forgotten' = forgotten
        /\ next_chunkid' = next_chunkid /\ next_chunkid >= FirstChunk
    BY <1>0 DEF dat, life, IInv, TableInv
  <2>2. Known(n)'
    BY <1>3 DEF Known
  <2>3. n \in DOMAIN chunks => n \in forgotten
    BY <1>5 DEF IInv, ChunksInv
  <2>4. \A i \in DOMAIN files' :
          /\ files'[i].chunk = 0 \/ files'[i].chunk \in FirstChunk + 1 .. n
          /\ files'[i].size = 0 => files'[i].had \subseteq {0}
    BY <1>2, <1>3 DEF IInv, TableInv
  <2>5. \A i \in DOMAIN files' : files'[i].name \in Names => UploadsOf(files[i].name)' # {}
    BY <1>3, <1>9 DEF IInv, TableInv
  <2>6. \A i, k \in DOMAIN files' :
          files'[i].chunk = files'[k].chunk /\ files'[k].chunk # 0 => i = k
    BY <1>3, <1>4 DEF IInv, TableInv
  <2> QED
    BY <1>2, <2>1, <2>2, <2>3, <2>4, <2>5, <2>6 DEF TableInv
<1>11. ChunksInv' /\ BytesStayHome'
  BY <1>0, <1>8, ChunksSeeGrowth DEF life
<1>12. \A e \in Clients : Writing(e)' => Writing(e) /\ drw'[e].upload = drw[e].upload
  <2>1. \A e \in Clients : drw[e].pc = "blocked" =>
          [drw[e] EXCEPT !.chunk = n, !.pc = "connect"].upload = drw[e].upload
    BY ClientType DEF Drws
  <2> QED
    BY <1>6, <2>1 DEF Writing
<1>13. SizedInv'
  <2>1. \A i \in DOMAIN files : i # j => Sized(i)'
    BY <1>0, <1>3, <1>8, <1>12, SizedSeesGrowth DEF life
  <2>2. Sized(j)'
    BY <1>0, <1>2, <1>3, <1>9 DEF Sized, life
  <2> QED
    BY <1>3, <2>1, <2>2 DEF SizedInv
<1>14. ASSUME NEW e \in Clients PROVE WriterInv(e)' /\ ReaderInv(e)'
  <2>1. CASE drw'[e] = drw[e] /\ ~(e = c /\ drw[e].pc = "blocked")
    <3>1. drw[e].pc # "blocked"
      <4>1. SUFFICES ASSUME drw[e].pc = "blocked" PROVE FALSE
        OBVIOUS
      <4>2. waiting = <<e, drw[e].inode>>
        BY <4>1, ClientType DEF WriterInv, Writing, InodeInv
      <4> QED
        BY <1>1, <2>1, <4>1, <4>2
    <3> QED
      BY <1>0, <1>8, <2>1, <3>1, ClientSeesGrowth, ClientType DEF life
  <2>2. CASE /\ e = c /\ drw[e].pc = "blocked"
             /\ drw'[e] = [drw[e] EXCEPT !.chunk = n, !.pc = "connect"]
    <3>1. PICK d : /\ drw'[e] = d /\ d.pc = "connect" /\ d.chunk = n /\ d.inode = drw[e].inode
                   /\ d.name = drw[e].name /\ d.upload = drw[e].upload /\ d.size = drw[e].size
      <4>1. PICK d : d = [drw[e] EXCEPT !.chunk = n, !.pc = "connect"]
        OBVIOUS
      <4>2. /\ d.pc = "connect" /\ d.chunk = n /\ d.inode = drw[e].inode
            /\ d.name = drw[e].name /\ d.upload = drw[e].upload /\ d.size = drw[e].size
        BY <4>1, ClientType DEF Drws
      <4> QED
        BY <2>2, <4>1, <4>2
    <3>2. InodeInv(e) /\ d.inode = j
      <4>1. InodeInv(e) /\ waiting = <<e, drw[e].inode>>
        BY <2>2, ClientType DEF WriterInv, Writing, InodeInv
      <4> QED
        BY <1>1, <3>1, <4>1
    <3>3. InodeInv(e)'
      BY <1>0, <1>3, <3>1, <3>2 DEF InodeInv, life
    <3>4. ChunkInv(e)'
      <4>1. Known(n)' /\ n # 0 /\ j # 0
        BY <1>2, <1>3, FileType DEF Known
      <4>2. j \notin stale => files[j].name = d.name[1]
        BY <3>1, <3>2, FileType DEF InodeInv
      <4>3. \A i \in DOMAIN files' : files'[i].chunk = n => i = j
        BY <1>3, <1>4
      <4>4. \A i \in DOMAIN files' : files'[i].chunk = n /\ Quiet(i, n)' => files'[i].name = d.name[1]
        BY <1>0, <1>3, <4>2, <4>3 DEF Quiet, life
      <4> QED
        BY <1>3, <3>1, <3>2, <4>1, <4>4 DEF ChunkInv
    <3> QED
      BY <3>1, <3>3, <3>4 DEF WriterInv, ReaderInv, Reading
  <2> QED
    BY <1>6, <2>1, <2>2
<1>15. ClientsInv'
  BY <1>12, <1>14 DEF IInv, ClientsInv
<1> QED
  BY <1>7, <1>10, <1>11, <1>13, <1>15 DEF IInv

(* A file gets its size. *)
LEMMA WriteChunkEndStep ==
  ASSUME IInv, NEW c \in Clients, WriteChunkEnd(c)
  PROVE  IInv'
<1>0. /\ UNCHANGED <<next_chunkid, link, lock, waiting, dat, uploads, life>> /\ End(c)
      /\ drw[c].pc = "end" /\ Writing(c) /\ InodeInv(c) /\ ChunkInv(c) /\ DataInv(c)
      /\ drw[c].size # 0
  BY ClientType DEF WriteChunkEnd, Calls, WriterInv, DataInv, Writing
<1>1. PICK j : j = drw[c].inode
  OBVIOUS
<1>2. CASE files' = files
  BY <1>0, <1>2, EndStep DEF ser
<1>3. CASE /\ IsFile(j) /\ files[j].chunk # 0
           /\ files' = [files EXCEPT ![j].size = drw[c].size, ![j].had = @ \cup {drw[c].size}]
  <2>1. j \in DOMAIN files /\ drw[c].size \in Nat
    BY <1>3, ClientType DEF IsFile, Drws
  <2>2. PICK f \in File : /\ files' = [files EXCEPT ![j] = f] /\ f.name = files[j].name
                          /\ f.chunk = files[j].chunk /\ f.size = drw[c].size
                          /\ f.had = files[j].had \cup {drw[c].size}
    <3> DEFINE f == [files[j] EXCEPT !.size = drw[c].size, !.had = files[j].had \cup {drw[c].size}]
    <3>1. f \in File
      BY <2>1, FileType DEF File
    <3>2. /\ f.name = files[j].name /\ f.chunk = files[j].chunk /\ f.size = drw[c].size
          /\ f.had = files[j].had \cup {drw[c].size}
      BY <2>1, FileType DEF File
    <3>3. files' = [files EXCEPT ![j] = f]
      BY <1>3, <2>1, FileType DEF File
    <3> QED
      BY <3>1, <3>2, <3>3
  <2>3. /\ files' \in Seq(File) /\ DOMAIN files' = DOMAIN files /\ files'[j] = f
        /\ \A i \in DOMAIN files : i # j => files'[i] = files[i]
    BY <2>1, <2>2, FileType
  <2>4. /\ drw' \in [Clients -> Drws] /\ drw'[c] = Idle
        /\ \A e \in Clients \ {c} : drw'[e] = drw[e]
    BY <1>0, ClientType DEF End, Drws, Idle, Empty, Bytes, Places
  <2>5. TypeOK'
    BY <1>0, <2>3, <2>4 DEF IInv, TypeOK, dat, life
  <2>6. (\A k : Known(k)' <=> Known(k)) /\ (\A k : Pending(k)' <=> Pending(k))
    <3>1. \A k : (\E i \in DOMAIN files' : files'[i].chunk = k) <=>
                 (\E i \in DOMAIN files : files[i].chunk = k)
      BY <2>1, <2>2, <2>3
    <3> QED
      BY <1>0, <3>1 DEF Known, Pending, Asked, life
  <2>7. TableGrows
    BY <1>0, <2>2, <2>3, <2>6 DEF TableGrows
  <2>8. \A name : UploadsOf(name)' = UploadsOf(name) /\ (Once(name)' <=> Once(name))
    BY <1>0, SameUploads
  <2>9. TableInv'
    <3>1. Asked' = Asked /\ waiting' = waiting /\ chunks' = chunks /\ forgotten' = forgotten
          /\ lock' = lock /\ next_chunkid' = next_chunkid /\ stale' = stale
      BY <1>0 DEF Asked, dat, life
    <3>2. waiting # <<>> => waiting[2] \in DOMAIN files
      BY DEF IInv, TypeOK
    <3>3. \A i \in DOMAIN files' : files'[i].chunk = files[i].chunk /\ files'[i].name = files[i].name
      BY <2>2, <2>3
    <3>4. \A i \in DOMAIN files' :
            /\ files'[i].chunk = 0 \/ files'[i].chunk \in FirstChunk + 1 .. Asked
            /\ files'[i].size = 0 => files'[i].had \subseteq {0}
      BY <1>0, <1>3, <2>2, <2>3 DEF IInv, TableInv
    <3>5. \A i \in DOMAIN files' : files'[i].name \in Names => UploadsOf(files[i].name)' # {}
      BY <2>3, <2>8, <3>3 DEF IInv, TableInv
    <3>6. \A i, k \in DOMAIN files' :
            files'[i].chunk = files'[k].chunk /\ files'[k].chunk # 0 => i = k
      BY <2>3, <3>3 DEF IInv, TableInv
    <3>7. waiting # <<>> => files'[waiting[2]] = files[waiting[2]]
      BY <1>3, <2>3, <3>2 DEF IInv, TableInv
    <3>8. ASSUME waiting # <<>>, NEW w, w = waiting[2]
          PROVE  /\ next_chunkid > FirstChunk /\ files'[w].chunk = 0
                 /\ Once(files[w].name)' /\ w \notin stale => files'[w].size = 0
      <4>1. files'[w] = files[w]
        BY <3>7, <3>8
      <4>2. Once(files[w].name)' <=> Once(files[w].name)
        BY <2>8, <4>1
      <4> QED
        BY <3>8, <4>1, <4>2 DEF IInv, TableInv
    <3>9. waiting' # <<>> =>
            /\ next_chunkid' > FirstChunk /\ files'[waiting'[2]].chunk = 0
            /\ Once(files[waiting[2]].name)' /\ waiting'[2] \notin stale' =>
                 files'[waiting'[2]].size = 0
      BY <3>1, <3>8
    <3>10. Asked' = Asked /\ next_chunkid' >= FirstChunk /\ lock' = lock /\ chunks' = chunks
      BY <3>1 DEF IInv, TableInv
    <3> QED
      BY <2>3, <2>6, <2>8, <3>1, <3>3, <3>4, <3>5, <3>6, <3>9, <3>10 DEF IInv, TableInv
  <2>10. ChunksInv' /\ BytesStayHome'
    BY <1>0, <2>7, ChunksSeeGrowth DEF life
  <2>11. \A e \in Clients : Writing(e)' => e # c /\ Writing(e) /\ drw'[e].upload = drw[e].upload
    BY <2>4 DEF Writing, Idle
  <2>12. Sized(j)'
    <3>1. SUFFICES ASSUME Once(f.name), j \notin stale
                   PROVE  /\ f.chunk \notin forgotten => Stored(j)' /\ ~Pending(f.chunk)'
                          /\ \A u \in UploadsOf(f.name) :
                               /\ f.size = uploads[u].size
                               /\ f.had \subseteq {0, uploads[u].size}
                               /\ \A e \in Clients : Writing(e)' => drw'[e].upload # u
      <4>1. UploadsOf(f.name)' = UploadsOf(f.name) /\ (Once(f.name)' <=> Once(f.name))
        BY <2>8
      <4> QED
        BY <1>0, <2>3, <3>1, <4>1 DEF Sized, life
    <3>2. files[j].name = drw[c].name[1] /\ files[j].chunk = drw[c].chunk
      BY <1>0, <1>1, <2>1, <2>2, <3>1, FileType DEF Quiet, InodeInv, ChunkInv
    <3>3. UploadsOf(f.name) = {drw[c].upload} /\ uploads[drw[c].upload].size = drw[c].size
      <4>1. drw[c].upload \in UploadsOf(f.name) /\ uploads[drw[c].upload].size = drw[c].size
        BY <1>0, <2>2, <3>2 DEF InodeInv, UploadsOf
      <4> QED
        BY <3>1, <4>1, OnlyUpload DEF IInv
    <3>4. f.chunk \notin forgotten => Stored(j)'
      <4>1. f.chunk \notin forgotten => Stored(j)
        BY <1>0, <2>1, <2>2, <3>1, <3>2 DEF DataInv, Quiet
      <4>2. \A bytes : Whole(bytes, f.name)' <=> Whole(bytes, f.name)
        BY <1>0, <2>8 DEF Whole
      <4> QED
        BY <1>0, <2>2, <2>3, <4>1, <4>2 DEF Stored, dat
    <3>5. f.chunk \notin forgotten => ~Pending(f.chunk)
      <4>1. CASE drw[c].conn
        BY <1>0, <2>2, <3>1, <3>2, <4>1 DEF DataInv, Pending, Quiet, IInv, TableInv
      <4>2. CASE ~drw[c].conn
        BY <1>0, <2>2, <3>1, <3>2, <4>2 DEF DataInv, Quiet
      <4> QED
        BY <4>1, <4>2
    <3>6. files[j].had \subseteq {0}
      <4>1. files[j].size = 0
        BY <1>0, <2>1, <2>2, <3>1, <3>3 DEF IInv, SizedInv, Sized
      <4> QED
        BY <2>1, <4>1 DEF IInv, TableInv
    <3>7. \A e \in Clients : Writing(e)' => drw'[e].upload # drw[c].upload
      BY <1>0, <2>11 DEF IInv, ClientsInv
    <3> QED
      BY <2>2, <2>6, <3>3, <3>4, <3>5, <3>6, <3>7
  <2>13. SizedInv'
    <3>1. \A i \in DOMAIN files : i # j => Sized(i)'
      BY <1>0, <2>3, <2>7, <2>11, SizedSeesGrowth DEF life
    <3> QED
      BY <2>3, <2>12, <3>1 DEF SizedInv
  <2>14. ASSUME NEW e \in Clients PROVE WriterInv(e)' /\ ReaderInv(e)'
    <3>1. CASE e # c
      BY <1>0, <2>4, <2>7, <3>1, ClientSeesGrowth, ClientType DEF life
    <3>2. CASE e = c
      BY <2>4, <3>2 DEF WriterInv, ReaderInv, Writing, Reading, Idle
    <3> QED
      BY <3>1, <3>2
  <2>15. ClientsInv'
    BY <2>11, <2>14 DEF IInv, ClientsInv
  <2> QED
    BY <2>5, <2>9, <2>10, <2>13, <2>15 DEF IInv
<1> QED
  BY <1>1, <1>2, <1>3 DEF WriteChunkEnd

-----------------------------------------------------------------------------
(* Deaths of the servers. *)

(* dat dies, and with it all chunk files and connections. *)
LEMMA DatCrashStep ==
  ASSUME IInv, DatCrash
  PROVE  IInv'
<1>0. /\ UNCHANGED <<files, next_chunkid, waiting, uploads, life>> /\ datUp' = FALSE
      /\ chunks' = <<>> /\ saving' = <<>> /\ link' \in {"none", "up", "broken"}
      /\ lock' \in {"free", "answering", "lost"}
      /\ drw' = [c \in Clients |-> [drw[c] EXCEPT !.conn = FALSE]]
  BY DEF DatCrash, IInv, TypeOK
<1>1. DOMAIN chunks' = {} /\ chunks' \in [DOMAIN chunks' -> Bytes]
  BY <1>0
<1>2. /\ drw' \in [Clients -> Drws]
      /\ \A c \in Clients :
           /\ drw'[c].pc = drw[c].pc /\ drw'[c].name = drw[c].name
           /\ drw'[c].upload = drw[c].upload /\ drw'[c].inode = drw[c].inode
           /\ drw'[c].chunk = drw[c].chunk /\ drw'[c].size = drw[c].size
           /\ drw'[c].cnt = drw[c].cnt /\ ~drw'[c].conn /\ drw'[c].got = drw[c].got
  <2>1. \A c \in Clients : [drw[c] EXCEPT !.conn = FALSE] \in Drws
    BY ClientType DEF Drws
  <2> QED
    BY <1>0, <2>1, ClientType DEF Drws
<1>3. TypeOK'
  <2>1. saving' \in Seq(Saves) /\ Len(saving') <= 1
    BY <1>0
  <2> QED
    BY <1>0, <1>1, <1>2, <2>1 DEF IInv, TypeOK, life
<1>4. \A name : UploadsOf(name)' = UploadsOf(name) /\ (Once(name)' <=> Once(name))
  BY <1>0, SameUploads
<1>5. (\A k : Known(k)' <=> Known(k)) /\ (\A k : ~Pending(k)')
  BY <1>0 DEF Known, Pending, life
<1>6. \A bytes, name : Whole(bytes, name)' <=> Whole(bytes, name)
  BY <1>0, <1>4 DEF Whole
<1>7. \A j : Stored(j)'
  BY <1>1 DEF Stored
<1>8. \A j, k : Quiet(j, k)' <=> Quiet(j, k)
  BY <1>0 DEF Quiet, life
<1>9. TableInv'
  BY <1>0, <1>1, <1>4, <1>5 DEF IInv, TableInv, Asked, life
<1>10. ChunksInv' /\ BytesStayHome'
  BY <1>0, <1>1 DEF ChunksInv, BytesStayHome
<1>11. \A e \in Clients : Writing(e)' => Writing(e) /\ drw'[e].upload = drw[e].upload
  BY <1>2 DEF Writing
<1>12. SizedInv'
  BY <1>0, <1>4, <1>5, <1>7, <1>8, <1>11, SizedStays DEF IInv, life
<1>13. ASSUME NEW e \in Clients PROVE WriterInv(e)' /\ ReaderInv(e)'
  <2>1. PICK d, f : /\ drw[e] = d /\ drw'[e] = f
                    /\ f.pc = d.pc /\ f.name = d.name /\ f.upload = d.upload
                    /\ f.inode = d.inode /\ f.chunk = d.chunk /\ f.size = d.size
                    /\ f.cnt = d.cnt /\ ~f.conn /\ f.got = d.got
    BY <1>2
  <2>2. (Writing(e)' <=> Writing(e)) /\ (Reading(e)' <=> Reading(e))
    BY <2>1 DEF Writing, Reading
  <2>3. InodeInv(e) => InodeInv(e)'
    BY <1>0, <2>1, ZenonT(60) DEF InodeInv, life
  <2>4. ASSUME ChunkInv(e) PROVE ChunkInv(e)'
    <3>1. Known(f.chunk)' /\ f.chunk # 0 /\ f.inode # 0
      BY <1>5, <2>1, <2>4 DEF ChunkInv
    <3>2. f.inode \notin stale' => files'[f.inode].chunk = f.chunk
      BY <1>0, <2>1, <2>4 DEF ChunkInv, life
    <3>3. \A j \in DOMAIN files' : files'[j].chunk = f.chunk /\ Quiet(j, f.chunk)'
                                     => files'[j].name = f.name[1]
      BY <1>0, <1>8, <2>1, <2>4 DEF ChunkInv
    <3> QED
      BY <2>1, <3>1, <3>2, <3>3 DEF ChunkInv
  <2>5. ASSUME DataInv(e) PROVE DataInv(e)'
    <3>1. f.pc # "info" => f.size # 0
      BY <2>1, <2>5 DEF DataInv
    <3>2. f.chunk \notin DOMAIN chunks' /\ ~Pending(f.chunk)'
      BY <1>1, <1>5
    <3> QED
      BY <1>7, <2>1, <3>1, <3>2 DEF DataInv
  <2>6. WriterInv(e)'
    BY <2>1, <2>2, <2>3, <2>4, <2>5, ClientType DEF WriterInv
  <2>7. ReaderInv(e)'
    <3>1. PICK n : n = d.name[1] /\ n = f.name[1]
      BY <2>1
    <3>2. /\ UploadsOf(n)' = UploadsOf(n) /\ (Once(n)' <=> Once(n))
          /\ (Whole(d.got, n)' <=> Whole(d.got, n))
          /\ (Quiet(d.inode, d.chunk)' <=> Quiet(d.inode, d.chunk))
      BY <1>4, <1>6, <1>8
    <3>3. ReaderInv(e) /\ files' = files /\ stale' = stale /\ uploads' = uploads
      BY <1>0, ClientType DEF life
    <3> QED
      BY <2>1, <2>2, <3>1, <3>2, <3>3 DEF ReaderInv
  <2> QED
    BY <2>6, <2>7
<1>14. ClientsInv'
  BY <1>11, <1>13 DEF IInv, ClientsInv
<1> QED
  BY <1>3, <1>9, <1>10, <1>12, <1>14 DEF IInv

(* What Older is, member by member. *)
LEMMA OlderIs ==
  ASSUME NEW f, NEW g \in Older(f)
  PROVE  \/ g = NoFile
         \/ \E k \in {0, f.chunk}, s \in f.had :
              g = [f EXCEPT !.chunk = k, !.size = s, !.had = {s}]
<1> DEFINE At(k, s) == [f EXCEPT !.chunk = k, !.size = s, !.had = {s}]
           All(s) == {At(k, s) : k \in {0, f.chunk}}
<1>1. Older(f) = {NoFile} \cup UNION {All(s) : s \in f.had}
  BY DEF Older
<1> HIDE DEF All
<1>2. g = NoFile \/ \E s \in f.had : g \in All(s)
  BY <1>1, Zenon
<1> USE DEF All
<1> HIDE DEF At
<1>3. \A s : g \in All(s) => \E k \in {0, f.chunk} : g = At(k, s)
  BY Zenon
<1>4. g = NoFile \/ \E k \in {0, f.chunk}, s \in f.had : g = At(k, s)
  BY <1>2, <1>3, Zenon
<1> QED
  BY <1>4, Zenon DEF At

(* What a restart may load for the files. *)
LEMMA LoadedFiles ==
  ASSUME IInv, NEW kept \in Loads
  PROVE  /\ kept \in Seq(File) /\ DOMAIN kept \subseteq DOMAIN files
         /\ \A j \in DOMAIN kept :
              /\ kept[j].name \in {Lost, files[j].name}
              /\ kept[j].chunk \in {0, files[j].chunk}
              /\ kept[j].chunk # 0 => kept[j].name = files[j].name
              /\ kept[j].size # 0 => kept[j].name = files[j].name
              /\ kept[j].size \in files[j].had \cup {0} /\ kept[j].had = {kept[j].size}
<1>1. /\ \E m \in 0 .. Len(files) : kept \in [1 .. m -> UNION {Older(files[j]) : j \in DOMAIN files}]
      /\ \A j \in DOMAIN kept : kept[j] \in Older(files[j])
  BY DEF Loads
<1>2. PICK m \in 0 .. Len(files) : DOMAIN kept = 1 .. m /\ kept = [j \in 1 .. m |-> kept[j]]
  BY <1>1
<1>3. DOMAIN kept \subseteq DOMAIN files
  BY <1>2, FileType
<1>4. ASSUME NEW j \in DOMAIN kept
      PROVE  /\ kept[j] \in File
             /\ kept[j].name \in {Lost, files[j].name}
             /\ kept[j].chunk \in {0, files[j].chunk}
             /\ kept[j].chunk # 0 => kept[j].name = files[j].name
             /\ kept[j].size # 0 => kept[j].name = files[j].name
             /\ kept[j].size \in files[j].had \cup {0} /\ kept[j].had = {kept[j].size}
  <2>1. /\ files[j] \in File /\ files[j].name \in Names \cup {Lost}
        /\ files[j].chunk \in Nat /\ files[j].size \in Nat /\ files[j].had \subseteq Nat
    BY <1>3, FileType
  <2>2. CASE kept[j] = NoFile
    BY <2>1, <2>2 DEF NoFile, File
  <2>3. ASSUME NEW k \in {0, files[j].chunk}, NEW s \in files[j].had,
               kept[j] = [files[j] EXCEPT !.chunk = k, !.size = s, !.had = {s}]
        PROVE  /\ kept[j] \in File /\ kept[j].name = files[j].name
               /\ kept[j].chunk = k /\ kept[j].size = s /\ kept[j].had = {s}
    <3>1. PICK f : f = [files[j] EXCEPT !.chunk = k, !.size = s, !.had = {s}]
      OBVIOUS
    <3>2. f.name = files[j].name /\ f.chunk = k /\ f.size = s /\ f.had = {s}
      BY <2>1, <3>1 DEF File
    <3>3. k \in Nat /\ s \in Nat /\ {s} \in SUBSET Nat
      BY <2>1
    <3>4. f \in File
      BY <2>1, <3>1, <3>3 DEF File
    <3> QED
      BY <2>3, <3>1, <3>2, <3>4
  <2>4. \/ kept[j] = NoFile
        \/ \E k \in {0, files[j].chunk}, s \in files[j].had :
             kept[j] = [files[j] EXCEPT !.chunk = k, !.size = s, !.had = {s}]
    <3>1. PICK f : f = files[j]
      OBVIOUS
    <3>2. kept[j] \in Older(f)
      BY <1>1, <1>4, <3>1
    <3>3. \/ kept[j] = NoFile
          \/ \E k \in {0, f.chunk}, s \in f.had :
               kept[j] = [f EXCEPT !.chunk = k, !.size = s, !.had = {s}]
      BY <3>2, OlderIs
    <3> QED
      BY <3>1, <3>3
  <2> QED
    BY <2>2, <2>3, <2>4
<1>5. kept \in Seq(File)
  BY <1>2, <1>4, FileType
<1> QED
  BY <1>3, <1>4, <1>5

(* ser dies, and what it will load is older than what it knew. *)
LEMMA SerCrashStep ==
  ASSUME IInv, SerCrash
  PROVE  IInv'
<1>0. /\ UNCHANGED <<datUp, uploads, bound>> /\ serUp' = FALSE
      /\ crashes < bound.crashes /\ crashes' = crashes + 1
      /\ link' = "none" /\ lock' = "free" /\ waiting' = <<>>
      /\ files' \in Loads /\ next_chunkid' \in NextChunkid(files')
      /\ forgotten' = forgotten \cup {k \in FirstChunk + 1 .. next_chunkid :
                                        \A j \in DOMAIN files' : files'[j].chunk # k}
      /\ stale' = stale \cup ({drw[c].inode : c \in Clients} \ {0})
      /\ \E hung \in SUBSET {c \in Clients : InCall(c)} :
           drw' = [c \in Clients |-> IF c \in hung \/ drw[c].pc = "blocked"
                                     THEN [drw[c] EXCEPT !.pc = "hung"] ELSE drw[c]]
  BY DEF SerCrash
<1>1. /\ files' \in Seq(File) /\ DOMAIN files' \subseteq DOMAIN files
      /\ \A j \in DOMAIN files' :
           /\ files'[j].name \in {Lost, files[j].name}
           /\ files'[j].chunk \in {0, files[j].chunk}
           /\ files'[j].chunk # 0 => files'[j].name = files[j].name
           /\ files'[j].size # 0 => files'[j].name = files[j].name
           /\ files'[j].size \in files[j].had \cup {0} /\ files'[j].had = {files'[j].size}
  BY <1>0, LoadedFiles
<1>2. \A j \in DOMAIN files' : files'[j].chunk \in Nat
  <2>1. \A j \in DOMAIN files' : files'[j] \in File
    BY <1>1, SeqElements
  <2> QED
    BY <2>1 DEF File
<1>3. /\ next_chunkid' \in Nat /\ next_chunkid' >= FirstChunk
      /\ \A j \in DOMAIN files' : files'[j].chunk <= next_chunkid'
  BY <1>0, <1>2 DEF NextChunkid
<1>4. PICK id \in Nat : id = Asked
  BY DEF Asked, IInv, TypeOK, TableInv
<1>5. Created(id) \/ UNCHANGED <<chunks, saving>>
  BY <1>4 DEF SerCrash
<1>6. /\ chunks' \in [DOMAIN chunks' -> Bytes]
      /\ DOMAIN chunks \subseteq DOMAIN chunks' /\ DOMAIN chunks' \subseteq DOMAIN chunks \cup {id}
      /\ \A k \in DOMAIN chunks' :
           chunks'[k] = Empty \/ (k \in DOMAIN chunks /\ chunks'[k] = chunks[k])
      /\ \A k \in DOMAIN chunks : k # id => chunks'[k] = chunks[k]
      /\ saving' \in Seq(Saves) /\ Len(saving') <= 1 /\ (saving' = <<>> <=> saving = <<>>)
      /\ saving # <<>> =>
           /\ saving'[1].by = saving[1].by /\ saving'[1].chunk = saving[1].chunk
           /\ saving'[1].size = saving[1].size /\ saving'[1].in = saving[1].in
           /\ saving'[1].hole => saving[1].hole \/ saving[1].chunk = id
  BY <1>5, MayCreate
<1>7. \/ UNCHANGED <<chunks, saving>>
      \/ /\ id > FirstChunk /\ Known(id) /\ Pending(id)
         /\ id \in DOMAIN chunks => id \in forgotten
  BY <1>4 DEF SerCrash, IInv, TableInv, Pending
<1>8. /\ drw' \in [Clients -> Drws]
      /\ \A c \in Clients :
           /\ drw'[c].pc = "hung" \/ (drw'[c].pc = drw[c].pc /\ drw[c].pc # "blocked")
           /\ drw'[c].name = drw[c].name
           /\ drw'[c].upload = drw[c].upload /\ drw'[c].inode = drw[c].inode
           /\ drw'[c].chunk = drw[c].chunk /\ drw'[c].size = drw[c].size
           /\ drw'[c].cnt = drw[c].cnt /\ drw'[c].conn = drw[c].conn /\ drw'[c].got = drw[c].got
  <2>1. \A c \in Clients : [drw[c] EXCEPT !.pc = "hung"] \in Drws
    BY ClientType, ZenonT(60) DEF Drws, Places
  <2> QED
    BY <1>0, <2>1, ClientType DEF Drws
<1>9. \A c \in Clients : drw[c].inode \in stale' \cup {0} /\ drw[c].inode \in Nat
  BY <1>0, ClientType DEF Drws
<1>10. stale \subseteq stale' /\ forgotten \subseteq forgotten'
  BY <1>0
<1>11. TypeOK'
  <2>1. next_chunkid \in Nat /\ bound \in Bounds /\ bound.crashes \in Nat
    BY BoundsAssumption DEF IInv, TypeOK
  <2>2. stale' \subseteq Nat /\ forgotten' \subseteq Nat
    BY <1>0, <1>9, <2>1 DEF IInv, TypeOK
  <2>3. DOMAIN chunks' \subseteq Nat
    BY <1>6 DEF IInv, TypeOK
  <2>4. crashes' \in 0 .. bound'.crashes
    BY <1>0, <2>1 DEF IInv, TypeOK
  <2> QED
    BY <1>0, <1>1, <1>3, <1>6, <1>8, <2>1, <2>2, <2>3, <2>4 DEF IInv, TypeOK
<1>12. \A name : UploadsOf(name)' = UploadsOf(name) /\ (Once(name)' <=> Once(name))
  BY <1>0, SameUploads
<1>13. ASSUME NEW k, k # 0, Known(k) PROVE Known(k)'
  <2>1. CASE k \in forgotten
    BY <1>10, <2>1 DEF Known
  <2>2. CASE \E j \in DOMAIN files : files[j].chunk = k
    <3>1. k \in FirstChunk + 1 .. next_chunkid
      BY <1>13, <2>2 DEF IInv, TypeOK, TableInv, Asked
    <3> QED
      BY <1>0, <3>1 DEF Known
  <2> QED
    BY <1>13, <2>1, <2>2 DEF Known
<1>14. \A k : ~Pending(k)'
  BY <1>0 DEF Pending
<1>15. \A bytes, name : Whole(bytes, name)' <=> Whole(bytes, name)
  BY <1>0, <1>12 DEF Whole
<1>16. \A j, k : Quiet(j, k)' => Quiet(j, k)
  BY <1>10 DEF Quiet
<1>17. ASSUME NEW j \in DOMAIN files', files'[j].chunk = files[j].chunk,
              files'[j].name = files[j].name, Stored(j), files[j].chunk # id \/ UNCHANGED <<chunks, saving>>
       PROVE  Stored(j)'
  BY <1>1, <1>6, <1>15, <1>17 DEF Stored
<1>18. TableInv'
  <2>1. Asked' = next_chunkid'
    BY <1>0 DEF Asked
  <2>2. \A j \in DOMAIN files : files[j].chunk = 0 \/ files[j].chunk > FirstChunk
    BY DEF IInv, TypeOK, TableInv, Asked
  <2>3. \A j \in DOMAIN files' :
          /\ files'[j].chunk = 0 \/ files'[j].chunk \in FirstChunk + 1 .. next_chunkid'
          /\ files'[j].size = 0 => files'[j].had \subseteq {0}
    BY <1>1, <1>2, <1>3, <2>2
  <2>5. \A i, j \in DOMAIN files' :
          files'[i].chunk = files'[j].chunk /\ files'[j].chunk # 0 => i = j
    BY <1>1 DEF IInv, TableInv
  <2>6. \A j \in DOMAIN files' : files'[j].name \in Names => UploadsOf(files'[j].name) # {}
    BY <1>1, LostAssumption DEF IInv, TableInv
  <2>7. \A j \in DOMAIN files' : files'[j].name \in Names => UploadsOf(files[j].name)' # {}
    <3>1. ASSUME NEW j \in DOMAIN files', files'[j].name \in Names
          PROVE  UploadsOf(files[j].name)' # {}
      <4>1. PICK n : n = files'[j].name
        OBVIOUS
      <4>2. UploadsOf(n)' # {}
        BY <1>12, <2>6, <3>1, <4>1
      <4> QED
        BY <4>1, <4>2
    <3> QED
      BY <3>1
  <2> QED
    BY <1>0, <1>3, <2>1, <2>3, <2>5, <2>7 DEF TableInv
(* A file that nobody was busy with, and its chunk. *)
<1>19. ASSUME NEW j \in DOMAIN files', j \notin stale', files'[j].chunk \notin forgotten',
              files'[j].chunk # 0
       PROVE  /\ files'[j].chunk = files[j].chunk /\ files'[j].name = files[j].name
              /\ Quiet(j, files[j].chunk) /\ j \in DOMAIN files
  BY <1>1, <1>10, <1>19 DEF Quiet
<1>20. ChunksInv'
  <2>1. \A k \in DOMAIN chunks' : /\ k > FirstChunk /\ Known(k)'
                                  /\ chunks'[k].by \in DOMAIN uploads' \cup {0}
    <3>1. ASSUME NEW k \in DOMAIN chunks' PROVE k > FirstChunk /\ Known(k)
      BY <1>6, <1>7 DEF IInv, ChunksInv
    <3>2. \A k \in DOMAIN chunks' : chunks'[k].by \in DOMAIN uploads' \cup {0}
      BY <1>0, <1>6 DEF IInv, ChunksInv, Empty
    <3>3. \A k \in DOMAIN chunks' : Known(k)'
      BY <1>13, <3>1
    <3> QED
      BY <3>1, <3>2, <3>3
  <2>2. ASSUME saving # <<>>
        PROVE  /\ saving'[1].by \in DOMAIN uploads'
               /\ saving'[1].size = uploads'[saving'[1].by].size /\ saving'[1].size # 0
               /\ saving'[1].chunk \in DOMAIN chunks'
               /\ saving'[1].hole => saving'[1].chunk \in forgotten'
               /\ \A j \in DOMAIN files' :
                    files'[j].chunk = saving'[1].chunk /\ j \notin stale'
                      /\ files'[j].chunk \notin forgotten' =>
                      uploads'[saving'[1].by].name = files'[j].name
    <3>1. PICK by, k : by = saving[1].by /\ k = saving[1].chunk
                         /\ by = saving'[1].by /\ k = saving'[1].chunk
      BY <1>6, <2>2
    <3>2. /\ by \in DOMAIN uploads /\ saving[1].size = uploads[by].size /\ saving[1].size # 0
          /\ k \in DOMAIN chunks /\ k > FirstChunk /\ k # 0 /\ (saving[1].hole => k \in forgotten)
          /\ \A j \in DOMAIN files : files[j].chunk = k /\ Quiet(j, k)
                         => uploads[by].name = files[j].name
      BY <2>2, <3>1 DEF IInv, ChunksInv
    <3>3. saving'[1].hole => k \in forgotten'
      BY <1>6, <1>7, <1>10, <2>2, <3>1, <3>2
    <3>4. ASSUME NEW j \in DOMAIN files', files'[j].chunk = k, j \notin stale', files'[j].chunk \notin forgotten'
          PROVE  uploads[by].name = files'[j].name
      BY <1>19, <3>2, <3>4
    <3> QED
      BY <1>0, <1>6, <2>2, <3>1, <3>2, <3>3, <3>4
  <2> QED
    BY <1>6, <2>1, <2>2 DEF ChunksInv, Quiet
<1>21. BytesStayHome'
  <2>1. SUFFICES ASSUME NEW j \in DOMAIN files', j \notin stale', files'[j].chunk \notin forgotten',
                        files'[j].chunk \in DOMAIN chunks', chunks'[files'[j].chunk].by # 0
                 PROVE  uploads[chunks'[files'[j].chunk].by].name = files'[j].name
    BY <1>0 DEF BytesStayHome, Quiet
  <2>2. files'[j].chunk \in DOMAIN chunks /\ chunks'[files'[j].chunk] = chunks[files'[j].chunk]
    BY <1>6, <2>1 DEF Empty
  <2>3. files'[j].chunk # 0
    BY <2>2 DEF IInv, ChunksInv
  <2> QED
    BY <1>19, <2>1, <2>2, <2>3 DEF IInv, BytesStayHome
<1>22. \A e \in Clients : Writing(e)' => Writing(e) /\ drw'[e].upload = drw[e].upload
  BY <1>8 DEF Writing
<1>23. ASSUME NEW j \in DOMAIN files' PROVE Sized(j)'
  <2>1. SUFFICES ASSUME Once(files[j].name)', j \notin stale', files'[j].size # 0
                 PROVE  /\ files'[j].chunk \notin forgotten' => Stored(j)'
                        /\ \A u \in UploadsOf(files[j].name)' :
                             /\ files'[j].size = uploads[u].size
                             /\ files'[j].had \subseteq {0, uploads[u].size}
                             /\ \A e \in Clients : Writing(e)' => drw'[e].upload # u
    BY <1>0, <1>14 DEF Sized
  <2>2. PICK n : n = files'[j].name
    OBVIOUS
  <2>3. n = files[j].name /\ j \in DOMAIN files /\ j \notin stale
    BY <1>1, <1>10, <2>1, <2>2
  <2>4. Once(n) /\ UploadsOf(n)' = UploadsOf(n)
    BY <1>12, <2>1, <2>2
  <2>5. files[j].size # 0
    BY <1>1, <2>1, <2>3 DEF IInv, TableInv
  <2>6. /\ files[j].chunk \notin forgotten => Stored(j) /\ ~Pending(files[j].chunk)
        /\ \A u \in UploadsOf(n) :
             /\ files[j].size = uploads[u].size /\ files[j].had \subseteq {0, uploads[u].size}
             /\ \A e \in Clients : Writing(e) => drw[e].upload # u
    BY <2>3, <2>4, <2>5 DEF IInv, SizedInv, Sized
  <2>7. ASSUME files'[j].chunk \notin forgotten' PROVE Stored(j)'
    <3>1. CASE files'[j].chunk = 0
      <4>1. 0 \notin DOMAIN chunks'
        BY <1>6, <1>7 DEF IInv, ChunksInv
      <4> QED
        BY <3>1, <4>1 DEF Stored
    <3>2. CASE files'[j].chunk # 0
      BY <1>1, <1>7, <1>10, <1>17, <2>2, <2>3, <2>6, <2>7, <3>2
    <3> QED
      BY <3>1, <3>2
  <2>8. \A u \in UploadsOf(n) : files'[j].size = uploads[u].size
                            /\ files'[j].had \subseteq {0, uploads[u].size}
    BY <1>1, <2>1, <2>6
  <2>9. \A u \in UploadsOf(n), e \in Clients : Writing(e)' => drw'[e].upload # u
    BY <1>22, <2>6
  <2> QED
    BY <2>2, <2>4, <2>7, <2>8, <2>9
<1>24. SizedInv'
  BY <1>23 DEF SizedInv
<1>25. ASSUME NEW e \in Clients PROVE WriterInv(e)' /\ ReaderInv(e)'
  <2>1. PICK d, f : /\ drw[e] = d /\ drw'[e] = f
                    /\ f.pc = "hung" \/ (f.pc = d.pc /\ d.pc # "blocked")
                    /\ f.name = d.name /\ f.upload = d.upload
                    /\ f.inode = d.inode /\ f.chunk = d.chunk /\ f.size = d.size
                    /\ f.cnt = d.cnt /\ f.conn = d.conn /\ f.got = d.got
    BY <1>8
  <2>2. /\ Writing(e)' => Writing(e) /\ f.pc = d.pc
        /\ Reading(e)' => Reading(e) /\ f.pc = d.pc
    BY <2>1 DEF Writing, Reading
  <2>3. f.inode \in stale' \cup {0}
    BY <1>9, <2>1
  <2>4. InodeInv(e) /\ f.pc = d.pc => InodeInv(e)'
    BY <1>0, <2>1, <2>3 DEF InodeInv
  <2>5. ASSUME ChunkInv(e) PROVE ChunkInv(e)'
    <3>1. Known(f.chunk)' /\ f.chunk # 0 /\ f.inode # 0
      BY <1>13, <2>1, <2>5 DEF ChunkInv
    <3>2. ASSUME NEW j \in DOMAIN files', files'[j].chunk = f.chunk, j \notin stale', f.chunk \notin forgotten'
          PROVE  files'[j].name = f.name[1]
      BY <1>19, <2>1, <2>5, <3>1, <3>2 DEF ChunkInv
    <3>3. \A j \in DOMAIN files' : files'[j].chunk = f.chunk /\ Quiet(j, f.chunk)'
                                     => files'[j].name = f.name[1]
      BY <3>2 DEF Quiet
    <3> QED
      BY <2>1, <2>3, <3>1, <3>3 DEF ChunkInv
  <2>6. ASSUME ChunkInv(e), DataInv(e), f.pc = d.pc PROVE DataInv(e)'
    <3>1. f.pc # "info" => f.size # 0
      BY <2>1, <2>6 DEF DataInv
    <3>2. d.chunk = id /\ d.chunk \notin forgotten =>
            UNCHANGED <<chunks, saving>> \/ (d.conn /\ d.chunk \notin DOMAIN chunks)
      BY <1>7, <2>1, <2>6 DEF DataInv
    <3>3. ~f.conn /\ f.chunk \notin forgotten' => f.chunk \notin DOMAIN chunks'
      BY <1>6, <1>10, <2>1, <2>6, <3>2 DEF DataInv
    <3>4. f.pc \in {"data", "end"} /\ f.conn => f.chunk \in DOMAIN chunks'
      BY <1>6, <2>1, <2>6 DEF DataInv
    <3>5. f.pc = "data" /\ f.conn =>
            /\ saving' # <<>> /\ saving'[1].by = f.upload
            /\ saving'[1].in = "open" /\ saving'[1].chunk = f.chunk
      BY <1>6, <2>1, <2>6 DEF DataInv
    <3>6. ASSUME f.pc = "end", NEW j \in DOMAIN files', files'[j].chunk = f.chunk,
                 j \notin stale', f.chunk \notin forgotten', Once(files'[j].name)
          PROVE  Stored(j)'
      <4>1. /\ files'[j].chunk = files[j].chunk /\ files'[j].name = files[j].name
            /\ Quiet(j, files[j].chunk) /\ j \in DOMAIN files /\ d.pc = "end"
        BY <1>19, <2>1, <2>6, <3>6 DEF ChunkInv
      <4>2. Stored(j)
        BY <2>1, <2>6, <3>6, <4>1 DEF DataInv
      <4>3. files[j].chunk # id \/ UNCHANGED <<chunks, saving>>
        BY <1>10, <2>1, <2>6, <3>2, <3>6, <4>1 DEF DataInv
      <4> QED
        BY <1>17, <4>1, <4>2, <4>3
    <3>7. f.pc = "end" =>
            \A j \in DOMAIN files' :
              files'[j].chunk = f.chunk /\ Quiet(j, f.chunk)' /\ Once(files[j].name)' => Stored(j)'
      <4>1. \A j : Once(files[j].name)' <=> Once(files'[j].name)
        BY <1>0 DEF Once, UploadsOf
      <4> QED
        BY <3>6, <4>1 DEF Quiet
    <3>8. ~Pending(f.chunk)'
      BY <1>14
    <3> QED
      BY <2>1, <3>1, <3>3, <3>4, <3>5, <3>7, <3>8 DEF DataInv
  <2>7. WriterInv(e)'
    BY <2>1, <2>2, <2>4, <2>5, <2>6, ClientType DEF WriterInv
  <2>8. ReaderInv(e)'
    <3>1. ReaderInv(e)
      BY ClientType
    <3>2. ~Quiet(f.inode, f.chunk)' \/ f.inode = 0
      BY <2>3 DEF Quiet
    <3> QED
      BY <2>1, <2>2, <2>3, <3>1, <3>2 DEF ReaderInv, Reading
  <2> QED
    BY <2>7, <2>8
<1>26. ClientsInv'
  BY <1>22, <1>25 DEF IInv, ClientsInv
<1> QED
  BY <1>11, <1>18, <1>20, <1>21, <1>24, <1>26 DEF IInv

-----------------------------------------------------------------------------
(* The invariant holds at first. *)
LEMMA InitInv ==
  ASSUME Init
  PROVE  IInv
<1>1. /\ serUp = TRUE /\ files = <<>> /\ bound \in Bounds /\ crashes = 0
      /\ stale = {} /\ forgotten = {} /\ next_chunkid = FirstChunk
      /\ link = "none" /\ lock = "free" /\ waiting = <<>> /\ datUp = TRUE
      /\ chunks = <<>> /\ saving = <<>> /\ drw = [c \in Clients |-> Idle] /\ uploads = <<>>
  BY DEF Init
<1>2. DOMAIN files = {} /\ DOMAIN chunks = {} /\ DOMAIN uploads = {}
  BY <1>1
<1>3. Idle \in Drws
  BY DEF Idle, Drws, Places, Empty, Bytes
<1>4. bound.uploads \in Nat /\ bound.crashes \in Nat
  BY <1>1, BoundsAssumption
<1>5. TypeOK
  <2>1. drw \in [Clients -> Drws]
    BY <1>1, <1>3
  <2>2. files \in Seq(File) /\ saving \in Seq(Saves) /\ uploads \in Seq([name : Names, size : Sizes])
    BY <1>1
  <2>3. chunks \in [DOMAIN chunks -> Bytes] /\ DOMAIN chunks \subseteq Nat
    <3>1. chunks = [k \in DOMAIN chunks |-> chunks[k]]
      BY <1>1
    <3> QED
      BY <1>2, <3>1
  <2> QED
    BY <1>1, <1>4, <2>1, <2>2, <2>3 DEF TypeOK, FirstChunk
<1>6. TableInv
  BY <1>1, <1>2 DEF TableInv
<1>7. ChunksInv
  BY <1>1, <1>2 DEF ChunksInv
<1>8. BytesStayHome /\ SizedInv
  BY <1>2 DEF BytesStayHome, SizedInv
<1>9. \A c \in Clients : drw[c].pc = "idle"
  BY <1>1 DEF Idle
<1>10. ClientsInv
  BY <1>9 DEF ClientsInv, WriterInv, ReaderInv, Writing, Reading
<1> QED
  BY <1>5, <1>6, <1>7, <1>8, <1>10 DEF IInv

(* And no step breaks it. *)
LEMMA NextInv ==
  ASSUME IInv, [Next]_vars
  PROVE  IInv'
<1>1. CASE UNCHANGED vars
  <2>1. /\ UNCHANGED <<files, next_chunkid, waiting, chunks, saving, drw, uploads,
                       bound, crashes, stale, forgotten>>
        /\ UNCHANGED <<serUp, datUp, link, lock>>
    BY <1>1 DEF vars, ser, dat, life
  <2>2. serUp \in BOOLEAN /\ datUp \in BOOLEAN /\ link \in {"none", "up", "broken"}
    BY DEF IInv, TypeOK
  <2> QED
    BY <2>1, <2>2, LinkStep
<1>2. ASSUME NEW c \in Clients, Start(c)
      PROVE  IInv'
  BY <1>2, StartWriteStep, StartReadStep DEF Start
<1>3. ASSUME NEW c \in Clients, Upload(c)
      PROVE  IInv'
  BY <1>3, JudgeNameStep, CreatFileStep, WriteChunkStep, ConnectStep, SendInfoStep,
     SendDataStep, WriteChunkEndStep DEF Upload
<1>4. ASSUME NEW c \in Clients, Download(c)
      PROVE  IInv'
  BY <1>4, ReadJudgeStep, ReadChunkStep, ReadConnectStep, ReadDataStep DEF Download
<1>5. ASSUME NEW c \in Clients, Drw(c)
      PROVE  IInv'
  BY <1>3, <1>4, <1>5, DatGoneStep, CallFailsStep DEF Drw
<1>6. ASSUME NEW c \in Clients, Serve(c)
      PROVE  IInv'
  BY <1>6, RecvInfoStep, SendFileStep DEF Serve
<1>7. CASE SaveData
  BY <1>7, SaveDataStep
<1>8. CASE Creation
  BY <1>8, ChunkSentStep, CreateFileStep, LinkSteps DEF Creation
<1>9. CASE DatStart \/ SerStart \/ DatAccept \/ DatNoticed
  BY <1>9, LinkSteps
<1>10. CASE Deaths
  BY <1>10, SerCrashStep, DatCrashStep, DrwCrashStep DEF Deaths
<1> QED
  BY <1>1, <1>2, <1>5, <1>6, <1>7, <1>8, <1>9, <1>10 DEF Next

-----------------------------------------------------------------------------
(* The invariant holds in every state that any number of drw processes, ser *)
(* and its dat reach, whatever dies and restarts.                           *)
THEOREM Invariance == Spec => []IInv
  BY InitInv, NextInv, PTL DEF Spec

(* Every variable keeps its type: a drw never asks more often than RETRIES, *)
(* and save_data runs for one upload at a time.                             *)
THEOREM TypeCorrect == Spec => []TypeOK
<1>1. IInv => TypeOK
  BY DEF IInv
<1> QED
  BY <1>1, Invariance, PTL

(* drw only streams into a connection that dat is reading from. *)
THEOREM StreamsAreHeard == Spec => []DatListens
<1>1. IInv => DatListens
  <2> SUFFICES ASSUME IInv, NEW c \in Clients, drw[c].pc = "data", drw[c].conn
               PROVE  /\ saving # <<>> /\ saving[1].by = drw[c].upload
                      /\ saving[1].in = "open"
    BY DEF DatListens
  <2> QED
    BY ClientType DEF WriterInv, DataInv
<1> QED
  BY <1>1, Invariance, PTL

(* A chunk never holds bytes that were meant for a file of another name,    *)
(* however uploads overlap and die.                                         *)
THEOREM ChunksAreNotMixedUp == Spec => []BytesStayHome
<1>1. IInv => BytesStayHome
  BY DEF IInv
<1> QED
  BY <1>1, Invariance, PTL

(* The size that ser records is the size that dat has stored, or is about   *)
(* to store from what its socket holds.                                     *)
THEOREM SizesAreTrue == Spec => []SizeMeansBytes
<1>1. IInv => SizeMeansBytes
  <2> SUFFICES ASSUME IInv, NEW j \in DOMAIN files, Once(files[j].name),
                      Quiet(j, files[j].chunk), files[j].size # 0,
                      files[j].chunk \in DOMAIN chunks
               PROVE  \/ Whole(chunks[files[j].chunk], files[j].name)
                      \/ /\ saving # <<>> /\ saving[1].chunk = files[j].chunk
                         /\ saving[1].in = "sent"
    BY DEF SizeMeansBytes
  <2>1. Stored(j)
    BY DEF IInv, SizedInv, Sized, Quiet
  <2> QED
    BY <2>1 DEF Stored
<1> QED
  BY <1>1, Invariance, PTL

(* A download of a file that was uploaded once returns all its bytes. *)
THEOREM DownloadsAreWhole == Spec => []ReadsAreWhole
<1>1. IInv => ReadsAreWhole
  <2> SUFFICES ASSUME IInv, NEW c \in Clients, drw[c].pc = "rdata", Once(drw[c].name[1]),
                      Quiet(drw[c].inode, drw[c].chunk)
               PROVE  Whole(drw[c].got, drw[c].name[1])
    BY DEF ReadsAreWhole
  <2>1. ReaderInv(c) /\ Reading(c)
    BY ClientType DEF Reading
  <2> QED
    BY <2>1 DEF ReaderInv
<1> QED
  BY <1>1, Invariance, PTL

(***************************************************************************)
(* The refinement: Transfer implements Creations.                          *)
(***************************************************************************)

(* Most steps leave the creation of chunks alone. *)
LEMMA OtherTurn ==
  ASSUME \/ UNCHANGED vars
         \/ \E c \in Clients : \/ Start(c) \/ Download(c) \/ DatGone(c) \/ CallFails(c)
                               \/ Serve(c) \/ DrwCrash(c)
                               \/ JudgeName(c) \/ CreatFile(c) \/ Connect(c)
                               \/ SendInfo(c) \/ SendData(c) \/ WriteChunkEnd(c)
         \/ SaveData \/ DatStart \/ SerStart \/ DatAccept \/ DatNoticed
  PROVE  UNCHANGED <<next_chunkid, lock, waiting>>
<1>1. CASE \E c \in Clients : \/ Start(c) \/ Download(c) \/ DatGone(c) \/ CallFails(c)
                              \/ Serve(c) \/ DrwCrash(c)
  BY <1>1 DEF Start, StartWrite, StartRead, Download, ReadJudge, ReadChunk, ReadConnect,
              ReadData, DatGone, CallFails, Serve, RecvInfo, SendFile, DrwCrash, ser
<1>2. CASE \E c \in Clients : \/ JudgeName(c) \/ CreatFile(c) \/ Connect(c)
                              \/ SendInfo(c) \/ SendData(c) \/ WriteChunkEnd(c)
  BY <1>2 DEF JudgeName, CreatFile, Connect, SendInfo, SendData, WriteChunkEnd, ser
<1> QED
  BY <1>1, <1>2 DEF SaveData, DatStart, SerStart, DatAccept, DatNoticed, vars, ser

(* fs_writechunk takes an id, or asks for none. *)
LEMMA WriteChunkTurn ==
  ASSUME IInv, NEW c \in Clients, WriteChunk(c)
  PROVE  Turns!Take \/ UNCHANGED <<next_chunkid, lock, waiting>>
<1>1. waiting = <<>>
  BY DEF WriteChunk, Calls
<1>2. CASE UNCHANGED ser
  BY <1>2 DEF ser
<1>3. CASE /\ next_chunkid' = next_chunkid + 1
           /\ waiting' = <<c, drw[c].inode>>
           /\ UNCHANGED <<files, link, lock>>
  <2>1. waiting' # <<>>
    BY <1>3
  <2>2. next_chunkid \in Nat
    BY DEF IInv, TypeOK
  <2>3. Asked' = Asked
    BY <1>1, <1>3, <2>1, <2>2 DEF Asked
  <2> QED
    BY <1>1, <1>3, <2>1, <2>3 DEF Turns!Take
<1> QED
  BY <1>2, <1>3 DEF WriteChunk

(* create_new_chunk, dat and receive_thread take the request on its way. *)
LEMMA CreationTurn ==
  ASSUME Creation
  PROVE  Turns!Send \/ Turns!Create \/ Turns!Answer
<1>1. CASE ChunkSent
  BY <1>1 DEF ChunkSent, Asked, Turns!Send
<1>2. CASE CreateFile
  BY <1>2 DEF CreateFile, Turns!Create
<1>3. CASE Answered
  BY <1>3 DEF Answered, Turns!Answer
<1> QED
  BY <1>1, <1>2, <1>3 DEF Creation

(* The death of dat takes the request away, or leaves the answer in the     *)
(* socket.                                                                  *)
LEMMA DatCrashTurn ==
  ASSUME IInv, DatCrash
  PROVE  Turns!Lose \/ UNCHANGED <<next_chunkid, lock, waiting>>
<1>1. UNCHANGED <<next_chunkid, waiting>>
  BY DEF DatCrash
<1>2. \/ lock # "free" /\ lock' = "lost"
      \/ lock' = lock
  BY DEF DatCrash
<1> QED
  BY <1>1, <1>2 DEF Turns!Lose

(* Started anew, ser waits for nothing, and the ids of its files are among  *)
(* those that it had given out.                                             *)
LEMMA SerCrashTurn ==
  ASSUME IInv, SerCrash
  PROVE  Turns!Restart
<1>1. /\ lock' = "free" /\ waiting' = <<>>
      /\ files' \in Loads /\ next_chunkid' \in NextChunkid(files')
  BY DEF SerCrash
<1>2. /\ DOMAIN files' \subseteq DOMAIN files
      /\ \A j \in DOMAIN files' : files'[j].chunk \in {0, files[j].chunk}
  BY <1>1, LoadedFiles
<1>3. next_chunkid \in Nat /\ next_chunkid >= FirstChunk
  BY DEF IInv, TypeOK, TableInv
<1>4. ASSUME NEW j \in DOMAIN files, files[j].chunk # 0
      PROVE  files[j].chunk \in FirstChunk .. next_chunkid
  BY <1>3, <1>4 DEF IInv, TableInv, Asked, FirstChunk
<1>5. \/ next_chunkid' = FirstChunk
      \/ \E j \in DOMAIN files' : files'[j].chunk = next_chunkid' /\ next_chunkid' >= FirstChunk
  BY <1>1 DEF NextChunkid
<1>6. next_chunkid' \in FirstChunk .. next_chunkid
  BY <1>2, <1>3, <1>4, <1>5 DEF FirstChunk
<1> QED
  BY <1>1, <1>6 DEF Turns!Restart

(* The one field `lock' of Transfer, the id asked for and its restarts keep *)
(* the promise that all the dats, links and threads of SerDat keep:         *)
(* Transfer implements Creations.                                           *)
THEOREM ReductionIsTrue == Spec => CreationsInTurn
<1>1. Init => Turns!Init
  BY DEF Init, Turns!Init
<1>2. ASSUME IInv, [Next]_vars
      PROVE  [Turns!Next]_<<next_chunkid, waiting # <<>>, lock,
                            IF lock = "asked" THEN Asked ELSE 0>>
  <2>1. \/ Turns!Next
        \/ UNCHANGED <<next_chunkid, lock, waiting>>
    BY <1>2, OtherTurn, WriteChunkTurn, CreationTurn, DatCrashTurn, SerCrashTurn
       DEF Next, Drw, Upload, Deaths, Turns!Next
  <2> QED
    BY <2>1 DEF Asked
<1> QED
  BY <1>1, <1>2, Invariance, PTL DEF Spec, CreationsInTurn, Turns!Spec
=============================================================================
