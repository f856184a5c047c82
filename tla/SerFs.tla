------------------------------- MODULE SerFs -------------------------------
(***************************************************************************)
(* The metadata of the file server (ser/fs.c): the table of files that the *)
(* select loop updates for its clients, and the copy of it that fs_thread  *)
(* keeps in the config file and that load_fs reads back after a restart.   *)
(*                                                                         *)
(* Two threads act here.  The select loop runs the request handlers one    *)
(* after the other; fs_thread wakes up every ten seconds and saves the     *)
(* table if `change' is set.  No lock separates them, so the steps of a    *)
(* save interleave with the handlers at every access to shared state:      *)
(* opening (and emptying) the file, the count of chunks and the size of    *)
(* each file of the table, the final write of the stdio buffer, and the    *)
(* clearing of `change'.                                                   *)
(*                                                                         *)
(* Abstractions.  The image of the table fits one stdio buffer, so it      *)
(* reaches the disk in the single write(2) of fclose.  A record is as long *)
(* as its name, its chunk, its newline and, for all other columns, one     *)
(* constant make it.  Only the root directory holds files, as in           *)
(* fs.c:526, 928.                                                          *)
(***************************************************************************)
EXTENDS Naturals, Sequences

CONSTANTS
  Names,       \* the last components of the paths that clients create
  Sizes,       \* file sizes that clients report, never 0 (w_data.c:85)
  RootInode,   \* the inode number of /home/cc
  NameVal,     \* NameVal[n]: char_to_uint32 applied to "0" followed by n
  NameLen,     \* NameLen[n]: the length of n, which fits a uint8_t
  RootLen,     \* the length of the root's record
  FieldsLen,   \* that of the columns of a file's record but name and chunk
  ChunkLen,    \* that of the column of a chunk
  Junk,        \* what an uninitialised chunk_tab entry may hold
  Stray,       \* numbers in the columns of a record whose beginning is lost
  Wrap,        \* the number of values of uint8_t, 256 in the code
  MaxRecords,  \* bound: nodes in the table, and records in the config file
  MaxInode,    \* bound: largest inode number given out
  MaxChunk     \* bound: largest chunk id given out

ASSUME SizesAssumption == Sizes \subseteq Nat \ {0}
ASSUME RootAssumption == RootInode \in Nat \ {0, 1}
ASSUME NameValAssumption == NameVal \in [Names -> Nat]
ASSUME NameLenAssumption == NameLen \in [Names -> 0..(Wrap - 1)]
ASSUME LengthsAssumption == {RootLen, FieldsLen, ChunkLen} \subseteq Nat
ASSUME JunkAssumption == Junk \subseteq Nat /\ Junk # {} /\ Stray \subseteq Nat
ASSUME BoundsAssumption ==
  /\ Wrap \in Nat \ {0}
  /\ MaxRecords \in Nat
  /\ MaxInode \in Nat
  /\ MaxChunk \in Nat

VARIABLES
  up,            \* the server got through load_fs
  root,          \* the root directory is in the node table
  nodes,         \* the files, in the order of the root's child array
  inode_next,
  next_chunkid,
  change,        \* the table differs from what was last saved
  creating,      \* <<n>> while fs_creat_file has inserted n but not yet
                 \* appended its record to the config file, else <<>>
  config,        \* the config file on disk: a sequence of records
  saver,         \* where fs_thread is: "idle", "copy", "close" or "clear"
  image,         \* the records in the stdio buffer of the save
  pos,           \* the loop counter i of the save, a uint8_t
  child,         \* <<nd>>: what the save has loaded of a file so far, else <<>>
  joined         \* history: some load met several records on one line, or
                 \* one whose beginning was lost

mem == <<up, root, nodes, inode_next, next_chunkid, change, creating>>
sav == <<saver, image, pos, child>>
vars == <<up, root, nodes, inode_next, next_chunkid, change, creating,
          config, saver, image, pos, child, joined>>

(* drw only ever reads and writes the first chunk of a file. *)
indx == 0

(* The initial value of next_chunkid. *)
FirstChunk == 11

-----------------------------------------------------------------------------
(* Nodes and records *)

Node == [name : Names, inode : Nat, size : Nat, chunks : Seq(Nat)]

NewNode(n, inode) == [name |-> n, inode |-> inode, size |-> 0, chunks |-> <<>>]

(* A record of the config file describes a node, or the root directory      *)
(* (node = <<>>); nl tells whether a newline follows it, torn whether its   *)
(* beginning has been overwritten.                                          *)
Record(nd, nl) == [node |-> <<nd>>, nl |-> nl, torn |-> FALSE]
RootRecord == [node |-> <<>>, nl |-> TRUE, torn |-> FALSE]
MaybeNode == {s \in Seq(Node) : Len(s) <= 1}
RecordType == [node : MaybeNode, nl : BOOLEAN, torn : BOOLEAN]

(* The bytes of a record, and of the first n of some records. *)
RecordLen(rec) ==
  IF rec.node = <<>> THEN RootLen
  ELSE NameLen[rec.node[1].name] + FieldsLen + (IF rec.nl THEN 1 ELSE 0)
         + (IF rec.node[1].chunks = <<>> THEN 0 ELSE ChunkLen)
Bytes(recs) ==
  LET len[n \in 0..Len(recs)] == IF n = 0 THEN 0 ELSE len[n - 1] + RecordLen(recs[n])
  IN len

(* find_fsnode_by_inode: new nodes go to the head of their hash chain, so   *)
(* the node inserted last is the one found.                                 *)
IsFound(inode, j) ==
  /\ j \in DOMAIN nodes
  /\ nodes[j].inode = inode
  /\ \A k \in DOMAIN nodes : nodes[k].inode = inode => k <= j

-----------------------------------------------------------------------------
(* The handlers of the select loop.  It runs one at a time. *)

AtRest == up /\ creating = <<>>

(* fs_creat_file up to and including save_fs_node: the node is in the table *)
(* but not on disk.  Without the root directory save_fs_node fails after it *)
(* has inserted the node, and nothing is appended to the config file.       *)
CreatNode(n) ==
  LET nd == NewNode(n, inode_next + 1) IN
  /\ AtRest
  /\ inode_next < MaxInode /\ Len(nodes) < MaxRecords
  /\ Len(config) < MaxRecords
  /\ inode_next' = inode_next + 1
  /\ nodes' = Append(nodes, nd)
  /\ creating' = IF root THEN <<nd>> ELSE <<>>
  /\ UNCHANGED <<up, root, next_chunkid, change, config, sav, joined>>

(* save_file_to_config: the record is appended without a newline, or the    *)
(* write fails and the client is told that the creation failed.             *)
CreatAppend ==
  /\ up /\ creating # <<>>
  /\ creating' = <<>>
  /\ \/ config' = Append(config, Record(creating[1], FALSE))
     \/ UNCHANGED config
  /\ UNCHANGED <<up, root, nodes, inode_next, next_chunkid, change, sav, joined>>

(* add_chunkid_to_fs when create_new_chunk succeeds: a file with too few    *)
(* chunks gets a new one.                                                   *)
AddChunk(j) ==
  /\ AtRest
  /\ Len(nodes[j].chunks) < indx + 1
  /\ next_chunkid < MaxChunk
  /\ next_chunkid' = next_chunkid + 1
  /\ nodes' = [nodes EXCEPT ![j].chunks = Append(@, next_chunkid')]
  /\ change' = TRUE
  /\ UNCHANGED <<up, root, inode_next, creating, config, sav, joined>>

(* change_file_size: only a report for the last chunk sets the size. *)
ChangeSize(j, size) ==
  /\ AtRest
  /\ Len(nodes[j].chunks) = indx + 1
  /\ nodes' = [nodes EXCEPT ![j].size = size]
  /\ change' = TRUE
  /\ UNCHANGED <<up, root, inode_next, next_chunkid, creating, config, sav, joined>>

(* cc_creat_file, cc_write_chunk and cc_write_chunk_end. *)
Creat == \E n \in Names : CreatNode(n)
WriteChunk == \E inode \in 2..MaxInode, j \in DOMAIN nodes :
                IsFound(inode, j) /\ AddChunk(j)
WriteChunkEnd == \E inode \in 2..MaxInode, j \in DOMAIN nodes, size \in Sizes :
                   IsFound(inode, j) /\ ChangeSize(j, size)

-----------------------------------------------------------------------------
(* fs_thread: save_fs_config_to_local *)

(* fopen "w" empties the file; the root's record goes to the buffer.  With  *)
(* no file in the table the function returns here and leaks the stream.     *)
SaveOpen ==
  /\ up /\ saver = "idle" /\ change /\ root
  /\ config' = <<>>
  /\ IF nodes = <<>>
     THEN UNCHANGED sav
     ELSE saver' = "copy" /\ image' = <<RootRecord>> /\ pos' = 0 /\ child' = <<>>
  /\ UNCHANGED <<mem, joined>>

(* The sprintf of a turn of the loop over the child array, whose length is  *)
(* read anew, loads a file's count of chunks and its size one after the     *)
(* other.  With no order among arguments either may come first.             *)
SaveLoad ==
  /\ saver = "copy" /\ child = <<>> /\ pos < Len(nodes)
  /\ Len(image) <= MaxRecords
  /\ child' = <<nodes[pos + 1]>>
  /\ UNCHANGED <<mem, config, saver, image, pos, joined>>

(* The record out of the earlier load and the later one.                    *)
Copies(was, now) == {[was EXCEPT !.size = now.size], [was EXCEPT !.chunks = now.chunks]}

(* Fault: the counter takes the value Wrap. *)
SaveChildNoWrap ==
  /\ saver = "copy" /\ child # <<>>
  /\ \E nd \in Copies(child[1], nodes[pos + 1]) : image' = Append(image, Record(nd, TRUE))
  /\ pos' = pos + 1
  /\ child' = <<>>
  /\ UNCHANGED <<mem, config, saver, joined>>

(* The end of the turn.  A chunk_tab that has got its first chunk after the *)
(* count was loaded adds a column that load_config does not look at.        *)
SaveChild ==
  /\ saver = "copy" /\ child # <<>>
  /\ \E nd \in Copies(child[1], nodes[pos + 1]) : image' = Append(image, Record(nd, TRUE))
  /\ pos' = (pos + 1) % Wrap
  /\ child' = <<>>
  /\ UNCHANGED <<mem, config, saver, joined>>

(* Fault: the loop ends before the last file. *)
SaveLeaveLoopEarly ==
  /\ saver = "copy" /\ child = <<>> /\ pos + 1 >= Len(nodes)
  /\ saver' = "close"
  /\ UNCHANGED <<mem, config, image, pos, child, joined>>

(* Fault: the loop waits for the counter to pass the end. *)
SaveLeaveLoopLate ==
  /\ saver = "copy" /\ child = <<>> /\ pos > Len(nodes)
  /\ saver' = "close"
  /\ UNCHANGED <<mem, config, image, pos, child, joined>>

(* The loop's exit. *)
SaveLeaveLoop ==
  /\ saver = "copy" /\ child = <<>> /\ pos >= Len(nodes)
  /\ saver' = "close"
  /\ UNCHANGED <<mem, config, image, pos, child, joined>>

(* The first k records of c lie in the first bytes of the file, as many as  *)
(* `over' has, and the next one does not.                                   *)
AreCovered(k, over, c) ==
  /\ Bytes(c)[k] <= Bytes(over)[Len(over)]
  /\ k < Len(c) => Bytes(c)[k + 1] > Bytes(over)[Len(over)]

(* Fault: the buffer is appended to the file. *)
WriteAfter(over, c, k) == c \o over

(* What a write of `over' at the start of file c leaves in the file when it *)
(* covers k records: the next one may have lost its beginning.              *)
WriteOver(over, c, k) ==
  over \o [j \in 1..(Len(c) - k) |->
             [c[k + j] EXCEPT !.torn = j = 1 /\ Bytes(c)[k] < Bytes(over)[Len(over)]]]

(* Fault: the stream is not closed. *)
SaveNoClose ==
  /\ saver = "close"
  /\ saver' = "clear" /\ image' = <<>> /\ pos' = 0 /\ child' = <<>>
  /\ UNCHANGED <<mem, config, joined>>

(* fclose writes the buffer, over whatever was appended since fopen. *)
SaveClose ==
  /\ saver = "close"
  /\ \E k \in 0..Len(config) : /\ AreCovered(k, image, config)
                               /\ config' = WriteOver(image, config, k)
  /\ saver' = "clear" /\ image' = <<>> /\ pos' = 0 /\ child' = <<>>
  /\ UNCHANGED <<mem, joined>>

SaveClear ==
  /\ saver = "clear"
  /\ saver' = "idle"
  /\ change' = FALSE
  /\ UNCHANGED <<up, root, nodes, inode_next, next_chunkid, creating, config,
                 image, pos, child, joined>>

-----------------------------------------------------------------------------
(* A crash and the restart: load_fs *)

(* The lines of the config file: records that lack their newline are all at *)
(* its end and make up one line.                                            *)
Lines(c) == {j \in DOMAIN c : j = 1 \/ c[j - 1].nl}
IsJoined(c, j) == j < Len(c) /\ ~c[j].nl

HasRoot(c) == c # <<>> /\ c[1].node = <<>>

(* What load_config makes of the line that starts at record j.  The count   *)
(* of chunks is the fifth column, and every turn of the inner loop reads    *)
(* the sixth, so only chunk_tab[0] is set.  On a line of several records    *)
(* the fifth column is "0" followed by the next record's name, and the      *)
(* sixth is the next record's inode number.                                 *)
LoadChunks(c, j, junk) ==
  IF IsJoined(c, j)
  THEN LET next == c[j + 1].node[1]
       IN [k \in 1..NameVal[next.name] |-> IF k = 1 THEN next.inode ELSE junk]
  ELSE LET nd == c[j].node[1]
       IN [k \in 1..Len(nd.chunks) |-> IF k = 1 THEN nd.chunks[1] ELSE junk]

(* A line that begins in the middle of a record is loaded as a file whose   *)
(* name is what the first column has left, and whose inode number is its    *)
(* own or the number in a column further right; in the latter case the      *)
(* column of the type does not hold a file's, and the file gets no chunk.   *)
Remains(c, j, junk) ==
  [name : Names, inode : {c[j].node[1].inode} \cup Stray, size : {0},
   chunks : {<<>>, LoadChunks(c, j, junk)}]
IsTorn(c) == \E j \in DOMAIN c : c[j].torn
Rests(c, junk) ==
  IF IsTorn(c) THEN UNION {Remains(c, j, junk) : j \in {k \in DOMAIN c : c[k].torn}}
  ELSE {<<>>}

LoadLine(c, j, junk, rest) ==
  IF c[j].torn THEN rest
  ELSE [c[j].node[1] EXCEPT !.chunks = LoadChunks(c, j, junk)]

(* The files after a load of m lines.  Without the root's record they are   *)
(* all in the node table, but in no directory.                              *)
Loaded(c, m, junk, rest) ==
  IF HasRoot(c)
  THEN [k \in 1..(m - 1) |-> LoadLine(c, k + 1, junk, rest)]
  ELSE [k \in 1..m |-> LoadLine(c, k, junk, rest)]

MaxOf(m, S) == m \in S /\ \A x \in S : x <= m

(* Fault: load_config does not raise inode_next, or next_chunkid. *)
NoInodes(ns) == {}
NoChunks(ns) == {}

(* The numbers that load_config raises inode_next and next_chunkid to. *)
Inodes(ns) == {ns[j].inode : j \in DOMAIN ns}
FirstChunks(ns) == {ns[j].chunks[1] : j \in {k \in DOMAIN ns : ns[k].chunks # <<>>}}

(* save_fs_node copies the chunks with a uint8_t counter: a count it cannot *)
(* reach keeps the server in load_fs.                                       *)
LoadEnds(ns) == \A j \in DOMAIN ns : Len(ns[j].chunks) < Wrap

(* m lines are loaded.  A line whose beginning is lost may raise            *)
(* next_chunkid without giving its file a chunk.                            *)
Load(m, junk, rest, low) ==
  LET loaded == Loaded(config, m, junk, rest) IN
  /\ up' = LoadEnds(loaded)
  /\ root' = HasRoot(config)
  /\ nodes' = loaded
  /\ \E n \in 0..MaxInode : MaxOf(n, {RootInode} \cup Inodes(loaded)) /\ inode_next' = n
  /\ \E n \in 0..(MaxInode + MaxChunk) :
       MaxOf(n, {FirstChunk, low} \cup FirstChunks(loaded)) /\ next_chunkid' = n
  /\ joined' = (joined \/ IsTorn(config) \/ \E j \in Lines(config) : IsJoined(config, j))
  /\ change' = FALSE
  /\ creating' = <<>>
  /\ saver' = "idle" /\ image' = <<>> /\ pos' = 0 /\ child' = <<>>
  /\ UNCHANGED config

Restart ==
  \E m \in 0..Len(config), junk \in Junk :
    /\ Lines(config) = 1..m
    /\ \E rest \in Rests(config, junk),
          low \in IF IsTorn(config) THEN {FirstChunk} \cup Stray ELSE {FirstChunk} :
         Load(m, junk, rest, low)

-----------------------------------------------------------------------------
(* A server that was started on a config file holding the root only. *)
Init ==
  /\ up = TRUE /\ root = TRUE
  /\ nodes = <<>>
  /\ inode_next = RootInode
  /\ next_chunkid = FirstChunk
  /\ change = FALSE
  /\ creating = <<>>
  /\ config = <<RootRecord>>
  /\ saver = "idle" /\ image = <<>> /\ pos = 0 /\ child = <<>>
  /\ joined = FALSE

Handler == Creat \/ CreatAppend \/ WriteChunk \/ WriteChunkEnd
Save == SaveOpen \/ SaveLoad \/ SaveChild \/ SaveLeaveLoop \/ SaveClose \/ SaveClear

Next == Handler \/ Save \/ Restart

Spec == Init /\ [][Next]_vars

(* A handler finishes once it has begun, and fs_thread gets the processor   *)
(* again and again; clients ask or do not.                                  *)
Fairness == WF_vars(CreatAppend) /\ WF_vars(Save)

FairSpec == Spec /\ Fairness

(* A server that is not interrupted. *)
Uninterrupted == Init /\ [][Handler \/ Save]_vars /\ Fairness

-----------------------------------------------------------------------------
TypeOK ==
  /\ up \in BOOLEAN /\ root \in BOOLEAN
  /\ nodes \in Seq(Node)
  /\ inode_next \in Nat
  /\ next_chunkid \in Nat
  /\ change \in BOOLEAN
  /\ creating \in MaybeNode
  /\ config \in Seq(RecordType)
  /\ saver \in {"idle", "copy", "close", "clear"}
  /\ image \in Seq(RecordType)
  /\ pos \in 0..(Wrap - 1)
  /\ child \in MaybeNode
  /\ joined \in BOOLEAN

FilesIn(recs) == {recs[j].node[1] : j \in {k \in DOMAIN recs : recs[k].node # <<>>}}
InTable == {nodes[j] : j \in DOMAIN nodes}
Loading == {child[k] : k \in DOMAIN child}
Everywhere == InTable \cup Loading \cup FilesIn(config) \cup FilesIn(image)

(* Two files never share a chunk, or writing the one would change the       *)
(* other: not after a restart either, although next_chunkid is nowhere      *)
(* saved and fs_thread copies the table while it changes.  The loads that   *)
(* make chunk ids out of the text of a neighbouring record, or a file out   *)
(* of the rest of one, are excepted.                                        *)
ChunksDisjoint ==
  ~joined => \A j, k \in DOMAIN nodes : j # k =>
               \A a \in DOMAIN nodes[j].chunks, b \in DOMAIN nodes[k].chunks :
                 nodes[j].chunks[a] # nodes[k].chunks[b]

(* A complete record on disk is never ahead of the table and never belongs  *)
(* to another file: it is that of the file at its place in the root's child *)
(* array, with no chunk or with the chunk the file has now.                 *)
IsOlder(nd, j) ==
  /\ j \in DOMAIN nodes
  /\ nd.name = nodes[j].name /\ nd.inode = nodes[j].inode
  /\ nd.chunks = <<>> \/ nd.chunks = nodes[j].chunks
Mirrors(rec, j) == rec.node # <<>> /\ IsOlder(rec.node[1], j)
DiskBehindTable ==
  ~joined => \A j \in DOMAIN config :
               config[j].nl /\ j > 1 => Mirrors(config[j], j - 1)

(* An id that a handler gives out occurs nowhere: not in the table, and not *)
(* in a copy of it that a restart may still bring back.                     *)
FreshIds ==
  [][~joined /\ ~joined' =>
       /\ next_chunkid' > next_chunkid =>
            \A nd \in Everywhere : \A k \in DOMAIN nd.chunks : nd.chunks[k] # next_chunkid'
       /\ inode_next' > inode_next =>
            \A nd \in Everywhere : nd.inode # inode_next']_vars

(* The table as a promise to the files: ChunkOwners, with the files' inode  *)
(* numbers and chunks read off the table.                                   *)
Owns == UNION {{<<nodes[j].inode, nodes[j].chunks[k]>> : k \in DOMAIN nodes[j].chunks} :
                 j \in DOMAIN nodes}
Owners == INSTANCE ChunkOwners WITH
            Files <- 2..MaxInode, Chunks <- FirstChunk..MaxChunk,
            owns <- Owns, broken <- joined
KeepsOwners == Owners!Spec

(* The root's record, and with it every file, is only lost by a crash that  *)
(* meets a save between its fopen and its fclose (fs.c:900), whatever is    *)
(* appended meanwhile.                                                      *)
RootIsSaved == [][root /\ ~root' => saver \in {"copy", "close"}]_vars

(* Clients keep inode numbers while the server is down.  Whatever the crash *)
(* left of the config file, of a save and of a creation that is on disk     *)
(* twice, an inode number finds nothing after the restart that it did not   *)
(* find before: the same file, with the same chunk or none.                 *)
RestartFindsOlder ==
  [][~joined' /\ Restart =>
       \A n \in 2..MaxInode, j \in DOMAIN nodes' :
         IsFound(n, j)' =>
           \E i \in DOMAIN nodes :
             /\ IsFound(n, i)
             /\ nodes'[j].name = nodes[i].name
             /\ nodes'[j].chunks = <<>> \/ nodes'[j].chunks = nodes[i].chunks]_vars

(* A chunk given to a file while no save is under way is on disk after the  *)
(* next save, whatever the clients do meanwhile, unless a crash comes first *)
(* or the directory outgrows the loop's uint8_t counter.  Loads of joined   *)
(* or torn records, and a server that has lost its root, are excepted.      *)
HasChunk(S, n) == \E nd \in S : nd.inode = n /\ Len(nd.chunks) = 1
QuietChangeIsSaved ==
  \A n \in (RootInode + 1)..MaxInode :
    ~joined /\ root /\ saver = "idle" /\ change /\ HasChunk(InTable, n)
    ~> (\/ HasChunk(FilesIn(config), n) \/ ~HasChunk(InTable, n)
        \/ joined \/ Len(nodes) >= Wrap)

(* A save ends unless the directory outgrows the loop's uint8_t counter. *)
SaveEnds == saver # "idle" ~> (saver = "idle" \/ Len(nodes) >= Wrap)

(* ser.c:67: the configuration is saved when it has changed. *)
ChangeIsSaved ==
  \A n \in (RootInode + 1)..MaxInode, c \in (FirstChunk + 1)..MaxChunk :
    (\E nd \in InTable : nd.inode = n /\ nd.chunks = <<c>>)
    ~> (\E nd \in FilesIn(config) : nd.inode = n /\ nd.chunks = <<c>>)

(* `bug', lines 11 to 18: the config file has one record per line. *)
OneRecordPerLine == \A j \in Lines(config) : ~IsJoined(config, j)

-----------------------------------------------------------------------------
(* The inductive invariant behind the safety properties. *)

(* The config file: complete records, of which the first is the root's,     *)
(* then records without their newline, of files that were new.              *)
ConfigShape ==
  /\ \A j, k \in DOMAIN config : j < k /\ config[k].nl => config[j].nl
  /\ \A j \in DOMAIN config :
       /\ j > 1 \/ ~config[j].nl => config[j].node # <<>>
       /\ j = 1 /\ config[j].nl => root /\ config[j].node = <<>>
       /\ ~config[j].nl => config[j].node[1].chunks = <<>>
       /\ config[j].torn => ~config[j].nl

ImageShape ==
  /\ saver # "idle" => root
  /\ saver \in {"copy", "close"} => image # <<>>
  /\ saver \in {"idle", "clear"} => image = <<>>
  /\ saver \in {"copy", "close"} => \A j \in DOMAIN config : ~config[j].nl
  /\ \A j \in DOMAIN image : /\ image[j].nl /\ ~image[j].torn
                             /\ image[j].node = <<>> <=> j = 1

(* The image follows the table place by place, unless the loop counter has  *)
(* wrapped; then the directory is too large for the loop to end.            *)
ImageMirrors ==
  /\ child # <<>> => saver = "copy" /\ pos < Len(nodes)
  /\ ~joined /\ child # <<>> => IsOlder(child[1], pos + 1)
  /\ saver = "copy" => /\ Len(image) >= pos + 1
                       /\ Len(image) # pos + 1 => Len(nodes) >= Wrap
  /\ ~joined /\ (saver = "close" \/ (saver = "copy" /\ Len(image) = pos + 1)) =>
       \A j \in DOMAIN image : j > 1 => Mirrors(image[j], j - 1)

CreatingShape ==
  creating # <<>> => /\ root
                     /\ creating[1].chunks = <<>>
                     /\ creating[1].inode <= inode_next

(* The counters are at least every id in the table and in its copies. *)
IdsBounded ==
  /\ RootInode <= inode_next /\ FirstChunk <= next_chunkid
  /\ ~joined => \A nd \in Everywhere :
                  /\ nd.inode <= inode_next
                  /\ Len(nd.chunks) <= 1
                  /\ nd.chunks # <<>> => nd.chunks[1] <= next_chunkid

TableInv == /\ TypeOK /\ ConfigShape /\ ImageShape /\ ImageMirrors /\ CreatingShape
            /\ IdsBounded /\ ChunksDisjoint /\ DiskBehindTable

(* A creation whose record is appended after a save has written it is on    *)
(* disk twice, and after a restart in the table.                            *)
Twins(j, k) == j < k /\ nodes[j].inode = nodes[k].inode
HasNode(nd) == \E j \in DOMAIN nodes : nodes[j].name = nd.name /\ nodes[j].inode = nd.inode

(* Nodes and records with the same inode number are of the same file; every *)
(* record is of a node; and the record of a node that is not the last of    *)
(* its file is not the last record of it.                                   *)
TwinNames == \A j, k \in DOMAIN nodes : Twins(j, k) => nodes[j].name = nodes[k].name
RecordsKnown == /\ \A nd \in FilesIn(config) : HasNode(nd)
                /\ creating # <<>> => HasNode(creating[1])
TwinRecords ==
  \A j, k \in DOMAIN nodes :
    Twins(j, k) /\ j + 1 \in DOMAIN config /\ config[j + 1].nl =>
      \E q \in DOMAIN config : /\ q > j + 1 /\ config[q].node # <<>>
                               /\ config[q].node[1].inode = nodes[j].inode
TwinImages ==
  saver = "close" => \A j, k \in DOMAIN nodes :
                       Twins(j, k) /\ j + 1 \in DOMAIN image => k + 1 \in DOMAIN image

TwinsInv == ~joined => TwinNames /\ RecordsKnown /\ TwinRecords /\ TwinImages

IInv == TableInv /\ TwinsInv
=============================================================================
