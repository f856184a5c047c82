------------------------------ MODULE Transfer ------------------------------
(***************************************************************************)
(* Uploads and downloads: drw processes (drw/w_data.c, drw/r_data.c) that  *)
(* ask the metadata server where a file is (ser/con_cli.c, ser/fs.c) and   *)
(* move its bytes to and from the data server (dat/con_cli.c, rw_data.c),  *)
(* which creates chunk files on the metadata server's request meanwhile.   *)
(*                                                                         *)
(* A request of drw to ser is one step: the handlers of ser run one after  *)
(* the other, and a drw that is lost between request and reply is a drw    *)
(* that dies after the step.  The creation of a chunk is the protocol of   *)
(* SerDat with one data server, reduced to where the request is (`lock').  *)
(* When the metadata server dies, it comes back with older records of its  *)
(* files, as SerFs shows; loads of joined and torn records and the loss of *)
(* the root's record are left to SerFs.  The calls that are under way then *)
(* do not return, but for a last call that was executed: whether its       *)
(* answer comes makes no difference to anybody else.                       *)
(*                                                                         *)
(* A file is known by its place in the table.  Bytes are a record of the   *)
(* upload they come from and of their number.                              *)
(***************************************************************************)
EXTENDS Naturals, Sequences, FiniteSets

CONSTANTS
  Clients,     \* drw processes
  Names,       \* the last components of the paths
  Sizes,       \* the sizes of local files
  Lost,        \* the name of a file that a restart has forgotten
  Bounds       \* bounds, one of which holds in a behaviour: the number of
               \* uploads and the sizes they have, of clients that read at
               \* a time, of deaths of ser, and of "drw" and "dat" those
               \* that may die

ASSUME SizesAssumption == Sizes \subseteq Nat
ASSUME LostAssumption == Lost \notin Names
ASSUME BoundsAssumption ==
  Bounds \subseteq [uploads : Nat, sizes : SUBSET Sizes, readers : Nat,
                    crashes : Nat, mortal : SUBSET {"drw", "dat"}]

VARIABLES
  (* ser *)
  serUp,
  files,         \* the table: name, chunk (0: none) and size of each file,
                 \* and the sizes it has had, which the disk may have
  next_chunkid,
  link,          \* ser's view of dat: "none", "up", or "broken": dead, but
                 \* not yet marked KILL and removed from the list
  lock,          \* sock_lock and the request it is held for: "free", "asked",
                 \* "answering", or "lost" with the dat that had it
  waiting,       \* <<client, inode>> while the select loop waits for the lock
  (* dat *)
  datUp,
  chunks,        \* the chunk files: a function from chunk ids to bytes
  saving,        \* <<[by, chunk, size, in, hole]>> while save_data runs: what
                 \* is to come, whether it is "open", all "sent", or at "eof",
                 \* and whether create_file has emptied the file meanwhile
  (* drw *)
  drw,           \* each client's place in its command and its variables
  (* history *)
  uploads,       \* name and size of every upload started
  bound,         \* fixed: the bounds of this behaviour
  crashes,       \* deaths of ser
  stale,         \* files that a client was busy with when ser died
  forgotten      \* chunks that ser gave out, and does not know any more

ser == <<files, next_chunkid, link, lock, waiting>>
dat == <<datUp, chunks, saving>>
life == <<serUp, bound, crashes, stale, forgotten>>
vars == <<serUp, files, next_chunkid, link, lock, waiting, datUp, chunks, saving, drw,
          uploads, bound, crashes, stale, forgotten>>

RETRIES == 3
FirstChunk == 11

Empty == [by |-> 0, len |-> 0]
Garbage(n) == [by |-> 0, len |-> n]
NoFile == [name |-> Lost, chunk |-> 0, size |-> 0, had |-> {0}]
IsFile(j) == j \in DOMAIN files /\ files[j] # NoFile

(* A client's variables; `conn': rw_sock leads to the present dat. *)
Idle == [pc |-> "idle", name |-> <<>>, upload |-> 0, inode |-> 0, chunk |-> 0,
         size |-> 0, cnt |-> 0, conn |-> FALSE, got |-> Empty]

Goto(c, pc) == drw' = [drw EXCEPT ![c].pc = pc]
End(c) == drw' = [drw EXCEPT ![c] = Idle]

(* Fault: the turns are not limited. *)
RetryForEver(c, pc) == Goto(c, pc)

(* The end of a turn of the retry loops of write_data and read_data. *)
Retry(c, pc) == IF drw[c].cnt >= RETRIES THEN End(c) ELSE Goto(c, pc)

(* A handler of ser runs for c, which is about to make the request `pc'. *)
Calls(c, pc) == drw[c].pc = pc /\ serUp /\ waiting = <<>>

(* fs_look_name: the first child with that name. *)
Finds(name, j) == /\ j \in DOMAIN files /\ files[j].name = name
                  /\ \A k \in DOMAIN files : files[k].name = name => j <= k
Exists(name) == \E j \in DOMAIN files : files[j].name = name

-----------------------------------------------------------------------------
(* write_data *)

StartWrite(c) ==
  /\ drw[c].pc = "idle" /\ Len(uploads) < bound.uploads
  /\ \E name \in Names, size \in bound.sizes :
       /\ uploads' = Append(uploads, [name |-> name, size |-> size])
       /\ drw' = [drw EXCEPT ![c] = [Idle EXCEPT !.pc = "judge", !.name = <<name>>,
                                       !.upload = Len(uploads'), !.size = size]]
  /\ UNCHANGED <<ser, dat, life>>

(* fs_judge_name, cc_judge_name *)
JudgeName(c) ==
  /\ Calls(c, "judge")
  /\ \/ \E j \in DOMAIN files :
          /\ Finds(drw[c].name[1], j)
          /\ drw' = [drw EXCEPT ![c].inode = j, ![c].pc = "chunk"]
     \/ ~Exists(drw[c].name[1]) /\ Goto(c, "creat")
  /\ UNCHANGED <<ser, dat, uploads, life>>

(* fs_creat_file, cc_creat_file.  When the record cannot be appended to the *)
(* config file the node stays, but the client goes on with inode 0.         *)
CreatFile(c) ==
  /\ Calls(c, "creat")
  /\ files' = Append(files, [NoFile EXCEPT !.name = drw[c].name[1]])
  /\ \E inode \in {0, Len(files')} :
       drw' = [drw EXCEPT ![c].inode = inode, ![c].pc = "chunk"]
  /\ UNCHANGED <<next_chunkid, link, lock, waiting, dat, uploads, life>>


(* A turn of the loops of write_data and read_data begins: the turn is      *)
(* counted and the socket of the turn before is closed.                     *)
Turn(c) == [drw EXCEPT ![c].cnt = @ + 1, ![c].conn = FALSE]

(* A turn in which ser has given no chunk. *)
NoChunk(c) == IF Turn(c)[c].cnt >= RETRIES THEN End(c) ELSE drw' = Turn(c)

(* fs_writechunk, cc_write_chunk, add_chunkid_to_fs.  The reply to a        *)
(* request that succeeds always names the same address.                     *)
WriteChunk(c) ==
  /\ Calls(c, "chunk")
  /\ LET inode == drw[c].inode
     IN \/ ~IsFile(inode) /\ NoChunk(c) /\ UNCHANGED ser
        \/ /\ IsFile(inode) /\ files[inode].chunk # 0
           /\ drw' = [Turn(c) EXCEPT ![c].chunk = files[inode].chunk, ![c].pc = "connect"]
           /\ UNCHANGED ser
        \/ /\ IsFile(inode) /\ files[inode].chunk = 0 /\ link = "none"
           /\ NoChunk(c)
           /\ UNCHANGED ser
        \/ /\ IsFile(inode) /\ files[inode].chunk = 0 /\ link # "none"
           /\ next_chunkid' = next_chunkid + 1
           /\ waiting' = <<c, inode>>
           /\ drw' = [Turn(c) EXCEPT ![c].pc = "blocked"]
           /\ UNCHANGED <<files, link, lock>>
  /\ UNCHANGED <<dat, uploads, life>>

(* create_new_chunk gets sock_lock, at once or after the answer before, and *)
(* add_chunkid_to_fs puts the id into the table, whoever still listens.     *)
ChunkSent ==
  /\ waiting # <<>> /\ lock = "free"
  /\ lock' = IF link = "up" THEN "asked" ELSE "lost"
  /\ files' = [files EXCEPT ![waiting[2]].chunk = next_chunkid]
  /\ drw' = [c \in Clients |->
              IF c = waiting[1] /\ drw[c].pc = "blocked"
              THEN [drw[c] EXCEPT !.chunk = next_chunkid, !.pc = "connect"] ELSE drw[c]]
  /\ waiting' = <<>>
  /\ UNCHANGED <<next_chunkid, link, dat, uploads, life>>

(* tcpnumconnect; turns are not counted any further.  A connection made in  *)
(* the last turn is not used: write_data returns 0 as if it had written.    *)
Connect(c) ==
  /\ drw[c].pc = "connect"
  /\ \/ /\ datUp /\ drw[c].cnt < RETRIES
        /\ drw' = [drw EXCEPT ![c].conn = TRUE, ![c].cnt = 0, ![c].pc = "info"]
     \/ datUp /\ drw[c].cnt >= RETRIES /\ End(c)
     \/ ~datUp /\ Retry(c, "chunk")
  /\ UNCHANGED <<ser, dat, uploads, life>>

(* direct_writeblock up to its request to dat; an empty file ends it. *)
SendInfo(c) ==
  /\ drw[c].pc = "info"
  /\ IF drw[c].size = 0 THEN End(c) ELSE Goto(c, "wait")
  /\ UNCHANGED <<ser, dat, uploads, life>>

(* The rest of direct_writeblock, once dat has said it is ready.  If dat is *)
(* gone the bytes may still enter the socket, or the write fails.           *)
SendData(c) ==
  /\ drw[c].pc = "data"
  /\ \/ /\ Goto(c, "end")
        /\ saving' = IF drw[c].conn THEN <<[saving[1] EXCEPT !.in = "sent"]>> ELSE saving
     \/ ~drw[c].conn /\ End(c) /\ UNCHANGED saving
  /\ UNCHANGED <<ser, datUp, chunks, uploads, life>>

(* fs_writechunk_end, change_file_size *)
WriteChunkEnd(c) ==
  /\ Calls(c, "end")
  /\ LET j == drw[c].inode
     IN files' = IF IsFile(j) /\ files[j].chunk # 0
                 THEN [files EXCEPT ![j].size = drw[c].size, ![j].had = @ \cup {drw[c].size}]
                 ELSE files
  /\ End(c)
  /\ UNCHANGED <<next_chunkid, link, lock, waiting, dat, uploads, life>>

-----------------------------------------------------------------------------
(* read_data *)

Reading(c) == drw[c].pc \in {"rjudge", "rchunk", "rconnect", "rwait", "rdata"}

StartRead(c) ==
  /\ drw[c].pc = "idle" /\ Cardinality({d \in Clients : Reading(d)}) < bound.readers
  /\ \E name \in Names :
       drw' = [drw EXCEPT ![c] = [Idle EXCEPT !.pc = "rjudge", !.name = <<name>>]]
  /\ UNCHANGED <<ser, dat, uploads, life>>

ReadJudge(c) ==
  /\ Calls(c, "rjudge")
  /\ \/ \E j \in DOMAIN files : /\ Finds(drw[c].name[1], j)
                                /\ drw' = [drw EXCEPT ![c].inode = j, ![c].pc = "rchunk"]
     \/ ~Exists(drw[c].name[1]) /\ End(c)
  /\ UNCHANGED <<ser, dat, uploads, life>>

(* fs_readchunk, cc_fuse_read_chunk *)
ReadChunk(c) ==
  /\ Calls(c, "rchunk")
  /\ LET j == drw[c].inode
     IN IF ~IsFile(j) \/ files[j].size = 0 \/ files[j].chunk = 0
        THEN NoChunk(c)
        ELSE drw' = [Turn(c) EXCEPT ![c].chunk = files[j].chunk, ![c].size = files[j].size,
                                    ![c].pc = "rconnect"]
  /\ UNCHANGED <<ser, dat, uploads, life>>

ReadConnect(c) ==
  /\ drw[c].pc = "rconnect"
  /\ \/ /\ datUp /\ drw[c].cnt < RETRIES
        /\ drw' = [drw EXCEPT ![c].conn = TRUE, ![c].cnt = 0, ![c].pc = "rwait"]
     \/ datUp /\ drw[c].cnt >= RETRIES /\ End(c)
     \/ ~datUp /\ Retry(c, "rchunk")
  /\ UNCHANGED <<ser, dat, uploads, life>>

(* The loop of direct_readblock: the user gets the file.  At the end of     *)
(* file the loop goes on for ever.                                          *)
ReadData(c) ==
  /\ drw[c].pc = "rdata"
  /\ End(c) \/ (~drw[c].conn /\ Goto(c, "spin"))
  /\ UNCHANGED <<ser, dat, uploads, life>>

-----------------------------------------------------------------------------
(* dat: its select loop, which does one thing at a time *)

(* cc_recv_data: without the chunk file drw is told so, and write_data ends *)
(* as if it had written; with it, save_data empties the file and waits.     *)
RecvInfo(c) ==
  /\ datUp /\ saving = <<>>
  /\ drw[c].pc = "wait" /\ drw[c].conn
  /\ \/ /\ drw[c].chunk \notin DOMAIN chunks
        /\ End(c)
        /\ UNCHANGED <<chunks, saving>>
     \/ /\ drw[c].chunk \in DOMAIN chunks
        /\ chunks' = [chunks EXCEPT ![drw[c].chunk] = Empty]
        /\ saving' = <<[by |-> drw[c].upload, chunk |-> drw[c].chunk,
                        size |-> drw[c].size, in |-> "open", hole |-> FALSE]>>
        /\ Goto(c, "data")
  /\ UNCHANGED <<ser, datUp, uploads, life>>

(* Fault: save_data does not wait for all bytes. *)
SaveDataShort ==
  /\ datUp /\ saving # <<>> /\ saving[1].in # "open"
  /\ \E n \in 0..saving[1].size :
       chunks' = [chunks EXCEPT ![saving[1].chunk] =
                    IF n = 0 THEN Empty ELSE [by |-> saving[1].by, len |-> n]]
  /\ saving' = <<>>
  /\ UNCHANGED <<ser, datUp, drw, uploads, life>>

(* Fault: save_data returns when there is nothing to read yet. *)
SaveDataImpatient ==
  /\ datUp /\ saving # <<>>
  /\ saving' = <<>>
  /\ UNCHANGED <<ser, datUp, chunks, drw, uploads, life>>

(* Fault: the end of file is not noticed. *)
SaveDataNoEof ==
  /\ datUp /\ saving # <<>> /\ saving[1].in = "sent"
  /\ chunks' = [chunks EXCEPT ![saving[1].chunk] =
                  [by |-> saving[1].by, len |-> saving[1].size]]
  /\ saving' = <<>>
  /\ UNCHANGED <<ser, datUp, drw, uploads, life>>

(* save_data returns: with all bytes, or with those that came before the    *)
(* end of file.  A read that fails instead, since drw died and left bytes   *)
(* unread, is taken for a very long one (read_size is unsigned): if dat     *)
(* does not die of it, the chunk file ends with what was not sent.          *)
SaveData ==
  /\ datUp /\ saving # <<>> /\ saving[1].in # "open"
  /\ \E n \in 0..saving[1].size, fails \in BOOLEAN :
       /\ saving[1].in = "sent" <=> n = saving[1].size
       /\ fails => saving[1].in = "eof"
       /\ chunks' = [chunks EXCEPT ![saving[1].chunk] =
                       CASE n = 0 -> Empty
                         [] n > 0 /\ (saving[1].hole \/ fails) -> Garbage(n)
                         [] OTHER -> [by |-> saving[1].by, len |-> n]]
  /\ saving' = <<>>
  /\ UNCHANGED <<ser, datUp, drw, uploads, life>>

(* Fault: dat serves a reader while it stores an upload. *)
SendFileMeanwhile(c) ==
  /\ datUp /\ drw[c].pc = "rwait" /\ drw[c].conn /\ drw[c].chunk \in DOMAIN chunks
  /\ drw' = [drw EXCEPT ![c].pc = "rdata", ![c].got =
               IF chunks[drw[c].chunk].len = drw[c].size
               THEN chunks[drw[c].chunk] ELSE Garbage(drw[c].size)]
  /\ UNCHANGED <<ser, dat, uploads, life>>

(* cc_send_data, load_data: when the file does not have the length asked    *)
(* for, the buffer goes out as malloc returned it.                          *)
SendFile(c) ==
  /\ datUp /\ saving = <<>>
  /\ drw[c].pc = "rwait" /\ drw[c].conn
  /\ \/ drw[c].chunk \notin DOMAIN chunks /\ End(c)
     \/ /\ drw[c].chunk \in DOMAIN chunks
        /\ drw' = [drw EXCEPT ![c].pc = "rdata", ![c].got =
                     IF chunks[drw[c].chunk].len = drw[c].size
                     THEN chunks[drw[c].chunk] ELSE Garbage(drw[c].size)]
  /\ UNCHANGED <<ser, dat, uploads, life>>

(* Fault: the select loop that waits for the lock is not thought of. *)
FaultAsked == next_chunkid

(* The id that dat was asked for: the select loop that waits for the lock   *)
(* has taken the next one.                                                  *)
Asked == IF waiting = <<>> THEN next_chunkid ELSE next_chunkid - 1

(* create_file empties the file if dat has it: ser has forgotten that it    *)
(* gave out the id.  What save_data writes into it then may begin with a    *)
(* hole.                                                                    *)
Created(id) ==
  /\ chunks' = [k \in DOMAIN chunks \cup {id} |-> IF k = id THEN Empty ELSE chunks[k]]
  /\ saving' \in {saving} \cup
       (IF saving # <<>> /\ saving[1].chunk = id
        THEN {<<[saving[1] EXCEPT !.hole = TRUE]>>} ELSE {})

(* The receive thread of dat: get_chunkid, create_file. *)
CreateFile ==
  /\ datUp /\ lock = "asked"
  /\ lock' = "answering"
  /\ Created(Asked) \/ UNCHANGED <<chunks, saving>>
  /\ UNCHANGED <<files, next_chunkid, link, waiting, datUp, drw, uploads, life>>

(* receive_thread of ser reads the answer. *)
Answered ==
  /\ lock = "answering"
  /\ lock' = "free"
  /\ UNCHANGED <<files, next_chunkid, link, waiting, dat, drw, uploads, life>>

-----------------------------------------------------------------------------
(* Deaths *)

(* A drw is killed, or stops for ever.  Its sockets are closed. *)
DrwCrash(c) ==
  /\ drw[c].pc # "idle" /\ "drw" \in bound.mortal
  /\ End(c)
  /\ saving' = IF drw[c].pc = "data" /\ drw[c].conn
               THEN <<[saving[1] EXCEPT !.in = "eof"]>> ELSE saving
  /\ UNCHANGED <<ser, datUp, chunks, uploads, life>>

(* hd_init of the next start removes the files of this one. *)
DatCrash ==
  /\ datUp /\ "dat" \in bound.mortal
  /\ datUp' = FALSE
  /\ chunks' = <<>> /\ saving' = <<>>
  /\ link' = IF link = "up" THEN "broken" ELSE link
  /\ lock' \in IF lock = "asked" THEN {"lost"}
               ELSE IF lock = "answering" THEN {"lost", "answering"} ELSE {lock}
  /\ drw' = [c \in Clients |-> [drw[c] EXCEPT !.conn = FALSE]]
  /\ UNCHANGED <<files, next_chunkid, waiting, uploads, life>>

DatStart ==
  /\ ~datUp
  /\ datUp' = TRUE
  /\ UNCHANGED <<ser, chunks, saving, drw, uploads, life>>

(* dat_serv accepts the new dat, which goes to the head of the list. *)
DatAccept ==
  /\ datUp /\ serUp /\ link # "up" /\ waiting = <<>>
  /\ link' = "up"
  /\ UNCHANGED <<files, next_chunkid, lock, waiting, dat, drw, uploads, life>>

(* receive_thread reads the end of file. *)
DatNoticed ==
  /\ link = "broken"
  /\ link' = "none"
  /\ UNCHANGED <<files, next_chunkid, lock, waiting, dat, drw, uploads, life>>

(* What a restart may load for a file: nothing, or the file with or without *)
(* its chunk and with a size it has had.  A save reads chunks and size one  *)
(* after the other, so that a size may be there without a chunk.            *)
Older(f) == {NoFile} \cup UNION {{[f EXCEPT !.chunk = k, !.size = s, !.had = {s}] :
                                    k \in {0, f.chunk}} : s \in f.had}

Loads ==
  LET any == UNION {Older(files[j]) : j \in DOMAIN files}
  IN {kept \in UNION {[1 .. m -> any] : m \in 0 .. Len(files)} :
        /\ \A j \in DOMAIN kept : kept[j] \in Older(files[j])
        /\ kept # <<>> => kept[Len(kept)] # NoFile}

(* Fault: load_config does not raise next_chunkid. *)
FaultNextChunkid(kept) == {FirstChunk}

(* What load_config sets next_chunkid to: the largest. *)
NextChunkid(kept) ==
  {n \in {FirstChunk} \cup {kept[j].chunk : j \in DOMAIN kept} :
     n >= FirstChunk /\ \A j \in DOMAIN kept : kept[j].chunk <= n}

(* The client is in a call, or has made one whose answer may not have come. *)
InCall(c) == drw[c].pc \in {"judge", "creat", "chunk", "connect", "end",
                            "rjudge", "rchunk", "rconnect"}

(* ser dies; what it will load is settled.  The calls that are under way    *)
(* never return (RemoteCalls).  A request to dat may still be executed, and *)
(* its answer is lost.                                                      *)
SerCrash ==
  /\ serUp /\ crashes < bound.crashes
  /\ serUp' = FALSE /\ crashes' = crashes + 1
  /\ link' = "none" /\ lock' = "free" /\ waiting' = <<>>
  /\ files' \in Loads
  /\ next_chunkid' \in NextChunkid(files')
  /\ forgotten' = forgotten \cup {k \in FirstChunk + 1 .. next_chunkid :
                                   \A j \in DOMAIN files' : files'[j].chunk # k}
  /\ stale' = stale \cup ({drw[c].inode : c \in Clients} \ {0})
  /\ \E hung \in SUBSET {c \in Clients : InCall(c)} :
       drw' = [c \in Clients |-> IF c \in hung \/ drw[c].pc = "blocked"
                                 THEN [drw[c] EXCEPT !.pc = "hung"] ELSE drw[c]]
  /\ \/ lock = "asked" /\ Created(Asked)
     \/ UNCHANGED <<chunks, saving>>
  /\ UNCHANGED <<datUp, uploads, bound>>

SerStart ==
  /\ ~serUp
  /\ serUp' = TRUE
  /\ UNCHANGED <<ser, dat, drw, uploads, bound, crashes, stale, forgotten>>

(* A call made while ser is down, which gives up because ser does not come  *)
(* back in time: write_data takes a lookup that failed for a file that does *)
(* not exist, and goes on without an inode when the creation has failed.    *)
CallFails(c) ==
  /\ ~serUp
  /\ \/ drw[c].pc = "judge" /\ Goto(c, "creat")
     \/ drw[c].pc = "creat" /\ Goto(c, "chunk")
     \/ drw[c].pc \in {"chunk", "rchunk"} /\ NoChunk(c)
     \/ drw[c].pc \in {"end", "rjudge"} /\ End(c)
  /\ UNCHANGED <<ser, dat, uploads, life>>

(* What a drw does when dat closes under its request: read_data fails, and  *)
(* direct_writeblock tests a header it has not read, which holds whatever   *)
(* is on the stack: the header of an upload before, for instance.           *)
DatGone(c) ==
  /\ ~drw[c].conn
  /\ \/ drw[c].pc \in {"wait", "rwait"} /\ End(c)
     \/ drw[c].pc = "wait" /\ Goto(c, "data")
     \/ drw[c].pc = "info" /\ End(c)
  /\ UNCHANGED <<ser, dat, uploads, life>>

-----------------------------------------------------------------------------
Init ==
  /\ serUp = TRUE /\ files = <<>>
  /\ bound \in Bounds /\ crashes = 0 /\ stale = {} /\ forgotten = {}
  /\ next_chunkid = FirstChunk
  /\ link = "none" /\ lock = "free" /\ waiting = <<>>
  /\ datUp = TRUE /\ chunks = <<>> /\ saving = <<>>
  /\ drw = [c \in Clients |-> Idle]
  /\ uploads = <<>>

Upload(c) == JudgeName(c) \/ CreatFile(c) \/ WriteChunk(c) \/ Connect(c)
             \/ SendInfo(c) \/ SendData(c) \/ WriteChunkEnd(c)
Download(c) == ReadJudge(c) \/ ReadChunk(c) \/ ReadConnect(c) \/ ReadData(c)
Start(c) == StartWrite(c) \/ StartRead(c)
Drw(c) == Upload(c) \/ Download(c) \/ DatGone(c) \/ CallFails(c)
Serve(c) == RecvInfo(c) \/ SendFile(c)
Creation == ChunkSent \/ CreateFile \/ Answered
Deaths == SerCrash \/ DatCrash \/ \E c \in Clients : DrwCrash(c)

Next == \/ \E c \in Clients : Start(c) \/ Drw(c) \/ Serve(c)
        \/ SaveData \/ Creation \/ DatStart \/ SerStart \/ DatAccept \/ DatNoticed \/ Deaths

Spec == Init /\ [][Next]_vars

(* The select loops of ser and dat come to every socket that is ready, and  *)
(* the threads and the living drw processes go on.  Users start commands,   *)
(* and processes die, or are started again, or not.                         *)
Fairness ==
  /\ \A c \in Clients : SF_vars(Drw(c)) /\ SF_vars(Serve(c))
  /\ WF_vars(SaveData) /\ WF_vars(ChunkSent) /\ WF_vars(CreateFile) /\ WF_vars(Answered)
  /\ SF_vars(DatAccept)

FairSpec == Spec /\ Fairness

-----------------------------------------------------------------------------
File == [name : Names \cup {Lost}, chunk : Nat, size : Nat, had : SUBSET Nat]
Bytes == [by : Nat, len : Nat]
Saves == [by : Nat, chunk : Nat, size : Nat, in : {"open", "sent", "eof"}, hole : BOOLEAN]
Places == {"idle", "judge", "creat", "chunk", "blocked", "connect", "info", "wait", "data",
           "end", "rjudge", "rchunk", "rconnect", "rwait", "rdata", "spin", "hung"}
Drws == [pc : Places, name : Seq(Names), upload : Nat, inode : Nat, chunk : Nat,
         size : Nat, cnt : 0 .. RETRIES, conn : BOOLEAN, got : Bytes]

TypeOK ==
  /\ serUp \in BOOLEAN /\ files \in Seq(File)
  /\ next_chunkid \in Nat
  /\ link \in {"none", "up", "broken"}
  /\ lock \in {"free", "asked", "answering", "lost"}
  /\ waiting = <<>> \/ waiting \in Clients \X (DOMAIN files)
  /\ datUp \in BOOLEAN
  /\ chunks \in [DOMAIN chunks -> Bytes] /\ DOMAIN chunks \subseteq Nat
  /\ saving \in Seq(Saves) /\ Len(saving) <= 1
  /\ drw \in [Clients -> Drws]
  /\ uploads \in Seq([name : Names, size : Sizes]) /\ Len(uploads) <= bound.uploads
  /\ bound \in Bounds /\ crashes \in 0..bound.crashes
  /\ stale \subseteq Nat /\ forgotten \subseteq Nat

(* The uploads of a name, and the names that were uploaded only once. *)
UploadsOf(name) == {u \in DOMAIN uploads : uploads[u].name = name}
Once(name) == Cardinality(UploadsOf(name)) = 1

(* No client was busy with the file when ser died, and ser has not given    *)
(* out its chunk twice.                                                     *)
Quiet(inode, chunk) == inode \notin stale /\ chunk \notin forgotten

Whole(bytes, name) == \E u \in UploadsOf(name) : bytes = [by |-> u, len |-> uploads[u].size]

(* ser learns the size of a file when drw has sent the bytes, not when dat  *)
(* has stored them, and dat may die in between.  Yet as long as a file has  *)
(* been uploaded once, its size is that of the chunk file, or dat is busy   *)
(* storing the bytes, which are all in its socket, or has lost the file.    *)
SizeMeansBytes ==
  \A j \in DOMAIN files :
    Once(files[j].name) /\ Quiet(j, files[j].chunk)
      /\ files[j].size # 0 /\ files[j].chunk \in DOMAIN chunks =>
      \/ Whole(chunks[files[j].chunk], files[j].name)
      \/ saving # <<>> /\ saving[1].chunk = files[j].chunk /\ saving[1].in = "sent"

(* So whoever reads a file that was uploaded once gets all that was sent,   *)
(* although nothing orders reader, writer and the two servers.              *)
ReadsAreWhole ==
  \A c \in Clients :
    drw[c].pc = "rdata" /\ Once(drw[c].name[1]) /\ Quiet(drw[c].inode, drw[c].chunk) =>
      Whole(drw[c].got, drw[c].name[1])

(* However uploads of any names overlap and die, the chunk of a file holds  *)
(* no byte of an upload to another name.                                    *)
BytesStayHome ==
  \A j \in DOMAIN files :
    Quiet(j, files[j].chunk) /\ files[j].chunk \in DOMAIN chunks =>
      LET by == chunks[files[j].chunk].by
      IN by # 0 => uploads[by].name = files[j].name

(* A drw that was told to go ahead is the one that dat listens to. *)
DatListens ==
  \A c \in Clients :
    drw[c].pc = "data" /\ drw[c].conn =>
      saving # <<>> /\ saving[1].by = drw[c].upload /\ saving[1].in = "open"

(* The creation of a chunk is what SerDat shows of it, with its reduction   *)
(* to one dat and to where the request is.                                  *)
Turns == INSTANCE Creations WITH
           waiting <- waiting # <<>>,
           asked <- IF lock = "asked" THEN Asked ELSE 0
CreationsInTurn == Turns!Spec

(* dat, which serves nobody else during an upload, is released from it,     *)
(* also when drw dies.                                                      *)
DatIsReleased == saving # <<>> ~> saving = <<>>


(* `bug', line 1: drw must not get an address from ser when dat is cut off. *)
(* This is about a drw that asks for the chunk that its file has, after ser *)
(* has noticed that dat is gone.                                            *)
AddressMeansDat ==
  [][\A c \in Clients :
       drw[c].pc = "chunk" /\ drw'[c].pc = "connect" => link # "none"]_vars
-----------------------------------------------------------------------------
(* The inductive invariant behind the safety properties. *)

Known(k) == k \in forgotten \/ \E j \in DOMAIN files : files[j].chunk = k
Pending(k) == lock = "asked" /\ Asked = k

(* Chunks are given out once, to one file, and a size to a file that has    *)
(* its chunk; a request to dat is for a chunk that it does not have.        *)
TableInv ==
  /\ next_chunkid >= FirstChunk
  /\ waiting # <<>> =>
       /\ next_chunkid > FirstChunk /\ files[waiting[2]].chunk = 0
       /\ Once(files[waiting[2]].name) /\ waiting[2] \notin stale => files[waiting[2]].size = 0
  /\ \A j \in DOMAIN files :
       /\ files[j].chunk = 0 \/ files[j].chunk \in FirstChunk + 1 .. Asked
       /\ files[j].size = 0 => files[j].had \subseteq {0}
       /\ files[j].name \in Names => UploadsOf(files[j].name) # {}
       /\ \A i \in DOMAIN files : files[i].chunk = files[j].chunk /\ files[j].chunk # 0 => i = j
  /\ lock = "asked" => /\ Asked > FirstChunk /\ Known(Asked)
                       /\ Asked \in DOMAIN chunks => Asked \in forgotten

ChunksInv ==
  /\ \A k \in DOMAIN chunks : /\ k > FirstChunk /\ Known(k)
                              /\ chunks[k].by \in DOMAIN uploads \cup {0}
  /\ saving # <<>> =>
       LET s == saving[1] IN
       /\ s.by \in DOMAIN uploads /\ s.size = uploads[s.by].size /\ s.size # 0
       /\ s.chunk \in DOMAIN chunks
       /\ s.hole => s.chunk \in forgotten
       /\ \A j \in DOMAIN files :
            files[j].chunk = s.chunk /\ Quiet(j, s.chunk) => uploads[s.by].name = files[j].name

(* The chunk file of j, if there is one, has all bytes or will have them.   *)
Stored(j) ==
  files[j].chunk \in DOMAIN chunks =>
    IF saving # <<>> /\ saving[1].chunk = files[j].chunk THEN saving[1].in = "sent"
    ELSE Whole(chunks[files[j].chunk], files[j].name)

Writing(c) == drw[c].pc \in {"judge", "creat", "chunk", "blocked", "connect",
                             "info", "wait", "data", "end"}

(* A file that has its size has been uploaded by a drw that is done.        *)
Sized(j) ==
  Once(files[j].name) /\ j \notin stale /\ files[j].size # 0 =>
    /\ files[j].chunk \notin forgotten => Stored(j) /\ ~Pending(files[j].chunk)
    /\ \A u \in UploadsOf(files[j].name) :
         /\ files[j].size = uploads[u].size /\ files[j].had \subseteq {0, uploads[u].size}
         /\ \A c \in Clients : Writing(c) => drw[c].upload # u

SizedInv == \A j \in DOMAIN files : Sized(j)

(* What drw knows of the file that it writes. *)
InodeInv(c) ==
  LET d == drw[c] IN
  /\ Len(d.name) = 1 /\ d.upload \in DOMAIN uploads
  /\ uploads[d.upload] = [name |-> d.name[1], size |-> d.size]
  /\ d.pc \in {"judge", "creat", "chunk"} => d.cnt < RETRIES
  /\ d.inode \notin stale \cup {0} => /\ d.inode \in DOMAIN files
                                      /\ files[d.inode].name = d.name[1]
  /\ d.pc = "blocked" => waiting = <<c, d.inode>>

(* And of its chunk. *)
ChunkInv(c) ==
  LET d == drw[c] IN
  /\ Known(d.chunk) /\ d.chunk # 0 /\ d.inode # 0
  /\ d.inode \notin stale => files[d.inode].chunk = d.chunk
  /\ \A j \in DOMAIN files :
       files[j].chunk = d.chunk /\ Quiet(j, d.chunk) => files[j].name = d.name[1]

(* And of the bytes: without its connection they are nowhere, with it they  *)
(* are on their way.                                                        *)
DataInv(c) ==
  LET d == drw[c] IN
  /\ d.pc # "info" => d.size # 0
  /\ ~d.conn /\ d.chunk \notin forgotten => d.chunk \notin DOMAIN chunks /\ ~Pending(d.chunk)
  /\ d.pc \in {"data", "end"} /\ d.conn => d.chunk \in DOMAIN chunks
  /\ d.pc = "data" /\ d.conn => /\ saving # <<>> /\ saving[1].by = d.upload
                                 /\ saving[1].in = "open" /\ saving[1].chunk = d.chunk
  /\ d.pc = "end" =>
       \A j \in DOMAIN files :
         files[j].chunk = d.chunk /\ Quiet(j, d.chunk) /\ Once(files[j].name) => Stored(j)

WriterInv(c) ==
  /\ Writing(c) => InodeInv(c)
  /\ drw[c].pc \in {"connect", "info", "wait", "data", "end"} => ChunkInv(c)
  /\ drw[c].pc \in {"info", "wait", "data", "end"} => DataInv(c)

(* What drw knows of the file that it reads. *)
ReaderInv(c) ==
  LET d == drw[c] IN
  Reading(c) =>
    /\ Len(d.name) = 1
    /\ d.pc \in {"rjudge", "rchunk"} => d.cnt < RETRIES
    /\ d.pc # "rjudge" => d.inode # 0
    /\ d.pc # "rjudge" /\ d.inode \notin stale =>
         /\ d.inode \in DOMAIN files /\ files[d.inode].name = d.name[1]
         /\ d.pc # "rchunk" => /\ files[d.inode].chunk = d.chunk /\ d.chunk # 0
                               /\ files[d.inode].size # 0
    /\ d.pc \in {"rconnect", "rwait"} /\ Quiet(d.inode, d.chunk) /\ Once(d.name[1]) =>
         \A u \in UploadsOf(d.name[1]) : d.size = uploads[u].size
    /\ d.pc = "rdata" /\ Quiet(d.inode, d.chunk) /\ Once(d.name[1]) => Whole(d.got, d.name[1])

ClientsInv ==
  /\ \A c \in Clients : WriterInv(c) /\ ReaderInv(c)
  /\ \A c, e \in Clients : Writing(c) /\ Writing(e) /\ drw[c].upload = drw[e].upload => c = e

IInv == TypeOK /\ TableInv /\ ChunksInv /\ BytesStayHome /\ SizedInv /\ ClientsInv
=============================================================================
