------------------------------ MODULE Listing ------------------------------
(***************************************************************************)
(* The listing of the files that drw's command `list' prints: ser packs    *)
(* its table into one answer (ser/fs.c, con_cli.c), and drw takes it apart *)
(* again (drw/fs_operation.c).                                             *)
(*                                                                         *)
(* The buffer is a sequence of the pieces that are written into it: the    *)
(* length of a name, which is one byte, each character of the name, and    *)
(* the thirteen bytes of inode, type and size as one piece.  Of the lines  *)
(* drw leaves those out that begin with a dot, unless it is told not to.   *)
(***************************************************************************)
EXTENDS SerFs

ASSUME OneEmptyName ==
  \A a, b \in Names : NameLen[a] = 0 /\ NameLen[b] = 0 => a = b

(* The pieces of the buffer. *)
LengPiece(name) == [kind |-> "leng", leng |-> NameLen[name]]
CharPiece(name, k) == [kind |-> "char", name |-> name, at |-> k]
FilePiece(nd) == [kind |-> "file", inode |-> nd.inode, size |-> nd.size]

(* Fault: the byte for the length of a name is not counted. *)
FaultSizeLoop ==
  LET len[n \in 0 .. Len(nodes)] ==
        IF n = 0 THEN 0 ELSE len[n - 1] + 1 + NameLen[nodes[n].name]
  IN len

(* The loop of getdir_size_from_drw: the size of the first n files. *)
SizeLoop ==
  LET len[n \in 0 .. Len(nodes)] ==
        IF n = 0 THEN 0 ELSE len[n - 1] + 2 + NameLen[nodes[n].name]
  IN len

(* getdir_size_from_drw: the size of the answer. *)
GetdirSize == SizeLoop[Len(nodes)]

(* What fs_getdir_from_drw writes for a file. *)
Entry(nd) ==
  <<LengPiece(nd.name)>> \o [k \in 1 .. NameLen[nd.name] |-> CharPiece(nd.name, k)]
    \o <<FilePiece(nd)>>

(* The loop of fs_getdir_from_drw: what the first n files come to. *)
PackLoop ==
  LET ptr[n \in 0 .. Len(nodes)] ==
        IF n = 0 THEN <<>> ELSE ptr[n - 1] \o Entry(nodes[n])
  IN ptr

(* cc_fs_getdir: the answer, or none without the root directory.  What does *)
(* not fit is not in the packet.                                            *)
FsGetdir == IF root THEN <<SubSeq(PackLoop[Len(nodes)], 1, GetdirSize)>> ELSE <<>>

(* The name that the n pieces after place i spell. *)
Spells(buff, i, n, name) ==
  NameLen[name] = n /\ \A k \in 1 .. n : buff[i + k] = CharPiece(name, k)

(* The line that list_fs_info prints of a file. *)
Shown(nd) == [name |-> nd.name, inode |-> nd.inode, size |-> nd.size]

(* A turn of the loop of list_fs_info, which prints the line that begins at *)
(* a place of the buffer and goes on behind it; "?" and the end where the   *)
(* pieces are not what it takes them for.                                   *)
Turn(buff, at) ==
  LET i == at.place
      n == buff[i].leng
      file == buff[i + n + 1]
      name == CHOOSE nm \in Names : Spells(buff, i, n, nm)
  IN IF i > Len(buff)
     THEN at
     ELSE IF /\ buff[i].kind = "leng" /\ i + n + 1 <= Len(buff)
             /\ file.kind = "file" /\ \E nm \in Names : Spells(buff, i, n, nm)
          THEN [place |-> i + n + 2,
                lines |-> Append(at.lines, [name |-> name, inode |-> file.inode,
                                            size |-> file.size])]
          ELSE [place |-> Len(buff) + 1,
                lines |-> Append(at.lines, [name |-> "?", inode |-> 0, size |-> 0])]

(* The loop of list_fs_info: a turn takes at least one piece of the buffer, *)
(* and the loop stays at its end.                                           *)
ListLoop(buff) ==
  LET at[k \in 0 .. Len(buff)] ==
        IF k = 0 THEN [place |-> 1, lines |-> <<>>] ELSE Turn(buff, at[k - 1])
  IN at
Listed(buff) == ListLoop(buff)[Len(buff)].lines

(* drw prints the table: each file once, in its order, with its inode and   *)
(* its size, whatever saves and restarts have made of the table             *)
(* (fs.c:648, 722).                                                         *)
ListingShowsTable ==
  AtRest /\ root =>
    Listed(FsGetdir[1]) = [j \in DOMAIN nodes |-> Shown(nodes[j])]
=============================================================================
