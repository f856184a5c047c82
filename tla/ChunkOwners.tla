---------------------------- MODULE ChunkOwners ----------------------------
(***************************************************************************)
(* What the metadata server promises about the ownership of chunks: an     *)
(* unowned chunk may be given to a file, and a crash may take chunks away  *)
(* from their files, but no step hands a chunk that has an owner to        *)
(* another file.  The promise ends with the first load that reads several  *)
(* records as one line.                                                    *)
(***************************************************************************)
CONSTANTS Files, Chunks

VARIABLES
  owns,    \* pairs of a file and a chunk
  broken   \* a load has mistaken text of one record for another's

Init == owns = {} /\ broken = FALSE

Owned == {o[2] : o \in owns}

Give(file, chunk) ==
  /\ chunk \notin Owned
  /\ owns' = owns \cup {<<file, chunk>>}
  /\ UNCHANGED broken

Forget == owns' \subseteq owns /\ UNCHANGED broken

Break == broken'

Next == \/ ~broken /\ \E file \in Files, chunk \in Chunks : Give(file, chunk)
        \/ ~broken /\ Forget
        \/ Break

Spec == Init /\ [][Next]_<<owns, broken>>
=============================================================================
