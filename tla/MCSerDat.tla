------------------------------ MODULE MCSerDat ------------------------------
EXTENDS SerDat, TLC

CONSTANTS d1, d2, i1, i2, i3

(* Dats and Infos occur in sets and as function arguments only. *)
Symmetry == Permutations(Dats) \cup Permutations(Infos)

(* No step looks at what a dat has stored or at the count of failures, and  *)
(* GrantsAccounted alone is about them: states that differ in nothing else  *)
(* are one for the other properties.                                        *)
Visible == <<next_chunkid, waiting, accepting, list, mode, sock_lock, received, info, reading,
             peer, inbox, answer, crashed, met>>
=============================================================================
