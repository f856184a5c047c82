----------------------------- MODULE MCTransfer -----------------------------
EXTENDS Transfer, TLC

CONSTANTS c1, c2, n1, n2

(* Clients and names occur in sets and as function arguments only. *)
Symmetry == Permutations(Clients) \cup Permutations(Names)

(* Two uploads, and clients and dat that die; or ser that dies. *)
TwoUploads ==
  {[uploads |-> 2, sizes |-> Sizes, readers |-> 1, crashes |-> 0, mortal |-> {"drw", "dat"}],
   [uploads |-> 2, sizes |-> {2}, readers |-> 1, crashes |-> 1, mortal |-> {}]}

(* One upload and deaths, or two uploads that nothing disturbs. *)
Progress ==
  {[uploads |-> 1, sizes |-> {2}, readers |-> 2, crashes |-> 0, mortal |-> {"drw", "dat"}],
   [uploads |-> 1, sizes |-> {2}, readers |-> 2, crashes |-> 1, mortal |-> {}],
   [uploads |-> 2, sizes |-> {2}, readers |-> 2, crashes |-> 0, mortal |-> {}]}
=============================================================================
