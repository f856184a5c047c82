---------------------------- MODULE MCSelectLoop ----------------------------
EXTENDS SelectLoop, TLC

CONSTANTS c1, c2
Both == {c1, c2}

(* A packet that a handler serves, beside one that a handler refuses, or    *)
(* one that is too long.                                                    *)
Served == [size |-> 1, known |-> TRUE]
SomeRefused == {Served, [size |-> 0, known |-> FALSE]}
SomeTooLong == {Served, [size |-> 2, known |-> TRUE]}

Symmetry == Permutations(Both)
=============================================================================
