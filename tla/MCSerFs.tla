------------------------------ MODULE MCSerFs ------------------------------
(* Values for TLC: two names, one digit-like name whose text is a small      *)
(* number and one whose text is a larger one.  The second is as long as a    *)
(* byte can tell.                                                            *)
EXTENDS Listing

CONSTANTS n1, n2

MCNameVal == [n \in Names |-> IF n = n1 THEN 1 ELSE 3]
MCNameLen == [n \in Names |-> IF n = n1 THEN 1 ELSE 3]
=============================================================================
