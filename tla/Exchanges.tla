----------------------------- MODULE Exchanges -----------------------------
(***************************************************************************)
(* What the metadata server's select loop promises to the drw processes    *)
(* that are connected to it, however their packets are cut into pieces: a  *)
(* request is run at most once, and what a drw reads as the answer to it   *)
(* is the answer to it.  Requests alternate between the numbers 0 and 1.   *)
(***************************************************************************)
EXTENDS Naturals

CONSTANT Conns

\* For each connection the last request on it: its number, how often it was
\* run, and the answer that was read, 2 for none.
VARIABLE talk

NoTalk == [no |-> 0, ran |-> 1, answer |-> 0]
Awaited(c) == talk[c].answer = 2

Ask(c) == /\ ~Awaited(c)
          /\ talk' = [talk EXCEPT ![c] = [no |-> 1 - @.no, ran |-> 0, answer |-> 2]]

Run(c) == /\ Awaited(c) /\ talk[c].ran = 0
          /\ talk' = [talk EXCEPT ![c].ran = 1]

Answer(c) == /\ Awaited(c) /\ talk[c].ran = 1
             /\ talk' = [talk EXCEPT ![c].answer = talk[c].no]

(* The connection is closed, and made anew by another drw. *)
Renew(c) == talk' = [talk EXCEPT ![c] = NoTalk]

Next == \E c \in Conns : Ask(c) \/ Run(c) \/ Answer(c) \/ Renew(c)

Spec == talk = [c \in Conns |-> NoTalk] /\ [][Next]_talk
=============================================================================
