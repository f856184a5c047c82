---------------------------- MODULE RemoteCalls ----------------------------
(***************************************************************************)
(* What drw's commands take for granted of a call to the metadata server,  *)
(* whatever happens to the connection: the request is executed at most     *)
(* once, a call that returns an answer returns its own, and a call that    *)
(* gives up has had no effect.                                             *)
(***************************************************************************)
EXTENDS Naturals, Sequences

\* For each call so far, how often it was executed and, when it has ended,
\* what it returned: the number of the request answered, 0 for none.
VARIABLE calls

Call == calls' = Append(calls, [executed |-> 0, result |-> <<>>])

Pending(k) == k \in DOMAIN calls /\ calls[k].result = <<>>

Execute(k) == /\ Pending(k) /\ calls[k].executed = 0
              /\ calls' = [calls EXCEPT ![k].executed = 1]

Return(k) == /\ Pending(k) /\ calls[k].executed = 1
             /\ calls' = [calls EXCEPT ![k].result = <<k>>]

GiveUp(k) == /\ Pending(k) /\ calls[k].executed = 0
             /\ calls' = [calls EXCEPT ![k].result = <<0>>]

Next == Call \/ \E k \in DOMAIN calls : Execute(k) \/ Return(k) \/ GiveUp(k)

Spec == calls = <<>> /\ [][Next]_calls
=============================================================================
