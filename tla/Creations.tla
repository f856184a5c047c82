----------------------------- MODULE Creations -----------------------------
(***************************************************************************)
(* How the metadata server gives out chunk ids: one id at a time waits for *)
(* its turn, at most one request to a data server is under way, and what   *)
(* is asked for is the id that was taken last.  The next turn comes with   *)
(* the answer; when a process dies the request may be lost, and with it    *)
(* every turn until the metadata server is started anew.                   *)
(***************************************************************************)
EXTENDS Naturals

CONSTANT FirstChunk

VARIABLES
  next_chunkid,
  waiting,       \* the id next_chunkid waits for its turn
  lock,          \* "free", or the request is "asked", "answering" or "lost"
  asked          \* the id asked for, else 0

Init == next_chunkid = FirstChunk /\ waiting = FALSE /\ lock = "free" /\ asked = 0

Take == /\ ~waiting
        /\ waiting' = TRUE /\ next_chunkid' = next_chunkid + 1
        /\ UNCHANGED <<lock, asked>>

Send == /\ waiting /\ lock = "free"
        /\ waiting' = FALSE
        /\ \/ lock' = "asked" /\ asked' = next_chunkid
           \/ lock' = "lost" /\ asked' = 0
        /\ UNCHANGED next_chunkid

Create == /\ lock = "asked"
          /\ lock' = "answering" /\ asked' = 0
          /\ UNCHANGED <<next_chunkid, waiting>>

Answer == /\ lock = "answering"
          /\ lock' = "free"
          /\ UNCHANGED <<next_chunkid, waiting, asked>>

Lose == /\ lock # "free"
        /\ lock' = "lost" /\ asked' = 0
        /\ UNCHANGED <<next_chunkid, waiting>>

Restart == /\ next_chunkid' \in FirstChunk .. next_chunkid
           /\ waiting' = FALSE /\ lock' = "free" /\ asked' = 0

Next == Take \/ Send \/ Create \/ Answer \/ Lose \/ Restart

Spec == Init /\ [][Next]_<<next_chunkid, waiting, lock, asked>>
=============================================================================
