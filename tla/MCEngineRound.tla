----------------------------- MODULE MCEngineRound -----------------------------
(* Small instances of the live scheduler for TLC.                             *)
EXTENDS EngineRound

CONSTANTS r1, r2, r3

TwoRequests == {r1, r2}
ThreeRequests == {r1, r2, r3}

(* Prompts of two blocks, whole and in part. *)
LongPrompts == [r \in Requests |-> IF r = r1 THEN 4 ELSE 3]

(* r1 was stamped last: queue order and arrival order differ. *)
Arrivals == [r \in Requests |-> IF r = r1 THEN 2 ELSE 1]
=============================================================================
