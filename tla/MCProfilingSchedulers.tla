------------------------- MODULE MCProfilingSchedulers -------------------------
(* Small instances of the profiling schedulers for TLC.                       *)
EXTENDS ProfilingSchedulers

CONSTANTS r1, r2, r3

ThreeRequests == {r1, r2, r3}
Prompts == [r \in Requests |-> IF r = r1 THEN 3 ELSE 2]
Arrivals == [r \in Requests |-> IF r = r1 THEN 2 ELSE 1]

Recipe(kind, tokens, prefills, decodes, strict) ==
    [kind |-> kind, tokens |-> tokens, prefills |-> prefills, decodes |-> decodes,
     state |-> "partial", distribution |-> "balanced", context |-> "long", strict |-> strict]

(* A prompt beside a decode, then a decode alone. *)
MixedFirst == <<Recipe("mixed", 1, 1, 1, FALSE), Recipe("decode_only", 0, 0, 1, TRUE)>>
=============================================================================
