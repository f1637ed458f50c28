-------------------------- MODULE MCIsolatedProfiling --------------------------
(* Small instances of a profiling run for TLC.                                *)
EXTENDS IsolatedProfiling

(* A mixed batch whose setup takes two rounds, a batch of decodes beside a    *)
(* prompt that is not scheduled, and prefill only.                            *)
ThreeRecipes ==
    <<[prefills |-> 2, decodes |-> 2, partial |-> TRUE, tokens |-> 1, backlog |-> 1, context |-> 4],
      [prefills |-> 1, decodes |-> 3, partial |-> FALSE, tokens |-> 0, backlog |-> 2, context |-> 3],
      [prefills |-> 2, decodes |-> 0, partial |-> TRUE, tokens |-> 2, backlog |-> 3, context |-> 1]>>
=============================================================================
