---------------------------- MODULE MCPlanAlgorithms ----------------------------
(***************************************************************************)
(* Queries of a small family: recipes of all kinds asked of every state of   *)
(* some queues, and six snapshots resolved with every set of deadlines and   *)
(* every predictor of a small range.                                         *)
(***************************************************************************)
EXTENDS PlanQueries

CONSTANTS r1, r2, r3, r4

FourRequests == {r1, r2, r3, r4}
Prompts == [r \in Requests |-> CASE r = r1 -> 5 [] r = r2 -> 3 [] OTHER -> 2]
Arrivals == [r \in Requests |-> IF r = r1 THEN 2 ELSE 1]

Budgets3 == {0, 2, 4}
Within == {Unset, -1, 2, 3}

(* Recipes of all kinds. *)
RecipeFamily ==
    [kind : {"prefill_only", "mixed"}, tokens : {1, 4, 7}, prefills : {1, 3}, decodes : {1, 2},
     state : {"fresh", "partial"}, distribution : {"balanced", "skewed"},
     context : {"long"}, strict : BOOLEAN]
    \cup [kind : {"decode_only"}, tokens : {0}, prefills : {0}, decodes : {1, 2},
          state : {"none"}, distribution : {"balanced"},
          context : {"short", "long", "mixed"}, strict : BOOLEAN]

(* The blocks in use are those of the tokens computed. *)
Queues(running, waiting, computed) ==
    [running |-> running, waiting |-> waiting, computed |-> computed,
     used |-> SumFunction([r \in Requests |-> Blocks(computed[r])])]

(* A running request has computed part of its prompt, or all of it and       *)
(* perhaps a token more; a waiting one nothing.                              *)
SomeQueues ==
    {x \in {Queues(running, waiting, computed) :
              running \in {<<>>, <<r2>>, <<r1, r2>>, <<r2, r1>>},
              waiting \in {<<>>, <<r3>>, <<r1, r3>>, <<r3, r1>>, <<r3, r4>>},
              computed \in [Requests -> 0..6]} :
        /\ x.used <= TotalBlocks
        /\ \A r \in Requests :
              IF r \in ToSet(x.running) THEN x.computed[r] \in 1..(Prompt[r] + 1)
              ELSE x.computed[r] = 0}

At(c1, c2, c3) ==
    [r \in Requests |-> CASE r = r1 -> c1 [] r = r2 -> c2 [] r = r3 -> c3 [] OTHER -> 0]

(* Idle; prompts alone; a decode alone; a decode beside prompts that run or  *)
(* wait; two decodes beside one.                                             *)
SixSnapshots ==
    {Queues(<<>>, <<>>, At(0, 0, 0)),
     Queues(<<r1>>, <<r3>>, At(2, 0, 0)),
     Queues(<<r3>>, <<>>, At(0, 0, 2)),
     Queues(<<r3, r1>>, <<r2>>, At(2, 0, 2)),
     Queues(<<r1, r2>>, <<r3>>, At(5, 1, 0)),
     Queues(<<r2, r3>>, <<r1>>, At(0, 3, 2))}

(* No prediction, ones in support, and a short one out of it. *)
FourAnswers ==
    {[expected |-> Unset, in_support |-> FALSE], [expected |-> 1, in_support |-> FALSE]}
        \cup [expected : {1, 2}, in_support : {TRUE}]
=================================================================================
