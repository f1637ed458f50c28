------------------------------- MODULE PlanQueries -------------------------------
(***************************************************************************)
(* What the two pure planners are asked, and what is right of their answers. *)
(* A query is a snapshot together with either a recipe, asked once           *)
(* (TargetBatchPlanner.build), or a predictor, with which the budget of a few *)
(* frames is resolved while deadlines pass; the resolutions are what          *)
(* collect_resolution_summary is given.                                      *)
(***************************************************************************)
EXTENDS BudgetResolver

CONSTANTS RecipeSnapshots,  \* the snapshots asked for a recipe
          AskedRecipes,     \* the recipes
          FrameSnapshots,   \* the snapshots whose budget is resolved
          Slacks,           \* the time a decode may have until its deadline
          Answers,          \* what the predictor may say of a shadow plan
          Frames            \* bound: frames resolved

ASSUME QueriesAssumption ==
    /\ \A q \in AskedRecipes : IsRecipe(q)
    /\ Slacks \subseteq Int \cup {Unset}
    /\ \A q \in Answers : q.expected \in Nat \cup {Unset}
    /\ Frames \in Nat

VARIABLES snap,     \* the snapshot
          wanted,   \* the recipe asked of it, if any
          planned,  \* the target plan returned for it
          answers,  \* the predictor's answers to its shadow plans, if frames are resolved
          resolved  \* the resolutions of the frames so far

qvars == <<snap, wanted, planned, answers, resolved>>

NoRecipe == [kind |-> "none"]

(* The queues a scheduler can hold: each request in one place, and nothing   *)
(* computed of one that waits.                                               *)
Holdable(s) ==
    /\ s.running \in Seq(Requests) /\ s.waiting \in Seq(Requests)
    /\ IsInjective(s.running \o s.waiting)
    /\ Len(s.running) <= SequenceBudget
    /\ s.computed \in [Requests -> Nat]
    /\ \A r \in ToSet(s.waiting) : s.computed[r] = 0
    /\ s.used \in Nat

QueryInit ==
    /\ \/ snap \in RecipeSnapshots /\ answers = Unset
       \/ snap \in FrameSnapshots /\ answers \in [ShadowPlans(snap) -> Answers]
    /\ Holdable(snap)
    /\ wanted = NoRecipe /\ planned = NoWork /\ resolved = <<>>

Ask ==
    /\ answers = Unset
    /\ wanted = NoRecipe /\ wanted' \in AskedRecipes
    /\ planned' = BuildTargetPlan(snap, wanted')
    /\ UNCHANGED <<snap, answers, resolved>>

(* One frame: the deadlines are what time left of them. *)
Frame ==
    /\ answers # Unset
    /\ Len(resolved) < Frames
    /\ \E slack \in [Decodes(snap) -> Slacks], complete \in BOOLEAN :
          resolved' = Append(resolved, Resolve(snap, slack, answers, complete))
    /\ UNCHANGED <<snap, wanted, planned, answers>>

QueryNext == Ask \/ Frame

QuerySpec == QueryInit /\ [][QueryNext]_qvars

-----------------------------------------------------------------------------
(* A target plan passes every check that stands between it and the workers:  *)
(* the RuntimeErrors of build_target_plan (targeted_profile.py:588) and the  *)
(* validation of the adapter.  A block short, it shrinks and still fits.     *)
TargetsFit ==
    wanted # NoRecipe =>
        /\ Tokens(planned) <= TokenBudget
        /\ ProjectSequences(snap, planned) <= SequenceBudget
        /\ planned # NoWork => ProjectKv(snap, planned) <= TotalBlocks
        /\ \A i \in DOMAIN planned.prefill :
              planned.prefill[i][2] \in 1..Remaining(snap, planned.prefill[i][1])
        /\ planned.decode \subseteq Decodes(snap)

(* Before its KV fit, the shape of a plan has exactly the tokens the recipe  *)
(* asks for, or all that the selected prompts still need: neither            *)
(* distribution loses or invents a token, and a skewed one favours its first.*)
TargetsAreExact ==
    wanted # NoRecipe /\ wanted.kind # "decode_only" /\ Offers(snap, wanted) =>
        LET budget == PrefillBudget(snap, wanted)
            prompts == ToSet(SelectPrefills(snap, wanted, budget))
            needed == SumFunction([r \in prompts |-> Remaining(snap, r)])
            items == Shape(snap, wanted).items
        IN /\ PrefillTokens(Work(items, {})) = Smaller(budget, needed)
           /\ \A i \in DOMAIN items : items[i][2] \in 1..Remaining(snap, items[i][1])
           /\ wanted.distribution = "skewed" =>
                 \A i \in DOMAIN items :
                    items[1][2] = Remaining(snap, items[1][1]) \/ items[1][2] >= items[i][2]

(* A prompt of the state the recipe prefers is left out only for one of that *)
(* state, or because it has no sequence slot.                                *)
PreferredFirst ==
    wanted # NoRecipe /\ wanted.kind # "decode_only" /\ Offers(snap, wanted) =>
        LET chosen == ToSet(SelectPrefills(snap, wanted, PrefillBudget(snap, wanted)))
        IN \A r \in Prefills(snap) \ chosen, x \in chosen :
              \/ StateRank(snap, wanted, r) >= StateRank(snap, wanted, x)
              \/ /\ r \in ToSet(snap.waiting)
                 /\ Cardinality(chosen \cap ToSet(snap.waiting)) = NewSlots(snap)

(* What build_target_plan returns is the recipe's batch. *)
TargetsAreRight == TargetsFit /\ TargetsAreExact /\ PreferredFirst

(* A budget found by inversion is what the shadow plan of some grid budget   *)
(* really serves, that plan is predicted to end within the target, and no    *)
(* plan of the sweep that serves more is.  The predictor need not be         *)
(* monotone.  It is called in support (budget_resolver.py:468) only if every *)
(* prediction within the target is; the converse does not hold, as one that  *)
(* is beyond the target counts too.                                          *)
InversionIsExact ==
    resolved # <<>> =>
        LET x == Last(resolved)
            Ends(w) == answers[w].expected # Unset /\ answers[w].expected \in 1..x.target
        IN x.status \in {"INVERTED_OK", "INVERTED_OOD"} =>
               /\ \E w \in DOMAIN answers : Served(w) = x.base /\ Ends(w)
               /\ \A w \in DOMAIN answers : Served(w) > x.base => ~Ends(w)
               /\ x.base <= x.ceiling
               /\ x.status = "INVERTED_OK" =>
                     \A w \in DOMAIN answers : Ends(w) => answers[w].in_support

(* While a deadline is ahead, a closer one never buys a larger budget.       *)
CloserNeverMore ==
    resolved = <<>> /\ answers # Unset =>
    \A a, b \in [Decodes(snap) -> Slacks] :
        /\ LiveSlacks(snap, a) # {} /\ LiveSlacks(snap, b) # {}
        /\ Min(LiveSlacks(snap, a)) <= Min(LiveSlacks(snap, b))
        => Resolve(snap, a, answers, TRUE).base <= Resolve(snap, b, answers, TRUE).base

(* The summary counts every frame under one status, and at least half and at *)
(* least 95 percent of the budgets lie at or below its percentiles.          *)
SummaryAccounts ==
    resolved # <<>> =>
        LET x == Summary(resolved)
            AtMost(n) == Cardinality({i \in DOMAIN resolved : resolved[i].base <= n})
        IN /\ SumFunction(x.counts) = x.frames
           /\ x.min <= x.p50 /\ x.p50 <= x.p95 /\ x.p95 <= x.max
           /\ 2 * AtMost(x.p50) >= x.frames /\ 100 * AtMost(x.p95) >= 95 * x.frames

(* What the resolver returns, and what is reported of it, is the largest     *)
(* budget that ends in time.                                                 *)
BudgetsAreRight == InversionIsExact /\ SummaryAccounts
=============================================================================
