------------------------------- MODULE TargetPlans -------------------------------
(***************************************************************************)
(* The target planner of targeted_profile.py: the batch a profiling recipe  *)
(* asks for, fitted to the requests a snapshot offers.                      *)
(*                                                                         *)
(* A recipe is a record of                                                  *)
(*   kind         : batch_kind, "prefill_only", "decode_only" or "mixed"    *)
(*   tokens       : prefill_token_cap                                       *)
(*   prefills     : prefill_request_cap                                     *)
(*   decodes      : decode_request_cap                                      *)
(*   state        : prefill_state, "fresh", "partial", "any" or "none"      *)
(*   distribution : prefill_distribution, "balanced" or "skewed"            *)
(*   context      : decode_context, "short", "long", "mixed", or another,   *)
(*                  which orders as "short" does                            *)
(*   strict       : strict_shape                                            *)
(* Snapshots, plans and the KV projection are those of module BatchPlans.   *)
(***************************************************************************)
EXTENDS BatchPlans

IsRecipe(q) ==
    /\ q.kind \in {"prefill_only", "decode_only", "mixed"}
    /\ {q.tokens, q.prefills, q.decodes} \subseteq Nat
    /\ q.state \in {"fresh", "partial", "any", "none"}
    /\ q.distribution \in {"balanced", "skewed"}
    /\ q.context \in {"short", "long", "mixed", "measured", "none"}
    /\ q.strict \in BOOLEAN

(* The requests of a set by a key, then by arrival and ordinal: the place in  *)
(* the running queue, then in the waiting one.                               *)
SortBy(s, requests, key) == InOrder(Keep(s.running \o s.waiting, requests), key)

-----------------------------------------------------------------------------
(* _prefill_order: prompts of the state the recipe prefers come first. *)
StateRank(s, recipe, r) ==
    IF \/ recipe.state = "fresh" /\ s.computed[r] > 0
       \/ recipe.state = "partial" /\ s.computed[r] = 0
    THEN 1 ELSE 0

(* A slip: the order of arrival alone. *)
PrefillOrderByArrival(s, recipe) == SortBy(s, Prefills(s), [r \in Prefills(s) |-> 0])

PrefillOrder(s, recipe) ==
    SortBy(s, Prefills(s), [r \in Prefills(s) |-> StateRank(s, recipe, r)])

(* _select_prefills: the first prompts of the order, the waiting ones while  *)
(* sequence slots last.  (A request limit of zero still takes one, for the   *)
(* code tests the limit after it appends.)                                   *)
SelectPrefills(s, recipe, cap) ==
    LET order == PrefillOrder(s, recipe)
        new == Keep(order, ToSet(s.waiting))
        barred == ToSet(SubSeq(new, NewSlots(s) + 1, Len(new)))
        able == Keep(order, ToSet(order) \ barred)
        limit == IF Smaller(recipe.prefills, cap) > 1 THEN Smaller(recipe.prefills, cap) ELSE 1
    IN IF cap <= 0 THEN <<>> ELSE SubSeq(able, 1, Smaller(Len(able), limit))

(* _decode_order: by context, ascending, descending, or from both ends. *)
DecodeOrder(s, recipe) ==
    LET short == SortBy(s, Decodes(s), s.computed)
        n == Len(short)
    IN CASE recipe.context = "long" -> Reverse(short)
         [] recipe.context = "mixed" ->
              [i \in 1..n |-> IF i % 2 = 1 THEN short[(i + 1) \div 2]
                              ELSE short[n + 1 - i \div 2]]
         [] OTHER -> short

-----------------------------------------------------------------------------
(* One pass of the while loop of _balanced_capacities over the active        *)
(* entries: the share is fixed at the start of the pass.                     *)
BalancedPass(capacities, allocations, active, total) ==
    LET remaining == total - SumFunction(allocations)
        share == (remaining + Cardinality(active) - 1) \div Cardinality(active)
        wants == [i \in DOMAIN capacities |->
                     IF i \in active THEN Smaller(capacities[i] - allocations[i], share) ELSE 0]
        granted == InTurn(wants, remaining)
    IN IF remaining = 0 \/ active = {} THEN allocations
       ELSE [i \in DOMAIN capacities |-> allocations[i] + granted[i]]

(* A slip: one pass is taken to be enough. *)
BalancedCapacitiesOnePass(capacities, total) ==
    BalancedPass(capacities, [i \in DOMAIN capacities |-> 0], DOMAIN capacities,
                 Smaller(total, SumFunction(capacities)))

(* _balanced_capacities: every entry is active in the first pass, the ones    *)
(* with room in the others.  A pass that leaves tokens over retires an entry, *)
(* so as many passes as entries are enough.                                   *)
BalancedCapacities(capacities, total) ==
    FoldLeft(LAMBDA acc, pass :
                BalancedPass(capacities, acc,
                             {i \in DOMAIN capacities : pass = 1 \/ acc[i] < capacities[i]},
                             Smaller(total, SumFunction(capacities))),
             [i \in DOMAIN capacities |-> 0], [i \in DOMAIN capacities |-> i])

(* The skewed distribution: a token each, three quarters of the rest to the  *)
(* first prompt, and what remains balanced over all of them.                 *)
Skewed(room, total) ==
    LET rest == total - Len(room)
        heavy == Smaller(room[1] - 1, (rest * 3 + 3) \div 4)
        base == [i \in DOMAIN room |-> IF i = 1 THEN 1 + heavy ELSE 1]
        extra == BalancedCapacities([i \in DOMAIN room |-> room[i] - base[i]], rest - heavy)
    IN [i \in DOMAIN room |-> base[i] + extra[i]]

(* _allocate_prefill_tokens *)
AllocatePrefillTokens(s, requests, cap, distribution) ==
    LET room == [i \in DOMAIN requests |-> Remaining(s, requests[i])]
        total == Smaller(cap, SumFunction(room))
        given == IF distribution = "balanced" \/ Len(requests) = 1
                 THEN BalancedCapacities(room, total) ELSE Skewed(room, total)
        items == [i \in DOMAIN requests |-> <<requests[i], given[i]>>]
    IN Keep(items, {item \in ToSet(items) : item[2] > 0})

-----------------------------------------------------------------------------
(* One reduction of _fit_kv_capacity: a block off the largest prefill item   *)
(* (the first of equal ones), or the last decode once no item is left.       *)
LargestItem(items) ==
    CHOOSE i \in DOMAIN items :
        \A k \in DOMAIN items :
            \/ items[k][2] < items[i][2]
            \/ items[k][2] = items[i][2] /\ i <= k

ReduceOnce(items, decodes) ==
    LET i == LargestItem(items)
    IN IF items = <<>> THEN [items |-> items, decodes |-> Front(decodes)]
       ELSE IF items[i][2] <= BlockSize
       THEN [items |-> Keep(items, ToSet(items) \ {items[i]}), decodes |-> decodes]
       ELSE [items |-> [items EXCEPT ![i] = <<@[1], @[2] - BlockSize>>], decodes |-> decodes]

(* _fit_kv_capacity: at most one reduction per token planned.  A slip leaves *)
(* the plan as it is.                                                        *)
FitKvCapacityNever(s, items, decodes) == [items |-> items, decodes |-> decodes]

FitKvCapacity(s, items, decodes) ==
    LET Fitting(p) == ProjectKv(s, Work(p.items, ToSet(p.decodes))) <= TotalBlocks
        most == PrefillTokens(Work(items, {})) + Len(decodes)
    IN FoldLeft(LAMBDA p, i :
                   IF p.items \o p.decodes = <<>> \/ Fitting(p) THEN p
                   ELSE ReduceOnce(p.items, p.decodes),
                [items |-> items, decodes |-> decodes], [i \in 1..most |-> i])

(* The decodes of a plan: none if the recipe wants none; a strict recipe is  *)
(* not served with fewer than it asks for.                                   *)
DecodeLimit(s, recipe) ==
    IF recipe.kind = "prefill_only" THEN 0
    ELSE Smaller(Smaller(recipe.decodes, Cardinality(Decodes(s))),
                 TokenBudget - (IF recipe.kind = "mixed" THEN 1 ELSE 0))

PrefillBudget(s, recipe) == Smaller(recipe.tokens, TokenBudget - DecodeLimit(s, recipe))

(* build_target_plan before its token counts: is there a plan at all? *)
Offers(s, recipe) ==
    LET prompts == SelectPrefills(s, recipe, PrefillBudget(s, recipe)) IN
    /\ recipe.kind # "prefill_only" =>
          /\ DecodeLimit(s, recipe) > 0
          /\ recipe.strict => DecodeLimit(s, recipe) = recipe.decodes
    /\ recipe.kind # "decode_only" =>
          /\ prompts # <<>>
          /\ recipe.strict => Len(prompts) >= recipe.prefills

(* The plan before its KV fit. *)
Shape(s, recipe) ==
    LET budget == PrefillBudget(s, recipe)
        prompts == SelectPrefills(s, recipe, budget)
    IN [items |-> IF recipe.kind = "decode_only" THEN <<>>
                  ELSE AllocatePrefillTokens(s, prompts, budget, recipe.distribution),
        decodes |-> SubSeq(DecodeOrder(s, recipe), 1, DecodeLimit(s, recipe))]

(* build_target_plan; the empty work stands for None. *)
BuildTargetPlan(s, recipe) ==
    LET shape == Shape(s, recipe)
        fitted == FitKvCapacity(s, shape.items, shape.decodes)
    IN IF /\ Offers(s, recipe)
          /\ recipe.kind # "decode_only" => fitted.items # <<>>
          /\ recipe.kind # "prefill_only" => fitted.decodes # <<>>
       THEN Work(fitted.items, ToSet(fitted.decodes))
       ELSE NoWork
=============================================================================
