------------------------------ MODULE BudgetResolver ------------------------------
(***************************************************************************)
(* The prefill budget of budget_resolver.py: the most prompt tokens that,   *)
(* by the duration predictor, still end before the earliest live TBT        *)
(* deadline.  The resolver is a function of the snapshot, of the time each  *)
(* decode has until its deadline, and of the predictor's answers.           *)
(*   slack[r]   : deadline minus timestamp of a decode, or Unset            *)
(*   answer[w]  : prediction of the shadow plan with prefill items w,       *)
(*                [expected, in_support], expected perhaps Unset            *)
(*   complete   : did the predictor answer for every plan?                  *)
(***************************************************************************)
EXTENDS TargetPlans

CONSTANTS Grid,           \* budget_grid, a set of budgets
          SafetyMargin,   \* safety_margin_seconds
          AllowPartial,   \* allow_partial_prefill
          Unset           \* Python's None

ASSUME ResolverAssumption ==
    /\ Grid \subseteq Nat
    /\ SafetyMargin \in Nat \ {0}
    /\ AllowPartial \in BOOLEAN

Statuses == {"INVERTED_OK", "INVERTED_OOD", "NO_FEASIBLE_BUDGET", "NO_DECODE_USE_MAX",
             "NO_DECODE_NO_BACKLOG", "PREDICTOR_INVALID"}

(* BudgetResolution; an Unset target or ratio is one the code leaves unset.    *)
(* The ratio is the pair of its numerator and denominator.                   *)
Resolution(base, status, ceiling, target, actual, feasible, ratio) ==
    [base |-> base, status |-> status, ceiling |-> ceiling, target |-> target,
     actual |-> actual, feasible |-> feasible, ratio |-> ratio]

Backlog(s) == SumFunction([r \in Prefills(s) |-> Remaining(s, r)])

MaxExecutablePrefill(s) ==
    Max({0, Smaller(Backlog(s), TokenBudget - Cardinality(Decodes(s)))})

(* derive_executable_inversion_grid *)
ExecutableGrid(ceiling) ==
    IF ceiling <= 0 THEN {0} ELSE {Smaller(b, ceiling) : b \in Grid} \cup {ceiling}

(* _continuation_order: running prompts by arrival, then waiting ones. *)
ContinuationOrder(s) ==
    SortBy(s, Prefills(s), [r \in Prefills(s) |-> IF r \in RunningSet(s) THEN 0 ELSE 1])

(* _shadow_fill: like _fill_prefill, without the KV blocks. *)
ShadowStep(s, budget, items, r) ==
    LET done == PrefillTokens(Work(items, {}))
        admitted == Cardinality(Scheduled(Work(items, {})) \cap ToSet(s.waiting))
        available == Smaller(Remaining(s, r), budget - done)
    IN IF \/ r \in ToSet(s.waiting) /\ admitted >= NewSlots(s)
          \/ available <= 0
          \/ available < Remaining(s, r) /\ (~AllowPartial \/ available < MinChunk)
       THEN items
       ELSE Append(items, <<r, available>>)

ShadowFill(s, budget) ==
    FoldLeft(LAMBDA items, r : ShadowStep(s, budget, items, r), <<>>, ContinuationOrder(s))

(* The shadow plans of the sweep, by budget, and what they serve. *)
ShadowPlans(s) == {ShadowFill(s, b) : b \in ExecutableGrid(MaxExecutablePrefill(s))}
Served(items) == PrefillTokens(Work(items, {}))

-----------------------------------------------------------------------------
(* The deadlines still ahead. *)
LiveSlacks(s, slack) ==
    {slack[r] : r \in {x \in Decodes(s) : slack[x] # Unset /\ slack[x] > 0}}

(* A slip: the latest deadline decides. *)
TargetDurationLatest(live) == Max({0, Max(live) - SafetyMargin})

TargetDuration(live) == Max({0, Min(live) - SafetyMargin})

(* _is_feasible.  A slip: any positive prediction is. *)
IsFeasiblePositive(prediction, target) == prediction.expected # Unset /\ prediction.expected > 0

IsFeasible(prediction, target) ==
    /\ prediction.expected # Unset
    /\ prediction.expected > 0
    /\ prediction.expected <= target

(* The requests of the sweep, one per grid budget, that are in support.      *)
(* A slip counts every plan that has a prediction.                           *)
SupportedPredicted(s, answer) ==
    {b \in ExecutableGrid(MaxExecutablePrefill(s)) : answer[ShadowFill(s, b)].expected # Unset}

Supported(s, answer) ==
    {b \in ExecutableGrid(MaxExecutablePrefill(s)) : answer[ShadowFill(s, b)].in_support}

(* _invert after the predictor has answered for every plan. *)
Inverted(s, target, answer) ==
    LET ceiling == MaxExecutablePrefill(s)
        grid == ExecutableGrid(ceiling)
        actual == {Served(w) : w \in ShadowPlans(s)}
        feasible == {Served(w) : w \in {v \in ShadowPlans(s) : IsFeasible(answer[v], target)}}
        ratio == <<Cardinality(Supported(s, answer)), Cardinality(grid)>>
    IN IF feasible = {}
       THEN Resolution(0, "NO_FEASIBLE_BUDGET", ceiling, target, actual, {}, ratio)
       ELSE Resolution(Max(feasible),
                       IF Supported(s, answer) = grid THEN "INVERTED_OK" ELSE "INVERTED_OOD",
                       ceiling, target, actual, feasible, ratio)

(* _invert *)
Invert(s, target, answer, complete) ==
    LET ceiling == MaxExecutablePrefill(s)
        actual == {Served(w) : w \in ShadowPlans(s)}
    IN IF ceiling = 0 THEN Resolution(0, "NO_FEASIBLE_BUDGET", 0, target, {}, {}, Unset)
       ELSE IF ~complete THEN Resolution(0, "PREDICTOR_INVALID", ceiling, target, actual, {}, Unset)
       ELSE Inverted(s, target, answer)

(* RidgeBudgetResolver.resolve *)
Resolve(s, slack, answer, complete) ==
    LET ceiling == MaxExecutablePrefill(s)
        live == LiveSlacks(s, slack)
    IN IF Decodes(s) = {} /\ Backlog(s) = 0
       THEN Resolution(0, "NO_DECODE_NO_BACKLOG", 0, Unset, {}, {}, Unset)
       ELSE IF live = {}
       THEN Resolution(ceiling, "NO_DECODE_USE_MAX", ceiling, Unset, {}, {}, Unset)
       ELSE Invert(s, TargetDuration(live), answer, complete)

-----------------------------------------------------------------------------
(* _percentile of an ordered sequence, percent out of 100.  A slip rounds    *)
(* the rank down.                                                            *)
PercentileFloor(ordered, percent) ==
    ordered[Max({1, Smaller(Len(ordered), (percent * Len(ordered)) \div 100)})]

Percentile(ordered, percent) ==
    ordered[Max({1, Smaller(Len(ordered), (percent * Len(ordered) + 99) \div 100)})]

(* The k-th of the sorted budgets of a sequence of resolutions. *)
KthBudget(values, k) ==
    CHOOSE b \in {values[i].base : i \in DOMAIN values} :
        /\ Cardinality({i \in DOMAIN values : values[i].base < b}) < k
        /\ Cardinality({i \in DOMAIN values : values[i].base <= b}) >= k

(* collect_resolution_summary of a nonempty sequence of resolutions. *)
Summary(values) ==
    LET ordered == [k \in DOMAIN values |-> KthBudget(values, k)]
    IN [frames |-> Len(values),
        counts |-> [x \in Statuses |-> Cardinality({i \in DOMAIN values : values[i].status = x})],
        min |-> Head(ordered), p50 |-> Percentile(ordered, 50),
        p95 |-> Percentile(ordered, 95), max |-> Last(ordered),
        supported |-> {i \in DOMAIN values : values[i].ratio # Unset}]
=============================================================================
