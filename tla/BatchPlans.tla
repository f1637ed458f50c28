------------------------------- MODULE BatchPlans -------------------------------
(***************************************************************************)
(* The planning stages of one scheduling round, as functions of a snapshot: *)
(* candidate generation (candidate_generator.py), resource checks           *)
(* (safe_set.py), the fallback (fallback.py) and what the selector may pick. *)
(*                                                                         *)
(* A snapshot is a record of the scheduler's two queues and the tokens it   *)
(* has computed per request:                                                *)
(*   running, waiting : sequences of requests, in queue order               *)
(*   computed[r]      : num_computed_tokens                                 *)
(*   used             : KV blocks in use                                    *)
(* A plan is the work of a BatchPlan: its prefill items, in order, and the  *)
(* set of decodes.  Plans of equal work are one candidate, as in the code's *)
(* deduplication; labels (P10, STOCK, ...) play no further part.  The empty *)
(* work also stands for "no plan".                                          *)
(***************************************************************************)
EXTENDS Integers, FiniteSets, SequencesExt

CONSTANTS Requests,        \* request ids
          Prompt,          \* prompt length of each request, in tokens
          Arrival,         \* arrival_time of each request, stamped by the frontend
          BlockSize,       \* tokens per KV block
          TotalBlocks,     \* KV blocks that can be allocated
          TokenBudget,     \* max_num_scheduled_tokens
          SequenceBudget,  \* max_num_running_reqs
          MinChunk,        \* minimum_prefill_chunk_tokens
          RollingHorizon,  \* rolling_kv_horizon_iterations
          ReserveBlocks    \* reserve_blocks_r0

ASSUME BatchAssumption ==
    /\ IsFiniteSet(Requests)
    /\ Prompt \in [Requests -> Nat \ {0}]
    /\ Arrival \in [Requests -> Nat]
    /\ BlockSize \in Nat \ {0}
    /\ {TotalBlocks, TokenBudget, SequenceBudget, MinChunk} \subseteq Nat \ {0}
    /\ {RollingHorizon, ReserveBlocks} \subseteq Nat

Smaller(a, b) == IF a <= b THEN a ELSE b

(* The members of S that a sequence holds, in its order. *)
Keep(queue, S) ==
    FoldLeft(LAMBDA kept, r : IF r \in S THEN Append(kept, r) ELSE kept, <<>>, queue)

(* What a sequence of wants gets of a budget, in its order. *)
InTurn(wants, budget) ==
    [i \in DOMAIN wants |->
        LET ahead == SumFunction([k \in 1..(i - 1) |-> wants[k]])
        IN IF ahead < budget THEN Smaller(wants[i], budget - ahead) ELSE 0]

-----------------------------------------------------------------------------
(* The snapshot's requests. *)
Remaining(s, r) == Prompt[r] - s.computed[r]
Prefilling(s, r) == s.computed[r] < Prompt[r]

RunningSet(s) == ToSet(s.running)
Decodes(s) == {r \in RunningSet(s) : ~Prefilling(s, r)}
Prefills(s) == {r \in RunningSet(s) : Prefilling(s, r)} \cup ToSet(s.waiting)
Workload(s) == Decodes(s) \cup Prefills(s)

Work(prefill, decode) == [prefill |-> prefill, decode |-> decode]
NoWork == Work(<<>>, {})
PrefillIds(w) == {w.prefill[i][1] : i \in DOMAIN w.prefill}
Scheduled(w) == PrefillIds(w) \cup w.decode
PrefillTokens(w) == SumFunction([i \in DOMAIN w.prefill |-> w.prefill[i][2]])
Tokens(w) == PrefillTokens(w) + Cardinality(w.decode)

(* num_scheduled_tokens: a request has at most one item in a plan. *)
TokensOf(w, r) ==
    IF r \in w.decode THEN 1
    ELSE IF r \in PrefillIds(w)
    THEN w.prefill[CHOOSE i \in DOMAIN w.prefill : w.prefill[i][1] = r][2]
    ELSE 0

-----------------------------------------------------------------------------
(* project_kv_blocks and project_sequence_count. *)
Blocks(tokens) == (tokens + BlockSize - 1) \div BlockSize

NewBlocks(s, r, tokens) == Blocks(s.computed[r] + tokens) - Blocks(s.computed[r])

ProjectKv(s, w) ==
    s.used + SumFunction([r \in Scheduled(w) |-> NewBlocks(s, r, TokensOf(w, r))])

ProjectSequences(s, w) ==
    Len(s.running) + Cardinality(Scheduled(w) \cap ToSet(s.waiting))

-----------------------------------------------------------------------------
(* The requests of a queue by a key, then by arrival, then as they stand. *)
Position(queue, r) == CHOOSE i \in DOMAIN queue : queue[i] = r

Before(queue, key, r) ==
    {x \in ToSet(queue) :
        \/ key[x] < key[r]
        \/ key[x] = key[r] /\ Arrival[x] < Arrival[r]
        \/ /\ key[x] = key[r] /\ Arrival[x] = Arrival[r]
           /\ Position(queue, x) < Position(queue, r)}

InOrder(queue, key) ==
    [i \in DOMAIN queue |->
        CHOOSE r \in ToSet(queue) : Cardinality(Before(queue, key, r)) = i - 1]

ByArrival(queue) == InOrder(queue, [r \in ToSet(queue) |-> 0])

(* rank_prefill_requests: running prompts first, then waiting ones by arrival. *)
RankPrefill(s) == Keep(s.running, Prefills(s)) \o ByArrival(s.waiting)

NewSlots(s) == IF Len(s.running) < SequenceBudget THEN SequenceBudget - Len(s.running) ELSE 0

(* kv_clamp: the most tokens of r that fit beside items and every decode. *)
KvClamp(s, items, r, requested) ==
    Max({0} \cup {n \in 1..requested :
                    ProjectKv(s, Work(Append(items, <<r, n>>), Decodes(s))) <= TotalBlocks})

(* One turn of the loop of _fill_prefill; done is what the items consume. *)
FillStep(s, budget, items, r) ==
    LET done == PrefillTokens(Work(items, {}))
        admitted == Cardinality(PrefillIds(Work(items, {})) \cap ToSet(s.waiting))
        available == KvClamp(s, items, r, Smaller(Remaining(s, r), budget - done))
    IN IF \/ done >= budget
          \/ r \in ToSet(s.waiting) /\ admitted >= NewSlots(s)
          \/ available = 0
          \/ available < Remaining(s, r) /\ available < MinChunk
       THEN items
       ELSE Append(items, <<r, available>>)

FillPrefill(s, budget) ==
    FoldLeft(LAMBDA items, r : FillStep(s, budget, items, r), <<>>, RankPrefill(s))

(* derive_candidate_budgets: the fractions 10%..100%, floored.  (The code   *)
(* multiplies floats; for the prompt sizes here both floors agree.)         *)
Budgets(s) ==
    LET backlog == SumFunction([r \in Prefills(s) |-> Remaining(s, r)])
        room == TokenBudget - Cardinality(Decodes(s))
        maximum == IF room <= 0 THEN 0 ELSE Smaller(backlog, room)
    IN {(maximum * k) \div 10 : k \in 1..10} \ {0}

-----------------------------------------------------------------------------
(* build_stock_plan.  A running request that does not fit is passed over;   *)
(* the first waiting one that does not fit ends the plan.                   *)
StockFits(s, w) ==
    ProjectSequences(s, w) <= SequenceBudget /\ ProjectKv(s, w) <= TotalBlocks

WithRequest(s, w, r) ==
    IF Prefilling(s, r)
    THEN [w EXCEPT !.prefill =
             Append(@, <<r, Smaller(Remaining(s, r), TokenBudget - Tokens(w))>>)]
    ELSE [w EXCEPT !.decode = @ \cup {r}]

StockRunning(s) ==
    FoldLeft(LAMBDA w, r :
                IF Tokens(w) < TokenBudget /\ StockFits(s, WithRequest(s, w, r))
                THEN WithRequest(s, w, r)
                ELSE w,
             NoWork, s.running)

(* As many waiting requests, in the order of the queue, as still fit. *)
AddWaiting(s, w, queue) ==
    FoldLeft(LAMBDA acc, r :
                IF acc.open /\ Tokens(acc.work) < TokenBudget
                   /\ StockFits(s, WithRequest(s, acc.work, r))
                THEN [acc EXCEPT !.work = WithRequest(s, @, r)]
                ELSE [acc EXCEPT !.open = FALSE],
             [work |-> w, open |-> TRUE], queue).work

BuildStockPlan(s) == AddWaiting(s, StockRunning(s), ByArrival(s.waiting))

Zero(s) == Work(<<>>, Decodes(s))

(* CandidateGenerator.generate: ZERO, the fractions and STOCK, deduplicated. *)
Generate(s) ==
    IF Workload(s) = {} THEN {}
    ELSE {Zero(s), BuildStockPlan(s)}
            \cup {Work(FillPrefill(s, b), Decodes(s)) : b \in Budgets(s)}

-----------------------------------------------------------------------------
(* rolling_kv_reserve_blocks: bounded growth of the plan's decodes and of   *)
(* the prompts it completes.                                                *)
RollingReserve(s, w) ==
    LET completed == {r \in Prefills(s) : TokensOf(w, r) >= Remaining(s, r)}
        context(r) == IF r \in completed THEN Prompt[r] ELSE s.computed[r] + TokensOf(w, r)
    IN SumFunction([r \in Decodes(s) \cup completed |->
                       Blocks(context(r) + RollingHorizon) - Blocks(context(r))])

(* hard_rejection_reasons, the physical ones: token and sequence budgets,   *)
(* current and rolling KV.                                                  *)
Fits(s, w) ==
    /\ Tokens(w) <= TokenBudget
    /\ ProjectSequences(s, w) <= SequenceBudget
    /\ ProjectKv(s, w) <= TotalBlocks
    /\ ProjectKv(s, w) + ReserveBlocks + RollingReserve(s, w) <= TotalBlocks

(* ResourceAndRiskSafeSet.filter: feasible and validly predicted.  An empty *)
(* plan has no predictor model (build_plan_features), so it is never safe.  *)
(* A slip admits it.                                                         *)
SafeSetWithEmpty(s, plans, invalid) == {w \in plans \ invalid : Fits(s, w)}

SafeSet(s, plans, invalid) == {w \in plans \ (invalid \cup {NoWork}) : Fits(s, w)}

(* _zero_reference: a full-decode, zero-prefill candidate must be safe while *)
(* an active TBT obligation needs a baseline.                                *)
ReferenceMissing(s, safe, tbt_obligations) ==
    tbt_obligations # {} /\ Zero(s) \notin safe

(* What the two-stage selector may pick, over all predicted durations: with  *)
(* no TBT obligation every safe plan competes, and prefill service beats     *)
(* none; with one, stage 1 may have filtered the plans that serve prefill.   *)
MaySelect(safe, tbt_obligations, w) ==
    /\ w \in safe
    /\ w.prefill = <<>> /\ tbt_obligations = {} => \A v \in safe : v.prefill = <<>>

-----------------------------------------------------------------------------
(* highest_bindable_prefill, as a set of at most one request. *)
Bindable(s) ==
    LET able == {i \in DOMAIN RankPrefill(s) :
                    RankPrefill(s)[i] \in RunningSet(s) \/ Len(s.running) < SequenceBudget}
    IN {RankPrefill(s)[i] : i \in {k \in able : \A j \in able : k <= j}}

(* DeterministicFallback.build: as many decodes as the token budget takes,   *)
(* earliest deadline first (deadlines are arbitrary here, so any choice),    *)
(* and none if one that is due for recovery stays out; without decodes, one  *)
(* minimum chunk of the highest bindable prompt.                             *)
FallbackDecode(s, mandatory) ==
    {IF mandatory \subseteq chosen THEN Work(<<>>, chosen) ELSE NoWork : chosen \in
        {d \in SUBSET Decodes(s) :
            Cardinality(d) = Smaller(TokenBudget, Cardinality(Decodes(s)))}}

FallbackPrefill(s) ==
    {Work(<<<<r, Smaller(Remaining(s, r), MinChunk)>>>>, {}) :
        r \in {x \in Bindable(s) : Smaller(Remaining(s, x), MinChunk) <= TokenBudget}}

(* The plans Fallback may build; none stands as the empty work. *)
FallbackPlans(s, mandatory) ==
    LET built == IF Decodes(s) # {} THEN FallbackDecode(s, mandatory) ELSE FallbackPrefill(s)
    IN IF built = {} THEN {NoWork} ELSE built

-----------------------------------------------------------------------------
(* vLLM's own schedule(), which the adapter calls for native progress:       *)
(* running requests in order, preempting from the back of the queue until    *)
(* the blocks suffice, then waiting ones if nothing was preempted.           *)
NativeRunning(s, kept) ==
    FoldLeft(LAMBDA w, r : IF Tokens(w) < TokenBudget THEN WithRequest(s, w, r) ELSE w,
             NoWork, kept)

NativeKept(s) ==
    LET front(k) == SubSeq(s.running, 1, k)
        released(k) == SumFunction([r \in RunningSet(s) \ ToSet(front(k)) |->
                                       Blocks(s.computed[r])])
        enough == {k \in 0..Len(s.running) :
                     ProjectKv(s, NativeRunning(s, front(k))) - released(k) <= TotalBlocks}
    IN front(Max(enough))

NativePlan(s) ==
    LET w == NativeRunning(s, NativeKept(s)) IN
    IF NativeKept(s) = s.running THEN AddWaiting(s, w, s.waiting) ELSE w
=============================================================================
