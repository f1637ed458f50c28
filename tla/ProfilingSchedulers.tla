--------------------------- MODULE ProfilingSchedulers ---------------------------
(***************************************************************************)
(* The three profiling schedulers of vllm_adapter.py that run a natural     *)
(* workload, and the measurement each makes of its iterations:              *)
(*   "stock"      StockProfilingScheduler: vLLM's own batches, recorded     *)
(*   "targeted"   TargetedProfilingScheduler: the batches of a list of      *)
(*                recipes, executed exactly, and stock ones in between      *)
(*   "evaluation" PredictorEvaluationScheduler: the same, predicted online; *)
(*                its rows carry the duration that the timing bridge        *)
(*                reports, and the predictor learns from it                 *)
(* A row of the first two is written by schedule() and meets its duration   *)
(* later, by index, in vLLM's log; a row of the third is written by         *)
(* update_from_output().  Durations are abstracted to the number of the     *)
(* iteration they measure, predictions to their support and to how many     *)
(* residuals of the batch kind they rest on.                                *)
(***************************************************************************)
EXTENDS TargetPlans

CONSTANTS Schedulers,      \* which of the three may run
          Recipes,         \* the sequence build_target_recipes returns
          Window,          \* capacity of a residual window
          MaxOutput,       \* max_tokens of every request
          MaxAborts,       \* bound: client aborts in a behaviour
          TimingFaults,    \* may the timing callback be lost, late, repeated or unofficial?
          None             \* Python's None

ASSUME ProfilingAssumption ==
    /\ Schedulers \subseteq {"stock", "targeted", "evaluation"}
    /\ Recipes \in Seq({Recipes[i] : i \in DOMAIN Recipes})
    /\ \A i \in DOMAIN Recipes : IsRecipe(Recipes[i])
    /\ {Window, MaxOutput} \subseteq Nat \ {0}
    /\ MaxAborts \in Nat
    /\ TimingFaults \in BOOLEAN

VARIABLES scheduler,          \* the class the engine was configured with
          waiting, running,   \* the scheduler's queues
          computed,           \* num_computed_tokens of each request
          outputs,            \* tokens each request has returned
          preempted,          \* requests whose status is PREEMPTED
          finished,           \* finished_req_ids, to be reported to the workers
          ended,              \* requests that finished or were aborted
          output,             \* the SchedulerOutput in flight
          official,           \* vLLM's iteration counter
          recipe,             \* index of the planner: recipes taken so far
          pending,            \* _predictor_eval_pending
          samples,            \* residuals the calibrator holds, by batch kind
          rows,               \* the profile's lines
          aborts,             \* client aborts so far
          fault               \* the exception that stopped the engine, if any

queues == <<waiting, running, computed, outputs, preempted, finished, ended>>
vars == <<scheduler, queues, output, official, recipe, pending, samples, rows, aborts, fault>>

Kinds == {"prefill_only", "decode_only", "mixed"}

Live == ToSet(waiting) \cup ToSet(running)
Drop(queue, S) == Keep(queue, ToSet(queue) \ S)

UsedBlocks == SumFunction([r \in ToSet(running) |-> Blocks(computed[r])])

Snapshot == [running |-> running, waiting |-> waiting, computed |-> computed,
             used |-> UsedBlocks]

Complete == recipe >= Len(Recipes)

Init ==
    /\ scheduler \in Schedulers
    /\ waiting = <<>> /\ running = <<>>
    /\ computed = [r \in Requests |-> 0]
    /\ outputs = [r \in Requests |-> 0]
    /\ preempted = {} /\ finished = {} /\ ended = {}
    /\ output = None
    /\ official = 0
    /\ recipe = 0
    /\ pending = None
    /\ samples = [k \in Kinds |-> 0]
    /\ rows = <<>>
    /\ aborts = 0
    /\ fault = "none"

Raise(what) == fault' = what /\ UNCHANGED <<queues, output>>

(* vLLM's add_request, between iterations. *)
AddRequest(r) ==
    /\ fault = "none" /\ output = None
    /\ r \notin Live \cup ended
    /\ waiting' = Append(waiting, r)
    /\ UNCHANGED <<running, computed, outputs, preempted, finished, ended,
                   output, official, recipe, pending, samples, rows, aborts, fault>>

Release(S) ==
    /\ waiting' = Drop(waiting, S)
    /\ running' = Drop(running, S)
    /\ preempted' = preempted \ S
    /\ finished' = finished \cup S
    /\ ended' = ended \cup S

(* vLLM's finish_requests: these schedulers do not see an abort. *)
Abort(r) ==
    /\ fault = "none"
    /\ r \in Live
    /\ aborts < MaxAborts
    /\ aborts' = aborts + 1
    /\ Release({r})
    /\ UNCHANGED <<computed, outputs, output, official, recipe, pending, samples, rows, fault>>

-----------------------------------------------------------------------------
(* capture_stock_profile_state: the stage of each request before the stock   *)
(* scheduler runs.  A slip judges a waiting request by its context alone.    *)
IsDecodePhase(r) == outputs[r] > 0 \/ computed[r] >= Prompt[r]

StageByContext(r) ==
    IF r \in ToSet(running)
    THEN IF computed[r] < Prompt[r] THEN "running_prefill" ELSE "running_decode"
    ELSE IF computed[r] = 0 THEN "waiting_prefill"
    ELSE "waiting_decode"

Stage(r) ==
    IF r \in ToSet(running)
    THEN IF computed[r] < Prompt[r] THEN "running_prefill" ELSE "running_decode"
    ELSE IF r \in preempted THEN "preempted"
    ELSE IF computed[r] = 0 /\ ~IsDecodePhase(r) THEN "waiting_prefill"
    ELSE IF IsDecodePhase(r) THEN "waiting_decode"
    ELSE "other_waiting"

InStage(stages) == {r \in Live : Stage(r) \in stages}

(* A selected request of a stock record: new ones and those without output   *)
(* are in the context phase, all others count as decodes.                    *)
StockPhase(r) == IF outputs[r] = 0 THEN "prefill" ELSE "decode"

(* ... and of an exact plan or of a shadow plan of a snapshot. *)
PlanPhase(r) == IF Prefilling(Snapshot, r) THEN "prefill" ELSE "decode"

BatchPhase(r) == IF scheduler = "evaluation" THEN PlanPhase(r) ELSE StockPhase(r)

SelectedRequest(r, phase, tokens) ==
    [id |-> r, phase |-> phase, context |-> computed[r], tokens |-> tokens]

Selected(tokens, phase(_)) ==
    {SelectedRequest(r, phase(r), tokens[r]) : r \in DOMAIN tokens}

(* _selected_shape and the predictor's classification of a batch. *)
KindOf(selected) ==
    LET phases == {x.phase : x \in selected}
    IN IF phases = {"prefill", "decode"} THEN "mixed"
       ELSE IF phases = {"prefill"} THEN "prefill_only" ELSE "decode_only"

-----------------------------------------------------------------------------
(* vLLM's schedule(): running requests in order, each with all the tokens it *)
(* lacks, preempting from the back of the queue until the blocks suffice;    *)
(* then waiting ones if nothing was preempted.  A request preempted while    *)
(* decoding computes its prompt and its output again.                        *)
Lacks(r) == Prompt[r] + outputs[r] - computed[r]

(* The tokens of the requests of a queue, and the blocks they then hold. *)
Grants(queue) ==
    LET given == InTurn([i \in DOMAIN queue |-> Lacks(queue[i])], TokenBudget)
        served == {i \in DOMAIN queue : given[i] > 0}
    IN [r \in {queue[i] : i \in served} |-> given[Position(queue, r)]]

Holding(queue) ==
    LET granted == Grants(queue)
    IN SumFunction([r \in ToSet(queue) |->
                       Blocks(computed[r] + IF r \in DOMAIN granted THEN granted[r] ELSE 0)])

Kept ==
    LET front(k) == SubSeq(running, 1, k)
    IN front(Max({k \in 0..Len(running) : Holding(front(k)) <= TotalBlocks}))

Admitted ==
    LET queue(k) == running \o SubSeq(waiting, 1, k)
        fits == {k \in 1..Len(waiting) :
                    /\ SumFunction(Grants(queue(k - 1))) < TokenBudget
                    /\ Len(running) + k <= SequenceBudget
                    /\ Holding(queue(k)) <= TotalBlocks}
    IN SubSeq(waiting, 1, Max({0} \cup fits))

StockQueue == IF Kept = running THEN running \o Admitted ELSE Kept
StockGrant == Grants(StockQueue)

InFlight(tokens) == [tokens |-> tokens, number |-> official, timed |-> FALSE]

(* The state after the stock schedule(). *)
ExecuteStock ==
    \E queue \in {StockQueue}, granted \in {StockGrant} :
    \E victims \in {ToSet(running) \ ToSet(queue)} :
        /\ running' = queue
        /\ waiting' = Keep(running, victims) \o Drop(waiting, ToSet(queue))
        /\ preempted' = (preempted \ ToSet(queue)) \cup victims
        /\ computed' = [r \in Requests |-> IF r \in victims THEN 0
                                           ELSE IF r \in DOMAIN granted THEN computed[r] + granted[r]
                                           ELSE computed[r]]
        /\ finished' = {}
        /\ output' = InFlight(granted)
        /\ UNCHANGED <<outputs, ended, fault>>

TokensIn(w) == [r \in Scheduled(w) |-> TokensOf(w, r)]

(* build_scheduler_output: the exact plan becomes vLLM's state. *)
ExecuteExact(s, w) ==
    IF \/ Tokens(w) > TokenBudget
       \/ ProjectSequences(s, w) > SequenceBudget
       \/ ProjectKv(s, w) > TotalBlocks
    THEN Raise("plan_rejected")
    ELSE \E admitted \in {Keep([i \in DOMAIN w.prefill |-> w.prefill[i][1]], ToSet(waiting))} :
            /\ running' = running \o admitted
            /\ waiting' = Drop(waiting, ToSet(admitted))
            /\ computed' = [r \in Requests |-> computed[r] + TokensOf(w, r)]
            /\ finished' = {}
            /\ output' = InFlight(TokensIn(w))
            /\ UNCHANGED <<outputs, preempted, ended, fault>>

-----------------------------------------------------------------------------
Row(index, role, about, measured, selected, before, learned) ==
    [index |-> index, role |-> role, about |-> about, measured |-> measured,
     selected |-> selected, before |-> before, learned |-> learned]

(* A row written by schedule(): its duration is the one vLLM logs under the  *)
(* same index.  A slip writes an empty iteration too.                        *)
WriteRowAlways(role, selected) ==
    rows' = Append(rows, Row(Len(rows), role, official, Len(rows), selected, 0, FALSE))

WriteRow(role, selected) ==
    IF selected = {} THEN UNCHANGED rows
    ELSE rows' = Append(rows, Row(Len(rows), role, official, Len(rows), selected, 0, FALSE))

(* The role of a stock batch.  A slip forgets that recipes remain. *)
SetupOrDrainLate == IF recipe > Len(Recipes) THEN "drain" ELSE "setup"

SetupOrDrain ==
    IF scheduler = "stock" THEN None ELSE IF Complete THEN "drain" ELSE "setup"

(* _prepare_pending and _bind_scheduler_output.  (A pending prediction would *)
(* raise; update_from_output has always cleared it: PredictedFromPriorRows.) *)
PreparePending(role, selected) ==
    IF selected = {} THEN UNCHANGED pending
    ELSE \E in_support \in BOOLEAN :
            pending' = [role |-> role, about |-> official, selected |-> selected,
                        in_support |-> in_support, before |-> samples[KindOf(selected)],
                        index |-> None, measured |-> None]

(* What a batch leaves behind at schedule(): a pending prediction or a row. *)
Record(role, selected) ==
    IF scheduler = "evaluation"
    THEN PreparePending(role, selected) /\ UNCHANGED rows
    ELSE WriteRow(role, selected) /\ UNCHANGED pending

(* Does the scheduler take a snapshot, and so refuse preempted requests?     *)
NeedsSnapshot == scheduler = "evaluation" \/ (scheduler = "targeted" /\ ~Complete)

(* The batch of the current recipe; the empty work if there is none yet. *)
Target ==
    IF scheduler = "stock" \/ Complete THEN NoWork
    ELSE BuildTargetPlan(Snapshot, Recipes[recipe + 1])

(* A slip: the planner stays at a recipe it has executed. *)
AdvanceNever == recipe

Advance == recipe + 1

(* schedule of the three classes. *)
Schedule ==
    /\ fault = "none" /\ output = None
    /\ Live # {} \/ finished # {}
    /\ UNCHANGED <<official, samples, aborts>>
    /\ IF NeedsSnapshot /\ preempted # {}
       THEN Raise("preempted_request") /\ UNCHANGED <<recipe, pending, rows>>
       ELSE \E w \in {Target} :
            IF w # NoWork
            THEN /\ ExecuteExact(Snapshot, w)
                 /\ recipe' = Advance
                 /\ Record("target", Selected(TokensIn(w), PlanPhase))
            ELSE /\ ExecuteStock
                 /\ UNCHANGED recipe
                 /\ Record(SetupOrDrain, Selected(StockGrant, BatchPhase))

-----------------------------------------------------------------------------
(* _dpp_record_iteration_duration of the evaluation scheduler, for the       *)
(* output with a given number; index is the official one, if there is one.   *)
RecordDurationOfAny(number, index) ==
    IF pending = None THEN fault' = "timing_without_plan" /\ UNCHANGED pending
    ELSE IF pending.measured # None THEN fault' = "timing_duplicate" /\ UNCHANGED pending
    ELSE /\ pending' = [pending EXCEPT !.index = index, !.measured = number]
         /\ UNCHANGED fault

RecordDuration(number, index) ==
    IF pending = None THEN fault' = "timing_without_plan" /\ UNCHANGED pending
    ELSE IF pending.about # number THEN fault' = "timing_mismatch" /\ UNCHANGED pending
    ELSE IF pending.measured # None THEN fault' = "timing_duplicate" /\ UNCHANGED pending
    ELSE /\ pending' = [pending EXCEPT !.index = index, !.measured = number]
         /\ UNCHANGED fault

(* What the bridge may report of the iteration in flight: its duration, or   *)
(* under TimingFaults nothing, one without an official index, or the one of  *)
(* the iteration before.                                                     *)
Reports ==
    {<<output.number, official>>}
        \cup (IF TimingFaults THEN {<<>>, <<output.number, None>>} ELSE {})
        \cup (IF TimingFaults /\ official > 0 THEN {<<output.number - 1, official>>} ELSE {})

(* The end of an iteration on the workers.  An empty one has no timing and   *)
(* is not counted.                                                           *)
EndIteration ==
    /\ fault = "none"
    /\ output # None /\ ~output.timed
    /\ output' = [output EXCEPT !.timed = TRUE]
    /\ IF DOMAIN output.tokens = {} THEN UNCHANGED <<official, pending, fault>>
       ELSE /\ official' = official + 1
            /\ IF scheduler # "evaluation" THEN UNCHANGED <<pending, fault>>
               ELSE \E report \in Reports :
                       IF report = <<>> THEN UNCHANGED <<pending, fault>>
                       ELSE RecordDuration(report[1], report[2])
    /\ UNCHANGED <<queues, recipe, samples, rows, aborts>>

(* The bridge reports the iteration a second time. *)
RepeatTiming ==
    /\ TimingFaults
    /\ fault = "none"
    /\ pending # None
    /\ output.timed
    /\ RecordDuration(output.number, official - 1)
    /\ UNCHANGED <<queues, output, official, recipe, samples, rows, aborts>>

-----------------------------------------------------------------------------
Returning == {r \in DOMAIN output.tokens \cap Live : computed[r] = Prompt[r] + outputs[r]}

(* vLLM's update_from_output: tokens are appended, stopped requests freed. *)
ReturnTokens ==
    \E stops \in SUBSET Returning :
        /\ \A r \in Returning : outputs[r] + 1 >= MaxOutput => r \in stops
        /\ Release(stops)
        /\ outputs' = [r \in Requests |-> IF r \in Returning THEN outputs[r] + 1 ELSE outputs[r]]
        /\ UNCHANGED computed

(* Why the evaluation scheduler may refuse the iteration's result. *)
Refusal ==
    IF pending = None
    THEN IF DOMAIN output.tokens # {} THEN "no_evaluation" ELSE "none"
    ELSE IF pending.measured = None THEN "timing_missing"
    ELSE IF pending.index = None THEN "timing_unofficial"
    ELSE IF pending.index # Len(rows) THEN "index_mismatch"
    ELSE "none"

(* A slip: the predictor observes a batch outside its support as well. *)
LearnsAlways == TRUE

Learns == pending.in_support

(* The row of a measured prediction, and what the predictor learns from it.  *)
Evaluate ==
    LET kind == KindOf(pending.selected) IN
    /\ pending' = None
    /\ rows' = Append(rows, Row(Len(rows), pending.role, pending.about, pending.measured,
                                pending.selected, pending.before, pending.in_support))
    /\ samples' = IF Learns THEN [samples EXCEPT ![kind] = Smaller(@ + 1, Window)] ELSE samples

(* update_from_output. *)
UpdateFromOutput ==
    /\ fault = "none"
    /\ output # None /\ output.timed
    /\ output' = None
    /\ ReturnTokens
    /\ IF scheduler # "evaluation" THEN UNCHANGED <<pending, rows, samples, fault>>
       ELSE IF Refusal # "none"
       THEN fault' = Refusal /\ pending' = None /\ UNCHANGED <<rows, samples>>
       ELSE IF pending = None THEN UNCHANGED <<pending, rows, samples, fault>>
       ELSE Evaluate /\ UNCHANGED fault
    /\ UNCHANGED <<official, recipe, aborts>>

Next ==
    /\ UNCHANGED scheduler
    /\ \/ Schedule \/ EndIteration \/ RepeatTiming \/ UpdateFromOutput
       \/ \E r \in Requests : AddRequest(r) \/ Abort(r)

Spec == Init /\ [][Next]_vars

-----------------------------------------------------------------------------
(* Every line of the profile is one iteration's and carries that iteration's *)
(* duration, in order and without a gap, whatever the timing bridge loses,   *)
(* delays or repeats and whoever is aborted: the merge with vLLM's log       *)
(* (predictor_profile.py:321) always finds equal index sets.                 *)
RowsAreTheirIterations ==
    /\ \A i \in DOMAIN rows :
          rows[i].index = i - 1 /\ rows[i].about = i - 1 /\ rows[i].measured = i - 1
    /\ fault = "none" /\ output = None => Len(rows) = official

(* A prediction rests on the residuals of earlier rows of its own kind and   *)
(* no others (test_window_replay_uses_only_prior_rows_and_selection_rule),   *)
(* and one is pending only for the batch in flight, so _prepare_pending      *)
(* never finds another (vllm_adapter.py:2196).                               *)
PredictedFromPriorRows ==
    /\ \A i \in DOMAIN rows :
          LET earlier == {k \in 1..(i - 1) :
                             /\ rows[k].learned
                             /\ KindOf(rows[k].selected) = KindOf(rows[i].selected)}
          IN rows[i].before = IF scheduler = "evaluation"
                              THEN Smaller(Cardinality(earlier), Window) ELSE 0
    /\ fault = "none" /\ pending # None =>
          /\ output # None /\ pending.about = output.number
          /\ {x.id : x \in pending.selected} = DOMAIN output.tokens

(* The targets of a profile are its recipes, each once and in their order,   *)
(* with setup batches before the last and drain batches only after it        *)
(* (validate_target_rows compares the very lists); no exact plan is refused. *)
RecipesInOrder ==
    LET targets == {i \in DOMAIN rows : rows[i].role = "target"}
        upTo(i) == Cardinality({k \in targets : k <= i})
    IN /\ fault # "plan_rejected"
       /\ \A i \in targets :
             upTo(i) <= Len(Recipes) /\ KindOf(rows[i].selected) = Recipes[upTo(i)].kind
       /\ fault = "none" /\ pending = None => Cardinality(targets) = recipe
       /\ scheduler # "stock" => \A i \in DOMAIN rows :
             rows[i].role = "drain" <=>
                 /\ Cardinality(targets) = Len(Recipes)
                 /\ \A k \in targets : k < i

(* The stages the stock profiler counts are those the live scheduler's       *)
(* snapshot would show, and a preempted request is in none of them           *)
(* (test_stock_concurrency_matches_dpp_stage_queues).                        *)
StagesAgree ==
    output = None =>
        /\ InStage({"running_decode"}) = Decodes(Snapshot)
        /\ InStage({"running_prefill", "waiting_prefill"}) = Prefills(Snapshot) \ preempted
        /\ InStage({"preempted"}) = preempted
        /\ InStage({"waiting_decode", "other_waiting"}) = {}
=============================================================================
