------------------------------- MODULE EngineRound -------------------------------
(***************************************************************************)
(* The live scheduler, ModularDPPScheduler of vllm_adapter.py, in the loop  *)
(* of vLLM's synchronous engine: schedule(), execution, the timing callback *)
(* and update_from_output(), with requests arriving between iterations and  *)
(* aborts arriving at any point of one.                                     *)
(*                                                                         *)
(* Time is abstracted.  Whether a deadline has passed when a round expires  *)
(* obligations or a token returns is a choice of the environment; module    *)
(* ObligationLedger models the ledger in full.  Here a ledger record says   *)
(* which obligations are open.  Predicted durations are abstracted to       *)
(* whether a plan's prediction is valid and in support; module BatchPlans   *)
(* holds the planning stages.  Debts are abstracted to who carries one.     *)
(***************************************************************************)
EXTENDS BatchPlans

CONSTANTS MaxOutput,       \* max_tokens of every request
          MaxAborts,       \* bound: client aborts in a behaviour
          SelectionModes,  \* the settings considered
          None             \* Python's None

(* _dpp_predictor_pending: what is bound to the iteration in flight. *)
PendingIterations ==
    [prefills : SUBSET Requests, decodes : SUBSET Requests,
     work : [prefill : Seq(Requests \X (Nat \ {0})), decode : SUBSET Requests],
     completes : SUBSET Requests, timed : BOOLEAN]

ASSUME EngineAssumption ==
    /\ MaxOutput \in Nat \ {0}
    /\ MaxAborts \in Nat
    /\ SelectionModes \subseteq {"normal", "forced_stock_plan"}
    /\ None \notin PendingIterations

(* vLLM admits no request longer than its KV cache holds (max_model_len). *)
ASSUME CapacityAssumption ==
    \A r \in Requests : Blocks(Prompt[r] + MaxOutput) <= TotalBlocks

VARIABLES waiting, running,   \* the scheduler's queues
          computed,           \* num_computed_tokens of each request
          blocks,             \* KV blocks each request holds
          outputs,            \* tokens returned to each request's client
          preempted,          \* requests whose status is PREEMPTED
          finished,           \* finished_req_ids, to be reported to the workers
          ended,              \* requests that finished or were aborted
          ledger,             \* _dpp_obligation_ledger: records of live requests
          control,            \* ControlState: who has a TTFT and a TBT debt
          feedback,           \* _dpp_control_pending_updates
          pending,            \* _dpp_predictor_pending
          aborts,             \* client aborts so far
          selection_mode,     \* the setting of that name
          fault               \* the exception that stopped the engine, if any

queues == <<waiting, running, computed, blocks, outputs, preempted, finished>>
vars == <<queues, ended, ledger, control, feedback, pending, aborts, selection_mode, fault>>

-----------------------------------------------------------------------------
Live == ToSet(waiting) \cup ToSet(running)

UsedBlocks == SumFunction(blocks)

(* make_snapshot: an immutable image of the queues. *)
Snapshot == [running |-> running, waiting |-> waiting, computed |-> computed,
             used |-> UsedBlocks]

NewRecord == [ttft |-> TRUE, tbt |-> FALSE, returned |-> FALSE,
              eligible |-> TRUE, recovering |-> FALSE]

Records == [ttft : BOOLEAN, tbt : BOOLEAN, returned : BOOLEAN,
            eligible : BOOLEAN, recovering : BOOLEAN]

Update(r, initializes, service, terminal) ==
    [id |-> r, initializes |-> initializes, service |-> service, terminal |-> terminal]

Without(f, S) == [r \in DOMAIN f \ S |-> f[r]]
Drop(queue, S) == Keep(queue, ToSet(queue) \ S)

-----------------------------------------------------------------------------
Init ==
    /\ waiting = <<>> /\ running = <<>>
    /\ computed = [r \in Requests |-> 0]
    /\ blocks = [r \in Requests |-> 0]
    /\ outputs = [r \in Requests |-> 0]
    /\ preempted = {} /\ finished = {} /\ ended = {}
    /\ ledger = [r \in {} |-> NewRecord]
    /\ control = [ttft |-> {}, tbt |-> {}]
    /\ feedback = {}
    /\ pending = None
    /\ aborts = 0
    /\ selection_mode \in SelectionModes
    /\ fault = "none"

(* add_request, between iterations: vLLM queues it and the ledger opens its  *)
(* TTFT obligation.                                                          *)
AddRequest(r) ==
    /\ fault = "none" /\ pending = None
    /\ r \notin Live \cup ended
    /\ waiting' = Append(waiting, r)
    /\ ledger' = [x \in DOMAIN ledger \cup {r} |-> IF x = r THEN NewRecord ELSE ledger[x]]
    /\ UNCHANGED <<running, computed, blocks, outputs, preempted, finished, ended,
                   control, feedback, pending, aborts, fault>>

-----------------------------------------------------------------------------
(* vLLM frees a request: out of the queues, its blocks returned, its id      *)
(* reported with the next output.                                            *)
Release(S) ==
    /\ waiting' = Drop(waiting, S)
    /\ running' = Drop(running, S)
    /\ blocks' = [r \in Requests |-> IF r \in S THEN 0 ELSE blocks[r]]
    /\ preempted' = preempted \ S
    /\ finished' = finished \cup S
    /\ ended' = ended \cup S

(* _dpp_record_obligation_update of a terminal event without a token. *)
TerminalUpdate(r) == {Update(r, FALSE, 0, TRUE)}

(* A slip: the abort leaves the request's ledger record behind. *)
CloseLedgerNever(r) == ledger

(* finish_requests records the terminal event of a request the ledger has. *)
CloseLedger(r) == Without(ledger, {r})

(* finish_requests: a client abort, between iterations or while one is in    *)
(* flight.                                                                   *)
Abort(r) ==
    /\ fault = "none"
    /\ r \in Live
    /\ aborts < MaxAborts
    /\ aborts' = aborts + 1
    /\ Release({r})
    /\ IF r \in DOMAIN ledger
       THEN ledger' = CloseLedger(r) /\ feedback' = feedback \cup TerminalUpdate(r)
       ELSE UNCHANGED <<ledger, feedback>>
    /\ UNCHANGED <<computed, outputs, control, pending, fault>>

-----------------------------------------------------------------------------
(* expire_deadlines for the requests whose open obligation is past due. *)
Expired(S) ==
    [r \in DOMAIN ledger |->
        IF r \notin S THEN ledger[r]
        ELSE [ledger[r] EXCEPT !.ttft = FALSE, !.tbt = FALSE, !.eligible = FALSE,
                               !.recovering = @ \/ ledger[r].tbt]]

(* active_obligations: the TBT obligations of eligible requests. *)
TbtObligations(book) == {r \in DOMAIN book : book[r].eligible /\ book[r].tbt}

(* A slip: the debt of a new prompt is not initialised. *)
BindSnapshotToPrior(s) ==
    [ttft |-> Prefills(s) \cap control.ttft, tbt |-> Decodes(s) \cap control.tbt]

(* bind_snapshot: every prompt in the snapshot has a TTFT debt, prior or     *)
(* new; TBT debts survive for active decodes.                                *)
BindSnapshot(s) ==
    [ttft |-> Prefills(s), tbt |-> Decodes(s) \cap control.tbt]

(* _dpp_bind_pending *)
Bind(s, w) ==
    pending' = [prefills |-> Prefills(s), decodes |-> Decodes(s), work |-> w,
                completes |-> {r \in Prefills(s) : TokensOf(w, r) >= Remaining(s, r)},
                timed |-> FALSE]

Raise(what) ==
    /\ fault' = what
    /\ UNCHANGED <<queues, ended, pending>>

(* allocate_slots: the blocks a request lacks to hold its scheduled tokens. *)
Allocated(s, w) ==
    [r \in Requests |->
        IF r \in Scheduled(w)
        THEN Max({blocks[r], Blocks(s.computed[r] + TokensOf(w, r))})
        ELSE blocks[r]]

(* _validate_plan_against_live_state, the limits: a plan is not stale, for   *)
(* it was built from the snapshot taken in the same call.                    *)
Admissible(s, w) ==
    /\ Tokens(w) <= TokenBudget
    /\ ProjectSequences(s, w) <= SequenceBudget
    /\ ProjectKv(s, w) <= TotalBlocks
    /\ \A i \in DOMAIN w.prefill : w.prefill[i][2] \in 1..Remaining(s, w.prefill[i][1])

(* The prompts a plan moves from the waiting queue to the running one, in    *)
(* the plan's order.  Slips: prompts already running are appended again;     *)
(* only the first waiting one is moved.                                      *)
PromptsOf(w) == [i \in DOMAIN w.prefill |-> w.prefill[i][1]]
AdmittedAgain(s, w) == PromptsOf(w)
AdmittedFirst(s, w) ==
    LET new == Keep(PromptsOf(w), ToSet(s.waiting))
    IN SubSeq(new, 1, Smaller(1, Len(new)))

Admitted(s, w) == Keep(PromptsOf(w), ToSet(s.waiting))

(* build_scheduler_output: the exact plan becomes vLLM's state.  A failed    *)
(* allocation poisons the adapter.                                           *)
ExecuteExact(s, w) ==
    \E admitted \in {Admitted(s, w)}, held \in {Allocated(s, w)} :
       IF ~Admissible(s, w) THEN Raise("plan_rejected")
       ELSE IF SumFunction(held) > TotalBlocks
       THEN Raise("poisoned")
       ELSE /\ waiting' = Drop(waiting, ToSet(admitted))
            /\ running' = running \o admitted
            /\ computed' = [r \in Requests |-> computed[r] + TokensOf(w, r)]
            /\ blocks' = held
            /\ finished' = {}
            /\ Bind(s, w)
            /\ UNCHANGED <<outputs, preempted, ended, fault>>

(* The stock schedule(): it may preempt, which puts requests back at the     *)
(* head of the waiting queue with nothing computed.  build_shadow_plan reads *)
(* the plan off its output.                                                  *)
ExecuteNative(s) ==
    \E w \in {NativePlan(s)}, victims \in {RunningSet(s) \ ToSet(NativeKept(s))} :
    \E admitted \in {Keep(waiting, Scheduled(w))} :
       /\ running' = NativeKept(s) \o admitted
       /\ waiting' = Keep(running, victims) \o Drop(waiting, Scheduled(w))
       /\ preempted' = preempted \cup victims
       /\ computed' = [r \in Requests |->
                          IF r \in victims THEN 0 ELSE computed[r] + TokensOf(w, r)]
       /\ blocks' = [r \in Requests |-> IF r \in victims THEN 0 ELSE Allocated(s, w)[r]]
       /\ finished' = {}
       /\ Bind(s, w)
       /\ UNCHANGED <<outputs, ended, fault>>

(* What may happen to a snapshot in forced_stock_plan mode. *)
PlanStock(s) ==
    IF BuildStockPlan(s) = NoWork
    THEN Raise("stock_without_work")
    ELSE ExecuteExact(s, BuildStockPlan(s))

(* A slip: liveness escape bypasses the resource checks as well. *)
EscapesAlways(s, w) == w # NoWork

(* build_liveness_escape: only a physically safe fallback may bypass the     *)
(* predictor.                                                                *)
Escapes(s, w) == w # NoWork /\ Fits(s, w)

(* The selector has no plan: resolve_fallback, then build_liveness_escape if *)
(* it was rejected (with a valid prediction the fallback itself runs), then  *)
(* the native scheduler.  A request past its recovery age is mandatory.      *)
PlanFallback(s, book) ==
    \E mandatory \in SUBSET {r \in Decodes(s) : book[r].recovering} :
    \E w \in FallbackPlans(s, mandatory) :
        IF Escapes(s, w) THEN ExecuteExact(s, w) ELSE ExecuteNative(s)

(* The normal pipeline: generate, predict, filter, select; else fall back.   *)
(* A nonempty plan may lack a valid prediction.                              *)
PlanNormally(s, book) ==
    \E plans \in {Generate(s)} :
    \E safe \in {SafeSet(s, plans, invalid) :
                    invalid \in SUBSET plans} :
        IF ~(TbtObligations(book) \subseteq Decodes(s))
        THEN Raise("obligation_mismatch")
        ELSE IF safe = {} THEN PlanFallback(s, book)
        ELSE IF ReferenceMissing(s, safe, TbtObligations(book))
        THEN Raise("zero_reference_missing")
        ELSE \E w \in safe :
                /\ MaySelect(safe, TbtObligations(book), w)
                /\ ExecuteExact(s, w)

(* schedule: the engine calls it while it has requests or finished ids.      *)
Schedule ==
    /\ fault = "none" /\ pending = None
    /\ Live # {} \/ finished # {}
    /\ \E due \in SUBSET {r \in DOMAIN ledger : ledger[r].ttft \/ ledger[r].tbt} :
        /\ ledger' = Expired(due)
        /\ \E s \in {Snapshot} :
           IF preempted # {} \/ ~(Live \subseteq DOMAIN ledger)
           THEN /\ Raise(IF preempted # {} THEN "preempted_request" ELSE "no_ledger")
                /\ UNCHANGED <<control, feedback>>
           ELSE /\ control' = BindSnapshot(s)
                /\ feedback' = {}
                /\ IF Workload(s) = {} THEN ExecuteExact(s, NoWork)
                   ELSE IF selection_mode = "forced_stock_plan" THEN PlanStock(s)
                   ELSE PlanNormally(s, Expired(due))
    /\ UNCHANGED aborts

(* The timing callback, _dpp_record_iteration_duration, once per iteration.  *)
RecordDuration ==
    /\ fault = "none"
    /\ pending # None
    /\ ~pending.timed
    /\ pending' = [pending EXCEPT !.timed = TRUE]
    /\ UNCHANGED <<queues, ended, ledger, control, feedback, aborts, fault>>

-----------------------------------------------------------------------------
(* The requests that return a token: scheduled, not aborted meanwhile, and   *)
(* with their whole prompt computed.                                         *)
Returning == {r \in Scheduled(pending.work) \cap Live : computed[r] >= Prompt[r]}

(* The record of a request after its token, late or not (observe_output).    *)
(* In a slip the first token leaves the TTFT obligation open.                *)
AfterTokenKeepsTtft(q, late) ==
    [ttft |-> q.ttft, tbt |-> TRUE, returned |-> TRUE,
     eligible |-> q.eligible /\ ~late,
     recovering |-> q.recovering \/ (late /\ q.tbt)]

AfterToken(q, late) ==
    [ttft |-> FALSE, tbt |-> TRUE, returned |-> TRUE,
     eligible |-> q.eligible /\ ~late,
     recovering |-> q.recovering \/ (late /\ q.tbt)]

(* A slip: the first token counts as decode service. *)
TokenUpdateCountsFirst(r, stops) ==
    Update(r, ~ledger[r].returned /\ r \notin stops, 1, r \in stops)

(* The LedgerUpdate of a token: the first initialises the TBT debt, the      *)
(* others are decode service.                                                *)
TokenUpdate(r, stops) ==
    Update(r, ~ledger[r].returned /\ r \notin stops,
           IF ledger[r].returned THEN 1 ELSE 0, r \in stops)

(* advance_service_debts: which debts remain after an iteration. *)
AdvanceDebts(updates) ==
    LET terminal == {u.id : u \in {v \in updates : v.terminal}}
        initialized == {u.id : u \in {v \in updates : v.initializes}}
    IN [ttft |-> control.ttft \ pending.completes,
        tbt |-> (control.tbt \cup initialized) \ terminal]

(* The checks of advance_service_debts, and its lookups. *)
FeedbackMatches(updates) ==
    /\ {u.id : u \in {v \in updates : v.service = 1}} \subseteq pending.decodes
    /\ control.ttft \subseteq pending.prefills
    /\ control.tbt \subseteq pending.decodes

(* update_from_output: vLLM appends the tokens and frees what stopped; the   *)
(* ledger observes each output; the debts advance; the predictor learns.     *)
UpdateFromOutput ==
    /\ fault = "none"
    /\ pending # None
    /\ pending.timed
    /\ \E stops \in SUBSET Returning,
          late \in SUBSET {r \in Returning \cap DOMAIN ledger :
                              ledger[r].eligible /\ (ledger[r].ttft \/ ledger[r].tbt)} :
        LET updates == feedback \cup {TokenUpdate(r, stops) : r \in Returning} IN
        /\ \A r \in Returning : outputs[r] + 1 >= MaxOutput => r \in stops
        /\ Release(stops)
        /\ outputs' = [r \in Requests |-> IF r \in Returning THEN outputs[r] + 1 ELSE outputs[r]]
        /\ IF ~(Returning \subseteq DOMAIN ledger)
           THEN fault' = "no_ledger" /\ UNCHANGED <<ledger, control, feedback, pending>>
           ELSE /\ ledger' = [r \in DOMAIN ledger \ stops |->
                                 IF r \in Returning THEN AfterToken(ledger[r], r \in late)
                                 ELSE ledger[r]]
                /\ IF ~FeedbackMatches(updates)
                   THEN fault' = "feedback_rejected" /\ UNCHANGED <<control, feedback, pending>>
                   ELSE /\ control' = AdvanceDebts(updates)
                        /\ feedback' = {}
                        /\ pending' = None
                        /\ UNCHANGED fault
    /\ UNCHANGED <<computed, aborts>>

-----------------------------------------------------------------------------
(* The phases of one iteration of EngineCore.step, one enabled at a time. *)
EngineStep == (Schedule \/ RecordDuration \/ UpdateFromOutput) /\ UNCHANGED selection_mode

ClientStep == \E r \in Requests : (AddRequest(r) \/ Abort(r)) /\ UNCHANGED selection_mode

(* Has the busy loop an iteration to begin or to finish?  If not it blocks   *)
(* on its input queue, or the engine has stopped.                            *)
Busy == fault = "none" /\ (pending # None \/ Live # {} \/ finished # {})

Rest == ~Busy /\ UNCHANGED vars

Next == EngineStep \/ ClientStep \/ Rest

Spec == Init /\ [][Next]_vars

(* The busy loop runs an iteration whenever there is work, and the model     *)
(* runner answers every iteration.  Requests need not arrive.  This is weak  *)
(* fairness of EngineStep written out, as only those steps change pending or *)
(* fault: Busy stands for ENABLED EngineStep, which would try every choice   *)
(* of a round, and Next without deadlock shows that a busy engine can step.  *)
FairSpec == Spec /\ ([]<>~Busy \/ []<><<TRUE>>_<<pending, fault>>)

-----------------------------------------------------------------------------
(* Types of the scheduler's state; a live request has one place in one queue. *)
TypeOK ==
    /\ IsInjective(waiting \o running)
    /\ Live \cap ended = {} /\ preempted \subseteq ToSet(waiting)
    /\ ToSet(waiting) \cup ToSet(running) \cup preempted \cup finished \cup ended \subseteq Requests
    /\ computed \in [Requests -> Nat] /\ blocks \in [Requests -> 0..TotalBlocks]
    /\ outputs \in [Requests -> 0..MaxOutput]
    /\ DOMAIN ledger \subseteq Requests /\ ledger \in [DOMAIN ledger -> Records]
    /\ control.ttft \cup control.tbt \subseteq Requests
    /\ aborts \in 0..MaxAborts
    /\ \A u \in feedback : u.id \in Requests /\ u.service \in {0, 1}

(* An exact plan is never refused by the adapter's validation, and the       *)
(* allocator never fails on one (vllm_adapter.py:930): the projection of KV  *)
(* blocks that filtered the plan is what the allocation then takes.          *)
PlansAreAllocatable == fault \notin {"plan_rejected", "poisoned"}

(* The iteration's feedback is always accepted: every token has a ledger     *)
(* record, decode service goes to decodes of the bound snapshot, and debts   *)
(* advance over it, though aborts interleave with the iteration.             *)
FeedbackIsAccepted == fault \notin {"no_ledger", "feedback_rejected", "obligation_mismatch"}

(* The ledger's live set is the scheduler's (make_snapshot reads a view of   *)
(* every request in either queue), and its obligations follow the queues'    *)
(* phases: a TBT obligation is open only for a request whose prompt is       *)
(* computed and a TTFT one only before the first token; else stage 1 of the  *)
(* selector refuses the snapshot (dpp_selector.py:169).                      *)
LedgerMirrorsQueues ==
    fault = "none" =>
        /\ DOMAIN ledger = Live
        /\ \A r \in Live :
              /\ ledger[r].tbt /\ r \notin preempted => computed[r] >= Prompt[r]
              /\ ledger[r].ttft => outputs[r] = 0
              /\ ledger[r].returned <=> outputs[r] > 0

(* While an iteration is in flight, every prompt of its snapshot carries a   *)
(* TTFT debt and every active decode a TBT debt, and nothing else does: the  *)
(* debt of a decode is initialised by its first token in time for the next   *)
(* snapshot, whatever was aborted meanwhile.                                 *)
DebtsCoverSnapshot ==
    fault = "none" /\ pending # None =>
        control.ttft = pending.prefills /\ control.tbt = pending.decodes

(* The blocks held are those of the tokens computed, they fit, and only      *)
(* running requests hold any: an abort in flight leaks none.                 *)
KvIsAccounted ==
    fault = "none" =>
        /\ UsedBlocks <= TotalBlocks
        /\ Len(running) <= SequenceBudget
        /\ \A r \in Requests :
              blocks[r] = IF r \in ToSet(running) THEN Blocks(computed[r]) ELSE 0

(* docs/experiment_plan.md:158: "Idle is reserved for an empty workload".    *)
(* Whatever the predictor and the resources say, an iteration over a         *)
(* nonempty workload schedules a token (the watchdog's streak stays 0).      *)
WorkloadAlwaysProgresses ==
    pending # None /\ pending.prefills \cup pending.decodes # {} => Tokens(pending.work) > 0

(* The engine survives a round that preempted: docs/Qwen3-14B-DGX-Spark-     *)
(* Modular-DPP-Scheduler.md:680 has the next round correct itself from the   *)
(* actual snapshot when cancellation or preemption changed the visible work. *)
PreemptionIsSurvived == fault # "preempted_request"

(* Every request ends, though others compete with it, the zero-prefill       *)
(* baseline that stage 1 protects favours decodes and predictions may fail    *)
(* for ever, unless the engine stops: over a preempted request, an empty     *)
(* stock plan or the missing reference.                                      *)
EveryRequestEnds ==
    \A r \in Requests :
        r \in Live ~>
            \/ r \in ended
            \/ fault \in {"preempted_request", "stock_without_work", "zero_reference_missing"}
=============================================================================
