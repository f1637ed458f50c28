# A TLA+ verification project for DPP-Scheduler

DPP-Scheduler replaces the scheduler of vLLM's engine core. In every engine
iteration it takes a snapshot of the request queues, generates a small set of
batch plans, predicts how long each would take, drops the unsafe ones, selects
one in two stages, executes *exactly* that plan on vLLM's state, and learns from
the measured iteration. Beside it runs a ledger of latency obligations (TTFT: time
to first token, TBT: time between tokens). Further schedulers exist for profiling.

This directory models the parts that carry the program's logic, checks them with
TLC on small instances, and proves theorems about eight of them with TLAPS.
`PROJECT.json` lists components, runs, mutants, findings, hazards and theorems, and
maps every definition to the source lines it stands for.

    tlc -workers 2 -config MCEngineRound.cfg MCEngineRound
    tlapm ObligationLedger_proofs.tla

## 1. Inventory

Paths are relative to the repository; `ds/` stands for `dpp_scheduler/`.

| Component | State it keeps | Operations | What makes it correct |
|---|---|---|---|
| Obligation ledger, `ds/state_store.py` 201-505 | per live request: open TTFT and TBT obligation, TBT sequence number, first-token flag, first TBT miss, Goodput flag; settled ids; seen events; terminal counts | `register_request`, `observe_output` (token, natural EOS, abort), `expire_deadlines` | every obligation is created and settled once, in order; misses are reported once; Goodput and Recovery never go back; no exception on a legal sequence of calls |
| Service debts, `ds/state_store.py` 18-198 | `ControlState`: a TTFT debt per prompt, a TBT debt per decode; applied snapshot hashes | `bind_snapshot`, `update_from_actual` | exactly the requests of the snapshot carry a debt; a debt is its request's lateness in charged time; feedback of an iteration is accepted once |
| Live scheduler, `ds/vllm_adapter.py` 1040-2099 | vLLM's queues (inherited), ledger, debts, pending iteration, terminal updates not yet applied | `add_request`, `finish_requests`, `schedule`, timing callback, `update_from_output` | never stops the engine; never idles over work; ledger and debts mirror the queues |
| Exact execution, `VllmAdapter`, `ds/vllm_adapter.py` 576-1035 | last snapshot, poisoned flag | `make_snapshot`, `build_scheduler_output` | a plan that passed the safe set is always allocatable; blocks are accounted for |
| Candidate generator, safe set, fallback | none (functions of the snapshot) | `generate`, `filter`, `build`, `resolve_fallback`, `build_liveness_escape` | plans respect the token, sequence and KV budgets; something runnable is always found |
| Two-stage selector, `ds/dpp_selector.py`, `ds/consequence_estimator.py` | none between calls; a ranking loop inside one | `select` | no TBT deadline lost that decoding alone would keep; near-ties do not reverse the ranking; prefill beats idling |
| Isolated profiling, `ds/vllm_adapter.py` 2543-2809, `ds/targeted_profile.py`, `benchmarks/run_isolated_candidate_profile.py` | recipe cursor, admission flag, pending iteration, event file; the client's cursor and file offset | admission wait, setup, target, cleanup; the client's loop | one recipe at a time, in order, all measured; client and scheduler agree through a file |
| Other profiling schedulers, `ds/vllm_adapter.py` 2102-2540, `ds/targeted_profile.py` 91-669 | planner's recipe index, pending prediction, profile rows | `schedule` around the stock one, timing callback, `update_from_output` | the n-th row is the n-th iteration, with its duration; each recipe once, in order; predictions from earlier rows only |
| Online predictor, `ds/predictor.py` | frozen ridge weights; residual windows per batch kind; last frame | `predict`, `observe_actual` | feedback in frame order is never refused; windows stay apart; the conservative duration covers what they hold |
| Budget resolver, `ds/budget_resolver.py` | none (a function of the snapshot and a predictor) | `resolve`, summary | the largest prefill budget that ends before the earliest deadline |
| Selector diagnosis, `ds/selector_diagnosis.py`, `scripts/replay_stage1_delta_n0.py` | a log of selector calls | `write`, `replay_record`, the offline counterfactual | silent on what the selector did, finds what was altered |
| Watchdog, `ds/observer.py` | streaks of idle and of decode-only iterations; the last records | `record_iteration` | trips on a stall and only then; keeps the latest records |
| Controller, `ds/controller.py` | none of its own | `schedule_once` (offline path) | same round as the live one |
| Settings, contracts, benchmarks, scripts | see `PROJECT.json` | | not modelled, section 7 |

How they interact. `schedule()` of the live scheduler is one synchronous chain:
expire deadlines, snapshot (which reads a ledger view of every queued request),
bind debts, generate, predict, filter, select (or fall back, escape, or run vLLM's
own scheduler), validate, admit, allocate, keep a *pending* record. The model
runner then executes the batch, the timing bridge calls back with its duration,
and `update_from_output()` appends tokens, feeds the ledger, advances the debts and
the predictor. Client aborts call `finish_requests()` at any moment between, and
new requests arrive between iterations. The profiling client is another process
that shares only HTTP and an append-only file with the scheduler.

What is hard here, and hard to test (`hazards` in `PROJECT.json`, each at its line):

- a deadline at which expiry, a returning token and the end of a request meet;
- aborts in the window between `schedule()` and `update_from_output()`;
- a native iteration that preempts, in a scheduler that does not expect it;
- two independent computations of KV blocks (projection, allocation) that must agree
  at the last free block;
- an empty iteration over a nonempty workload, which would repeat for ever;
- comparisons with tolerances that are not transitive, in three implementations of
  the same decision (selector, replay, offline tool);
- durations that reach their row later and by index, through a bridge that may lose,
  repeat or delay them;
- residuals that are learnt only from executed and predictable batches;
- two processes that each count recipes and must never wait for each other.

## 2. Modules

| Module | Models | Extends / composed with |
|---|---|---|
| `ObligationContract` | abstract: an obligation is *unborn*, *active*, then has one verdict for good; a request has one active at a time, in order | - |
| `ObligationLedger` | class `ObligationLedger`, every operation, with its exceptions | implements the contract by `INSTANCE ... WITH status <- ...` |
| `ObligationLedger_proofs` | theorems and proofs, the refinement of the contract among them | extends the ledger |
| `BatchPlans` | the planning stages as operators over a snapshot: candidates, KV projection, safe set, fallback, vLLM's stock order | - |
| `BatchPlans_proofs` | lemmas about the planning operators: what each candidate, fallback and native plan contains and takes | extends `BatchPlans` |
| `EngineRound` | the live scheduler in the engine's loop | extends `BatchPlans` |
| `EngineRound_proofs` | theorems and proofs of the live scheduler | extends `EngineRound` and `BatchPlans_proofs` |
| `TwoStageSelector` | one call of the selector over any safe set | `BatchPlans!MaySelect` is what it may return |
| `SelectorReplay` | the record of a call, its replay, the offline counterfactual | extends `TwoStageSelector` |
| `SelectorReplay_proofs` | theorems and proofs of the selector and of its replay | extends `SelectorReplay` |
| `IsolatedProfiling` | profiling scheduler, recipe cursor and client | - |
| `TargetPlans` | the planner of target batches, as operators over a snapshot | extends `BatchPlans` |
| `ProfilingSchedulers` | the stock, targeted and evaluation schedulers | extends `TargetPlans` |
| `BudgetResolver` | the budget inversion, as operators over a snapshot | extends `TargetPlans` |
| `PlanQueries` | what the two planners are asked, any recipe or predictor of any snapshot, and what is right of their answers | extends `BudgetResolver` |
| `ServiceDebt` | the store of debts, with the amounts | - |
| `OnlinePredictor` | models, calibrator and their feedback loop | - |
| `ProgressWatchdog` | the watchdog | - |
| `DebtAndWatchdog_proofs` | theorems and proofs of both | extends `ServiceDebt` and `ProgressWatchdog` |
| other `..._proofs` | theorems and proofs of the module they are named after; `ProfilingSchedulers_proofs` also of the target plans, `OnlinePredictor_proofs` also of the budgets of `PlanQueries` | extend it |
| `MC...` | instances for TLC | extend the module they are named after; `MCPlanAlgorithms` that of `PlanQueries` |

### ObligationLedger

`requests`, `seen_event_ids`, `settled`, `terminal_counts` are the fields of the
class. `updates` collects the outcomes of the `LedgerUpdate`s that were returned, so
that properties can speak of what was *reported*, and `fault` is the exception that
stopped the engine. An id such as `"r:TBT:3"` is the tuple `<<r, "TBT", 3>>`. Time is
whole ticks; the code only compares times and adds SLOs. An arrival time may lie in
the past, as the frontend stamps it. `ExpireDeadlines` is the whole pass over the
sorted ids; if one raises, an arbitrary part of the others was already expired. An
event id is never delivered twice by the adapter (it is built from frame and
request), so redelivery is not an action; *reuse of a request id* is one, under
`ReuseIds`.

### BatchPlans and EngineRound

A plan is the work of a `BatchPlan`: prefill items in order, a set of decodes. Plans
of equal work are one, as in the code's deduplication. `ProjectKv` is what
`project_kv_blocks` computes; `Allocated` is what vLLM's `allocate_slots` then takes,
written independently, so that `PlansAreAllocatable` compares the two. `TotalBlocks`
counts the blocks that can be allocated (vLLM's null block is taken off both sides).
`CapacityAssumption` says that any one request fits the KV cache alone: vLLM refuses to
start with a `max_model_len` that does not fit, and refuses longer requests. Without it
a request whose prompt can never be held would leave every iteration empty.

One engine iteration is `Schedule`, `RecordDuration`, `UpdateFromOutput`; `pending`
is the code's record of the iteration in flight. `Abort` is enabled in each window,
`AddRequest` between iterations (vLLM's engine core drains its input queue there).
`selection_mode` is the configured mode, chosen at the start. `Rest` is the idle core,
which waits for a client: with it the only states without a successor would be real
deadlocks, so that the run checks for them.
`Schedule` is the whole chain, with each way of ending: exact execution of the
selected plan, of the fallback or its liveness escape, the native scheduler, and the
exceptions, each a named `fault`.

Abstractions; the first three over-approximate the code's choices:

- *Time.* Which open obligations have expired when a round starts, and which tokens
  come late, is chosen freely. `ObligationLedger` has the times.
- *Predictor.* Any set of nonempty plans may lack a valid prediction. An empty plan never has one, as in the code.
- *Selector.* `MaySelect` allows any safe plan, but an empty prefill only if stage 1
  may have dropped the plans that prefill or none exists (`EndsAsAssumed` of the selector).
- *Debts.* Who carries one, not how much. (No decision reads the amounts: they are
  reported.)
- *Floats.* `derive_candidate_budgets` multiplies floats and floors. The model divides
  integers; for the prompt sizes of the instances both agree.
- *Not in the loop:* prefix caching, speculative decoding, encoder inputs and
  connectors, which the scheduler's constructor refuses; asynchronous scheduling.

### TwoStageSelector

One call: `TbtStage`, the loop `RankGroup`, `Decide`. Durations and slacks are ticks,
rates are compared by cross-multiplication, and `RelTol`, `AbsTol` are hundredths:
far coarser than the code's 1e-9 and 1e-12, so that near-ties and chains of them
occur at these magnitudes. The missing ZERO reference is a status of its own: it is
reachable (KV pressure can admit a subset of the decodes and not all of them), and
`docs/decisions.md:21` documents it as fail-closed. `Works` gives each plan the work
that its label allows, `Predictions` the predictions it may carry, and `MaxSafe`
bounds how many plans a safe set has. `InOrderOf` is the code's sort by the tie key: the
n-th member is the one with n - 1 members before it.

### SelectorReplay

After a call has ended, `Log` writes what `SelectorDiagnosisWriter` writes, `Alter`
may change one result in the file (`MaxAltered` bounds how many), and `Replay`
recomputes: both stages, the ties, the reference and the winner, each by its own
operators translated from the replay's own code, not the selector's. The counters of
`mismatches` are those of the code. As in the code, the logged *inputs* (predictions,
obligations) are taken as given. Only the replay of the current schema is modelled; of
decode coverage only the count that the replay recomputes; the offline tool reads an
older schema whose fields are the same, and only its stage-1 counterfactual is
modelled. `NoPlan` is Python's `None`, which is no plan id (`ReplayAssumption`).

### IsolatedProfiling

`index`, `admission_closed`, `output`/`registered`/`timed` are the scheduler's cursor,
flag and pending record; `events` and `rows` its two files; `cursor`, `offset`,
`inbox` the client. `registered` says as what an iteration was announced: `"none"` is
the case in which `update_from_output` raises. How setup tokens are divided among
the prompts of the decodes is a free choice of which the code's division is one. The
client's HTTP timeouts and its aborts of requests that are already gone are left
out, as is the comparison of free blocks after a cleanup. After the last recipe the
engine runs once more, for the finished ids, and stops with the unregistered-update
error; by then the matrix is complete, and `MeasuredOrFailed` says so.

### TargetPlans and ProfilingSchedulers

`TargetPlans` is `build_target_plan`: order, selection within the sequence slots,
balanced or skewed allocation, fit to the free blocks. (The balanced division may
give the last of the selected prompts nothing; the code then drops it, and so does
the model. A *strict* recipe that the queues never offer blocks the planner: the
code has no way past it.) `ProfilingSchedulers` puts it into vLLM's loop; `scheduler`
says which of the three classes runs. `output` is the batch in flight with its
number, `official` vLLM's iteration counter, which is assumed to count nonempty
iterations only. A duration is abstracted to the number of the iteration it
measures, so that `RowsAreTheirIterations` can say whose it is. `Reports` is what the
timing bridge may deliver: the right report, none, one without an official index, or
the previous iteration's; `RepeatTiming` delivers it again. `ExecuteStock` is vLLM's
own scheduler, with preemption from the back of the running queue.

### BudgetResolver

`Resolve` is `RidgeBudgetResolver.resolve` over a snapshot, the time each
decode has left, and the predictor's answer to each shadow plan. No live scheduler
calls it any more; a diagnostic script and tests do.

### PlanQueries

Both planners are pure, so a behaviour is a query: a snapshot that a scheduler can hold
(`Holdable`: one place per request, nothing computed of one that waits), and either a
recipe asked once (`Ask`) or a predictor, fixed, with which some frames are resolved
while deadlines pass (`Frame`). The snapshots, recipes, deadlines and answers are
constants of the module.

### ServiceDebt

Debts are kept as exact numerators: a TTFT debt is multiplied by the prompt's length
and its SLO, a TBT debt by its SLO, so that an iteration adds and subtracts whole
numbers; the code's floats only approximate these. `applied` holds frames in the
place of snapshot hashes, which contain them. `Redeliver` delivers feedback twice
(`MayRedeliver`), and `MayReuse` lets a client use an id again. A debt beyond
`MaximumNumeric` stops the engine (`InRange`).

The wall clock `now` stamps arrivals, snapshots and tokens. It moves in two ways: by the
duration of an iteration in `UpdateFromOutput`, which is what the store is charged with,
and by `Elapse` at any moment, in flight or not, which nobody charges: vLLM's iteration
timer starts after the batch was submitted and ends before its results are processed, so
`schedule()`, submission and `update_from_output()` lie outside. `uncharged` adds up that
time, `opened_at` remembers it for the moment a debt was opened, and
`ChargedClock` is the clock without what passed uncharged since. Neither is read by an
action; they are there for the properties, as is `redelivered`.

### OnlinePredictor

Two features and integer weights stand for the ridge models; a segmented model has
one box per range of decodes. `Predict` has the clamping, the extrapolation,
validity, center and upper residual; the calibrator's window is a sequence.
An iteration binds a prediction, is executed at a duration that `Noises` allows, and is
observed unless it was skipped. Frames only need to rise (`ahead` is how far the
snapshot's frame is past the last observed one).

### ProgressWatchdog

`RecordIteration` is the whole method; `history` is added, so that the streaks can be
compared with what happened. Only whether anything was scheduled, decoded or waiting
is kept of a record.

## 3. Runs

| Run | Bounds | States | Shows |
|---|---|---|---|
| `ledger` | 2 requests, 4 events, clock 0..4, SLOs 2 and 1 | 40 k | types, no exception, settled once, Goodput, event conservation, sticky Recovery, implementation of `ObligationContract`, and every deadline that the clock reaches settles |
| `ledger_reuse` | 1 request, ids reused | violation | finding 1 |
| `engine` | 3 requests, 4 blocks of 2 tokens, token budget 4, 2 sequences, minimum chunk 2, 3 output tokens, 1 abort, both selection modes | 80 k | the invariants of `EngineRound`, every request ends, no deadlock |
| `engine_preempt` | 2 requests, 4 blocks | violation | finding 2 |
| `selector` | ZERO, STOCK and two fractions, at most 3 of them safe; 2 decodes; slack 1..2; prefill up to 3; one or two results altered | 530 k | both stages, the ranking under non-transitive ties, replay and offline counterfactual |
| `profiling` | 3 recipes (mixed partial; decodes beside an idle prompt; prefill only), requests may end early, plans may exceed the KV cache | 0.3 k | the protocol of scheduler, file and client; every target finds its requests prepared exactly, and is measured unless a batch fails |
| `profiling_failed` | the same, requests may end early | violation | finding 3 |
| `profilers` | 3 requests, 3 blocks of 2 tokens, token budget 4, 2 sequences, 2 recipes (mixed, then decodes), window 2, 2 output tokens, 1 abort, timing faults, all three schedulers | 360 k | rows, predictions, recipes and stages |
| `plan_algorithms` | 4 requests for 3 sequences in every state of some queues, 204 recipes; 6 snapshots with every deadline in {none, past, 2, 3} and every predictor of 4 answers, 2 frames | 47 k | target plans, budgets and their summary |
| `predictor` | two ridge models, two segments, 9 batches, windows of 2 and 3 | 35 k | feedback, windows, coverage, extrapolation |
| `debts` | 2 requests with prompts 2 and 1, durations 1 and 3, clock 0..6 with any part of it uncharged, debts up to 3, redelivery | 565 k | every debt is lateness in charged time; only redelivery is refused |
| `watchdog` | limit 2, 2 records kept, 5 iterations | 73 k | exact streaks, trips and dump |

Why the bounds are enough. *Ledger:* requests share nothing but the sets of ids and
events, so two show every interference; four events let one request open TBT
obligations 1, 2 and 3 or both requests meet; SLOs 2 and 1 put the TTFT deadline
behind and on other events, and with a clock of 4 expiry can precede, coincide with
and follow each token. The theorems remove these bounds. *Engine:* three requests for
two sequence slots, and prompts of 4, 3 and 3 tokens whose blocks alone exceed the
four blocks, produce queueing, chunked prefill, partial last blocks, rounds in which
no plan is safe, escapes, native rounds and preemption; queue order and arrival order
differ. One abort meets every phase of an iteration. *Selector:* three plans are the
least that make a chain of ties; two decodes make obligations that only one plan
keeps; the tolerances are coarse enough to bite between whole rates. *Profiling:*
three recipes have a first, a middle and a last, of each shape. *Profilers:* three
blocks make the stock scheduler preempt a decode and resume it; the third request
waits without a slot; a window of two forgets. *Plan algorithms:* a prompt longer than
the token budget allows, ones of two lengths that share it unevenly, a block short.
*Predictor:* in windows of 2 and 3 with a third trimmed, trimming, quantile and
forgetting all bite. *Debts:* a prompt computed in one piece or two, an iteration
within the SLO and one beyond it, time uncharged before, within and after iterations, and
debts on both sides of the limit. *Watchdog:* the limit is reached, missed and
reached again, and more happens than is kept.

Deadlock is checked in `ledger` (the clock's end leaves expiry enabled) and `engine`
(an idle engine rests). It is not in the others: an engine stops after a fault, a
selector call ends, a profiling run ends with its matrix, and bounded counters run out.

## 4. Properties

Each is explained where it is defined. Those to read first:

- `SettledOnce`, `GoodputIsFirstMiss`, `RecoveryIsSticky`, `EventsConserved`: the books.
- `ImplementsContract`: the ledger is a refinement of `ObligationContract`.
- `PlansAreAllocatable`, `KvIsAccounted`: an exact plan never fails half-way.
- `FeedbackIsAccepted`, `LedgerMirrorsQueues`, `DebtsCoverSnapshot`: aborts in any window.
- `WorkloadAlwaysProgresses`, `EveryRequestEnds`: no idling over work, every request ends.
- `SelectedKeepsDeadlines`, `RankedWithinTolerance`: what the two stages promise.
- `ReplayIsExact`, `OfflineAgrees`: three implementations of one decision agree.
- `RecipesNeverMix`, `MatrixIsOrdered`, `EveryRecipeMeasured`: the profiling protocol.
- `RowsAreTheirIterations`, `PredictedFromPriorRows`: no row has another's duration, and
  none is predicted from what came after it.
- `ConservativeCovers`, `ExtrapolationIsMonotone`: what a conservative duration means.
- `DebtIsChargedLateness`: debts neither forget charged time nor count it twice.

Several are conjunctions of named parts (`ReplayIsExact`, `MeasuredOrFailed`, `TargetsAreRight`,
`BudgetsAreRight`, `DebtIsChargedLateness`, `DiagnosisIsExact`), each part with its comment.
`TypeOK` of `ServiceDebt` and `OnlinePredictor`, `SettledInOrder` and `WarmStaysWarm` have
no run of their own: they are proved (section 6).

Every property of a passing run has a mutant in `PROJECT.json`: a plausible slip in the code that makes
TLC find it violated. The slips stand beside the definitions they replace and are
introduced as such in their comments.

Fairness. *Ledger:* the clock runs and expiry repeats (`schedule()` calls it every
round); nothing obliges requests to arrive or tokens to return. *Engine:* weak
fairness of the engine's step, as the core's busy loop runs while it has requests or
finished ids and the runner answers each batch; no fairness for arrivals and aborts.
It is written out in `FairSpec` (again and again not busy, or again and again a step of
the engine, which changes `pending` or `fault`), since TLC is slow at enabledness of so
large an action.
*Profiling:* the same for the engine, weak fairness for the polling client, and
strong fairness for arrivals, since a request sent over HTTP is delivered between
some two iterations although each iteration disables the delivery for a while.

## 5. Findings

1. **Reused request ids** (`ledger_reuse`). `register_request` refuses live ids only,
   and settled obligation ids are kept for ever, so a request that reuses the id of
   one that ended raises `DuplicateLedgerEvent` on its first token, abort or expiry
   (`state_store.py:284`), although no callback came twice, which is what the
   exception's docstring (line 102) says it means.
2. **Preemption** (`engine_preempt`). Native progress may preempt; the next
   `make_snapshot` raises on the preempted request (`vllm_adapter.py:759`). The design
   document (lines 680-681) says the next round corrects itself from the snapshot.
3. **A failed profiling batch** (`profiling_failed`). The iteration that reports the
   failure is registered nowhere, so its update raises and the engine stops
   (`vllm_adapter.py:2711`, 2744), while the client counts the failure and continues.

Noticed while modelling, without a run of their own (each is a hazard without a
property in `PROJECT.json`, or a limit of a module):

- A calibration center below a small batch's base duration makes its prediction
  invalid; fallback executes the batch, an unpredicted batch is not observed, and
  nothing moves the center (`predictor.py:562`). The property the predictor promises is
  about the feedback it is given, and holds.
- The debts drift behind the wall clock. Deadlines, snapshots and a prompt's initial debt
  are wall-clock times, but only vLLM's iteration time is charged
  (`vllm_adapter.py:2044`; `docs/decisions.md:268-271`): a live request falls behind by the
  time of every `schedule()`, submission and update, and its debt does not show it. No
  document claims otherwise, and no decision reads the debts; `DebtIsChargedLateness` bounds
  them in charged time, so the drift is at most the uncharged time since the debt was
  opened.
- A request that reuses the id of one aborted during its prefill takes over its TTFT
  debt if no snapshot lies between (`state_store.py:49`): `ServiceDebt` shows it with
  `MayReuse = TRUE`; the run and the theorems take ids to be fresh.
- A request that vLLM preempted while decoding is recorded, when it resumes, as a
  decode of many tokens (`vllm_adapter.py:376`), a row that
  `benchmarks/build_predictor_dataset.py:164` refuses.
- One unsupported prediction makes a budget's status `INVERTED_OOD` (`budget_resolver.py:468`
  looks at the whole sweep), feasible or not; the docstring (line 242) speaks of the feasible
  ones. `BudgetsAreRight` states the half that holds.
- Without a live deadline the resolver's base budget is the resource cap, which the
  generator's fill need not reach (`budget_resolver.py:333`), while its docstring
  (lines 71-73) calls it executable.

## 6. What is proved

Eight modules hold proofs. `BatchPlans_proofs` has lemmas only; each other one proves an inductive invariant, from it the properties
below, and states its assumptions on constants in the module proved about.

| Theorem | Establishes |
|---|---|
| `ObligationLedger_proofs` | |
| `TypeCorrect` | `Spec => []TypeOK` |
| `LedgerCorrect` * | `Spec => []LedgerInv`, the inductive invariant |
| `LedgerNeverRaises` * | `Spec => []NeverRaises` |
| `EachObligationSettlesOnce` * | `Spec => []SettledOnce` |
| `GoodputLostByFirstMiss` * | `Spec => []GoodputIsFirstMiss` |
| `SettlementIsOrdered` * | `Spec => []SettledInOrder` |
| `RecoveryNeverForgets` | `Spec => RecoveryIsSticky`, an action property |
| `EventsAppliedOnce` *# | `Spec => []EventsConserved` |
| `LedgerImplementsContract` *# | `Spec => ImplementsContract`, the refinement of `ObligationContract` |
| `EngineRound_proofs` (over `BatchPlans_proofs`) | |
| `EngineInvariant` | `Spec => []EngineInv`, the inductive invariant |
| `EngineTypes` | `Spec => []TypeOK` |
| `PlansCanBeAllocated` | `Spec => []PlansAreAllocatable` |
| `FeedbackCanBeApplied` | `Spec => []FeedbackIsAccepted` |
| `LedgerFollowsQueues` | `Spec => []LedgerMirrorsQueues` |
| `SnapshotHasItsDebts` | `Spec => []DebtsCoverSnapshot` |
| `KvBlocksFit` | `Spec => []KvIsAccounted` |
| `BusyIterationsProgress` | `Spec => []WorkloadAlwaysProgresses` |
| `DebtAndWatchdog_proofs` | |
| `DebtInvariant` * | `Spec => []DebtInv`, the inductive invariant |
| `DebtsAreTyped` * | `Spec => []TypeOK` |
| `FeedbackIsNeverRefused` * | `Spec => []RefusesOnlyDuplicates` |
| `DebtFollowsChargedTime` * | `Spec => []DebtIsChargedLateness` |
| `WatchdogInvariant` | `WatchdogSpec => []WatchdogInv`, the inductive invariant |
| `WatchdogIsExact` | `WatchdogSpec => []DiagnosisIsExact` |
| `SelectorReplay_proofs` | |
| `SelectorInvariant` | `RSpec => []SelectorInv`, the inductive invariant of a call |
| `PrefillIsNotPassedOver` | `RSpec => []ZeroNeverBeatsPrefill` |
| `CallsEndAsAssumed` | `RSpec => []EndsAsAssumed`: a call ends as `EngineRound` assumes |
| `SelectionKeepsDeadlines` | `RSpec => []SelectedKeepsDeadlines` |
| `RankingIsWithinTolerance` | `RSpec => []RankedWithinTolerance` |
| `ReplayAgreesWithSelector` | `RSpec => []ReplayIsExact` |
| `OfflineAgreesWithSelector` | `RSpec => []OfflineAgrees` |
| `OnlinePredictor_proofs` (over `BatchPlans_proofs`) | |
| `PredictorInvariant` | `Spec => []PredictorInv`, the inductive invariant |
| `PredictorIsTyped` | `Spec => []TypeOK` |
| `FeedbackIsNeverRefused` | `Spec => []FeedbackIsLearned` |
| `WindowsKeepToTheirKind` | `Spec => []ResidualsAreOfTheirKind` |
| `ColdStartIsOver` | `Spec => WarmStaysWarm`, an action property |
| `ConservativeIsConservative` | `Spec => []ConservativeCovers` |
| `ExtrapolationNeverShortens` | `Spec => []ExtrapolationIsMonotone` |
| `BudgetsAreLargest` | `QuerySpec => []BudgetsAreRight` |
| `CloserDeadlinesNeverBuyMore` | `QuerySpec => []CloserNeverMore` |
| `ProfilingSchedulers_proofs` (over `BatchPlans_proofs`) | |
| `RowsInvariant` + | `Spec => []RowsInv`, the inductive invariant |
| `RowsFollowIterations` + | `Spec => []RowsAreTheirIterations` |
| `PredictionsUsePriorRows` + | `Spec => []PredictedFromPriorRows` |
| `TargetPlansFit` | a plan that `BuildTargetPlan` returns is one of its snapshot, of the kind asked for, within all three budgets |
| `TargetPlansAreRight` | `QuerySpec => []TargetsAreRight` |
| `QueuesInvariant` | `Spec => [](QueueInv /\ PositionInv)`, the inductive invariant of the queues |
| `StockStagesAgree` | `Spec => []StagesAgree` |
| `RecipesRunInOrder` + | `Spec => []RecipesInOrder` |
| `IsolatedProfiling_proofs` | |
| `MatrixInvariant` | `Spec => []MatrixInv`, the inductive invariant |
| `BatchesStayApart` | `Spec => []RecipesNeverMix` |
| `FilesFollowTheMatrix` | `Spec => []MatrixIsOrdered` |
| `BatchesAreMeasured` + | `Spec => []MeasuredOrFailed` |

\* assumes unique request ids (`ReuseIds = FALSE`, `~MayReuse`), without which it is
false (findings). \+ assumes `NoneIsNoOutput`, `NoneIsNothing` or `NoneIsNoPlan`: Python's
`None` is not a `SchedulerOutput`, not a pending prediction or a role, and not the plan in
flight. \# assumes that `Events` is finite, as the contract's `Numbers` end at
`Cardinality(Events)` and `EventsConserved` counts events.

*Ledger.* `NeverRaises` is not inductive: that the obligation about to settle is not in
`settled` needs to be known. It is not, because its number is the request's latest
and settlement goes in order, and a TTFT obligation is open just if it is not settled
(`SettledInOrder`). That a token never finds itself without an obligation to answer
follows from the same conjunct: with neither open, the TTFT one is settled.
`SettledOnce` and `GoodputIsFirstMiss` then follow the reported outcomes: each action
adds outcomes only of obligations it settles, and a miss only for an eligible request,
which it makes ineligible. Their conjunction is `LedgerInv`. `RecoveryNeverForgets` uses
a smaller invariant (`RecoveryInv`), which holds with reused ids as well.

*Refinement of the contract.* `RefinementInv` strengthens `LedgerInv`. The obligations of
a live request form a chain (`Chain`): the newest is open or settled, all before it are
settled, none after it exists. What is settled has a number of the contract
(`Numbered`), because every TBT obligation was opened by an event of its own, seen once
(`WithinEvents`). Only the end of a request cancels (`CancelledAtEnd`), so nothing is
opened after a cancellation. A step is then split by request: a registration opens
number 0; a token opens the next number and, if the last one was still open, settles
it; an end and an expiry pass close what is open (`ClosingStep`), expiry for several
requests at once; every other request stutters (`OtherStep`). That the verdict is one
the contract allows is `GoodputIsFirstMiss`: the contract sees a miss of a live request
just if the ledger calls it ineligible (`MissStatus`).

*Counting events.* `ConservedInv` says more than equal numbers: the events seen are as many
as the TBT obligations ever opened, settled or active (`OpenedTbt`), and the ends
counted by reason (`Terminations`). A token adds one event and one obligation whose
number is new (`Known`: all of a request's are up to its last number); an end adds one
event and one end, and the obligations it closes only move from active to settled.

*Engine.* All seven safety invariants of `EngineRound` follow from `EngineInv`. None is
inductive alone. That feedback is accepted needs to know that every scheduled decode
was a decode of the bound snapshot and every first token comes from a prompt of it:
`IdleInv` and `PendingInv` tie the debts to `computed` and `outputs`, before an iteration
(an active decode has returned one token more than it has computed beyond its prompt)
and during it (a request computed beyond its prompt is scheduled, or has returned as
much as before). They are what makes `BindSnapshot` at the next round find a debt for
every decode, whoever was aborted in between; aborts only shrink the live set, and
leave in `feedback` nothing but terminal events (`FeedbackInv`). `TokensInv` says that only
running requests have tokens computed, so that a preempted request starts anew, and
that one that has not arrived has none; `LedgerInv`, that a TBT obligation is open only
after a token, so that obligations are of active decodes once the preempted ones are
excluded, and with preempted ones the round raises before the selector looks.

The planning stages are loops, of which `BatchPlans_proofs` says by induction over the
turns what their result contains: every plan has each request once, of the snapshot,
with no more tokens than it lacks, within the token, sequence and KV budgets
(`FillFacts`, `StockPlanFacts`, `GenerateFacts`, `FallbackFacts`). `ProjectionIsHeld` is the centre:
what `project_kv_blocks` projects is, for such a plan and a snapshot whose blocks are
accounted for, exactly what `allocate_slots` then holds in all; hence no plan that the
projection passed is poisoned. For progress, a nonempty workload without a safe
fallback goes to vLLM's own schedule, of which `NativeKeptFacts` shows that preemption
stops with a nonempty front of the queue that fits, by `CapacityAssumption`, and that
the plan serves its first request (`NativePlanFacts`).

Sums over functions and over the elements of a sequence are the community modules'
folds. Since no prover can instantiate an induction theorem that takes an operator,
the module derives induction over the naturals, over subsets of a finite set, and the
recursion equation of a fold from the library's statements about *sets*
(`InductionOnNat`, `InductionOnSubsets`, `RecursionOnSubsets`, `SumRecursion`), and the trace
of a loop as a function (`LoopExists`, `KeepTrace`, ...).

*Selector.* The theorems hold of every safe set, deadline, limit and both tolerances; the
selector's are stated of `RSpec`, whose calls those of `Spec` are. That the leader of a
group exists is the transitivity of fractions compared by cross-multiplication
(`LeadsIsOrder`, `LeaderExists`). Being tied is not transitive, so what is invariant is
said of leaders: a ranked plan was tied with a leader that is not behind anything ranked
later or not at all (`NotBehind`, in `RankedInOrder`). A leader without prefill then has
nothing with prefill behind it, so the check in `_run` never fires; and a plan between a
leader and what is tied with it is close to the tied one (`BetweenIsClose`), which is
`RankedWithinTolerance`. Stage 1 keeps the reference, as the reference misses nothing
beyond itself (`ReferenceExists`); what passes is counted against it. `CallsEndAsAssumed` is
the link to `EngineRound`, which knows of the selector only `ReferenceMissing` and
`MaySelect`: with a safe plan and no missing reference every call selects a plan, one
that `MaySelect` allows.

*Replay.* The replay's stages, written in another way, are shown to be the selector's one
by one, for any record with the inputs of the call (`OfThisCall`): misses and reference
(`ReferenceIsReplayed`), rows (`RowsAreReplayed`), tie keys, closeness and groups
(`GroupsAgree`). The ranking is a loop in one and a recursion in the other. Its table over
all sets of eligible plans exists by induction on their size (`RankTableExists`), what the
loop has ranked followed by the table's entry of what remains is always the entry of all
(`RankedSoFar`), and the recursion is the table (`RankingsAgree`). Then the counters of the
honest record are zero (`RecordIsClean`), and each alteration makes the counter that is about
it speak up (`AlterationsAreFound`, from `StageIsFound` and `ScoreIsFound`). `ReplayInv`
carries both through the steps. The offline tool finds its reference among ZERO and STOCK
plans alone, since a fraction has prefill (`OfflineReferenceAgrees`).

*Debts.* `DebtInv` adds to the types who carries a debt (`Ids`), that frames rise and
what was applied lies behind (`Frames`, so that only a redelivery is a duplicate), and the
bounds of each debt on its own clock (`Debts`). That clock starts with the wall clock when
the debt is opened, moves with each duration charged, and stands while `Elapse` runs, so
each step adds to the debt what it adds to the clock. Clamping at zero only helps the
lower bound, and the upper one never needs the payments.

*Predictor.* What is to be learnt must predict at feedback what it did when it was
bound: the windows do not change in between (`Learnable`, `Measured`), and its frame is
later than the last. `ResidualsAreOfTheirKind` then is inductive.

The two properties of predicted durations hold of every window (`PredictionCovers`,
`LargerPredictsLonger`), so their invariants follow from the types. The i-th residual of
the sorted window exists, and at least i of the residuals are no larger
(`SmallestFacts`): among those with enough residuals up to them, the one with the fewest
is it. The quantile's rank, rounded up, then is enough residuals (`CenterAndUpper`), and
taking the expected duration when it is longer, or adding for the distance to the
support, covers no fewer. For the extrapolation each term of the model and each distance
grows with its feature (`TermGrows`, `DistanceFacts`), and the calibration of two batches of
one kind is the same.

*Profiling.* `RowsInv` counts: before, during and after an iteration the number of rows
differs from vLLM's index by zero or one, depending on who writes the row
(`CountedAhead` at `schedule()`, `CountedBehind` at the update), and a pending
prediction is about the row to come. A wrong or repeated callback stops the engine
before it can write. `PredictionInv` counts the rows that the predictor learnt, per kind: the
calibrator holds so many residuals, or a full window.

That the engine refuses no target plan rests on the planner of target batches alone:
`TargetPlansFit` follows a plan through its stages. The prompts selected are different
ones and need no more new sequences than there are slots (`SelectPrefillsFacts`); both
divisions of the tokens stay within the room of each prompt and the total
(`BalancedFacts` by induction over the passes, `SkewedFacts`); and each reduction to the
free blocks keeps the plan one of the snapshot and makes it smaller, so that as many
reductions as it has tokens make it fit or empty it (`ReduceFacts`, `FitTrace`,
`FitFacts`). `QueueInv` is what makes the snapshot of a round one that the planner's
lemmas speak of: vLLM's own batches, their preemption and admission (`GrantsFacts`,
`KeptFacts`, `AdmittedFacts`), exact batches, ends and aborts keep each request in one
place, and leave tokens computed only in the running queue. `StagesAgree` follows from it
at once. For the recipes, `RecipeInv` counts: the targets written are the recipes
taken, but for one whose row is pending (`Owed`), and the number of targets up to a row
says which recipe it is and whether recipes remain (`NextRowFollows`).

`MatrixInv` is the one-batch-at-a-time argument: what is live
belongs to the scheduler's recipe (`OneBatch`), and the file is ordered up to its
cursor (`OrderedUpTo`, `OrderedRows`). `BatchInv` adds why the engine stops before the
end (`StopsInv`: an iteration that nobody registered follows a failed batch or the last
recipe) and what the setup rounds leave (`PreparationInv`: until the target no decode has
computed beyond the context of its recipe, and a target's requests are one step
beyond the state their recipe names).

*Watchdog.* The counters are streaks by induction over the history, and a streak of
the limit's length is the trip.

*Target plans.* The balanced division is exact because a pass that leaves tokens over has
filled every active entry it served (`PassFacts`), so an entry retires per pass and as
many passes as entries suffice (`BalancedFacts`); the skewed one adds a balanced
division of the rest on top of the first prompt's three quarters, none of which exceeds
what is lacked (`SkewedFacts`). `PreferredFirst` needs the order of the selection: what
`Keep` keeps is kept in order, and what it drops before an element it keeps is barred
(`KeptBefore`, `SelectionOrder`).

*Budgets.* A shadow plan serves no more than its budget (`ShadowFacts`, by a trace of the
fill), so what the sweep serves is bounded by the ceiling and has a maximum
(`SweepFacts`, `EndingFacts`): `InvertedFacts`. An earlier target makes that set of plans
smaller, whatever the predictor says (`CloserBuysNoMore`). In the summary the k-th budget
is the k-th smallest (`KthIsSmallest`, shared with the predictor's quantiles), a rank
rounded up covers its percentage (`RankFacts`), and counting by status adds up by induction
over the frames (`CountsAddUp`).

Every invariant of a passing run is proved. Only model-checked: all liveness properties, such as
`EveryRequestEnds` (liveness under fairness and `ENABLED` are beyond the prover).

## 7. Not modelled

- `Controller` (the offline path): it composes the stages that `EngineRound` composes,
  adds no state and no interleaving, and only tests and a fixture script call it.
- The training and analysis pipelines, benchmark runners: numerical batch
  computations, process control and I/O.
- Settings, contracts and reports: validation, immutable data and output.
- Of modelled components: predictor artifacts and their verification, the superseded
  schemas of the selector's log and its stratified report, `InMemoryObserver`, HTTP
  timeouts of the profiling client, JSON layouts.
- vLLM itself, except what the adapter relies on; those definitions are marked
  external in the map.

## 8. Plan

Done: ledger (model, contract, proofs), engine round (with proofs), selector and its replay (with proofs), isolated
profiling (with proofs), the other profiling schedulers (with proofs), debts (with
proofs), predictor (with proofs), target plans and budget resolver (with proofs), watchdog
(with proofs). Next:

1. `ServiceDebt` in the loop of `EngineRound`, with the amounts.
