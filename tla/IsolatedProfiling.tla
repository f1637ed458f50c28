--------------------------- MODULE IsolatedProfiling ---------------------------
(***************************************************************************)
(* A run of the isolated candidate profile: IsolatedProfilingScheduler of   *)
(* vllm_adapter.py inside vLLM's engine, its recipe cursor                  *)
(* (TargetBatchPlanner of targeted_profile.py), and the client _run_matrix  *)
(* of benchmarks/run_isolated_candidate_profile.py that drives it.          *)
(*                                                                         *)
(* For each recipe the client sends the requests of one batch, each over a  *)
(* connection of its own; the scheduler waits for all of them, prepares     *)
(* them (setup), executes the one measured batch (target), aborts whatever  *)
(* is left and writes a terminal event to a file the client polls.          *)
(*                                                                         *)
(* A request is <<recipe, role, index>>.  KV blocks are module EngineRound's *)
(* subject: here a plan may exceed the KV capacity or not, and the cleanup's *)
(* comparison of free blocks with the baseline is left out.  So are the      *)
(* client's timeouts, and the aborts it sends for requests that are gone.    *)
(***************************************************************************)
EXTENDS Integers, FiniteSets, SequencesExt

CONSTANTS Recipe,        \* the matrix: a sequence of recipes, see below
          TokenBudget,   \* max_num_scheduled_tokens
          SetupTokens,   \* ISOLATED_PARTIAL_SETUP_TOKENS
          MayStop,       \* may a request end by itself (EOS) when it returns a token?
          KvMayLack,     \* may a plan exceed the KV capacity?
          None           \* Python's None

(* prefills, decodes : numbers of requests; partial : prefill_state;         *)
(* tokens, backlog : tokens of each prefill scheduled in the target, and of  *)
(* its prompt beyond the setup; context : prompt length of each decode.      *)
ASSUME MatrixAssumption ==
    /\ \A k \in DOMAIN Recipe :
          /\ Recipe[k] \in [prefills : Nat, decodes : Nat, partial : BOOLEAN,
                            tokens : Nat, backlog : Nat \ {0}, context : Nat \ {0}]
          /\ Recipe[k].prefills + Recipe[k].decodes > 0
    /\ {TokenBudget, SetupTokens} \subseteq Nat \ {0}
    /\ {MayStop, KvMayLack} \subseteq BOOLEAN

VARIABLES cursor,            \* the recipe whose terminal event the client awaits
          offset,            \* event_offset: how much of the file it has read
          inbox,             \* requests sent and not yet at the engine
          requests,          \* num_computed_tokens of each live request
          finished,          \* finished_req_ids, to be reported to the workers
          index,             \* planner.index: the current recipe
          admission_closed,  \* _isolated_admission_closed
          output,            \* the SchedulerOutput in flight, None between iterations
          registered,        \* is it _isolated_pending's, the admission wait's, no one's?
          timed,             \* did the timing callback come for it?
          events,            \* batch_events.jsonl
          rows,              \* iteration_profile.jsonl: the recipe of each row
          fault              \* the exception that stopped the engine, if any

client == <<cursor, offset, inbox>>
engine == <<requests, finished, index, admission_closed, output, registered, timed>>
vars == <<client, engine, events, rows, fault>>

-----------------------------------------------------------------------------
Matrix == DOMAIN Recipe
Live == DOMAIN requests

Prefills(k) == {<<k, "p", i>> : i \in 1..Recipe[k].prefills}
Decodes(k) == {<<k, "d", i>> : i \in 1..Recipe[k].decodes}
Batch(k) == IF k \in Matrix THEN Prefills(k) \cup Decodes(k) ELSE {}

Prepared(k) == IF Recipe[k].partial THEN SetupTokens ELSE 0
PromptOf(r) ==
    IF r[2] = "d" THEN Recipe[r[1]].context ELSE Prepared(r[1]) + Recipe[r[1]].backlog
Lacks(r) == PromptOf(r) - requests[r]

Without(f, S) == [r \in DOMAIN f \ S |-> f[r]]
Nothing == [r \in {} |-> 0]

-----------------------------------------------------------------------------
Init ==
    /\ cursor = 1 /\ offset = 0 /\ inbox = Batch(1)
    /\ requests = Nothing /\ finished = {}
    /\ index = 1 /\ admission_closed = FALSE
    /\ output = None /\ registered = "none" /\ timed = FALSE
    /\ events = <<>> /\ rows = <<>>
    /\ fault = "none"

(* Requests reach the engine in any order, between iterations. *)
Arrive(r) ==
    /\ fault = "none" /\ output = None
    /\ r \in inbox
    /\ inbox' = inbox \ {r}
    /\ requests' = [x \in Live \cup {r} |-> IF x = r THEN 0 ELSE requests[x]]
    /\ UNCHANGED <<cursor, offset, finished, index, admission_closed, output, registered,
                   timed, events, rows, fault>>

(* Slips: the client takes any event of its recipe for the end of the batch; *)
(* it counts the recipes from zero.                                          *)
IsTerminalAny(e) == e.recipe = cursor
IsTerminalFromZero(e) == e.recipe + 1 = cursor /\ e.event \in {"batch_complete", "batch_failed"}

(* _wait_for_terminal_event: what the client looks for. *)
IsTerminal(e) == e.recipe = cursor /\ e.event \in {"batch_complete", "batch_failed"}

(* The client reads on to the terminal event of its batch, cancels what has  *)
(* not returned, and sends the requests of the next recipe.                  *)
NextBatch ==
    /\ cursor \in Matrix
    /\ \E n \in offset + 1..Len(events) :
          /\ IsTerminal(events[n])
          /\ \A m \in offset + 1..n - 1 : ~IsTerminal(events[m])
          /\ offset' = n
    /\ cursor' = cursor + 1
    /\ inbox' = inbox \cup Batch(cursor + 1)
    /\ UNCHANGED <<engine, events, rows, fault>>

-----------------------------------------------------------------------------
(* build_isolated_setup_plan: prefills that must be partial get the setup    *)
(* tokens, the prompts of the decodes share what the budget leaves.          *)
Unprepared == {r \in Prefills(index) : Recipe[index].partial /\ requests[r] = 0}
Unready == {r \in Decodes(index) : Lacks(r) > 0}
Room == TokenBudget - SetupTokens * Cardinality(Unprepared)

(* How the decodes share it is abstracted: all of it goes, in any division.  *)
(* A slip, once in the code: a share beyond what a prompt lacks.             *)
GrantsUnbounded ==
    {g \in [Unready -> 0..Room] : SumFunction(g) = Room}

Grants ==
    LET lack == [r \in Unready |-> Lacks(r)]
        granted == IF Room < SumFunction(lack) THEN Room ELSE SumFunction(lack)
    IN {g \in [Unready -> 0..granted] :
            (\A r \in Unready : g[r] <= lack[r]) /\ SumFunction(g) = granted}

SetupWork(g) ==
    [r \in Unprepared \cup {x \in Unready : g[x] > 0} |->
        IF r \in Unprepared THEN SetupTokens ELSE g[r]]

SetupRaises ==
    \/ Live # Batch(index)
    \/ Recipe[index].partial /\ \E r \in Prefills(index) :
          \/ requests[r] \notin {0, SetupTokens}
          \/ r \in Unprepared /\ Lacks(r) <= SetupTokens
    \/ Room < 0

(* build_isolated_target_plan: exactly the recipe, on requests exactly in    *)
(* the state it names.                                                       *)
TargetWork ==
    [r \in {x \in Prefills(index) : Recipe[index].tokens > 0} \cup Decodes(index) |->
        IF r[2] = "d" THEN 1 ELSE Recipe[index].tokens]

TargetRaises ==
    \/ Live # Batch(index) \/ Unready # {}
    \/ \E r \in Prefills(index) :
          requests[r] # Prepared(index) \/ Recipe[index].tokens > Lacks(r)
    \/ SumFunction(TargetWork) > TokenBudget

(* The plans of a round, with their role; NoPlan if building it raises. *)
Plan(role, w) == [role |-> role, work |-> w]
NoPlan == Plan("none", Nothing)

Plans ==
    IF SetupRaises THEN {NoPlan}
    ELSE IF Unprepared \cup Unready # {} THEN {Plan("setup", SetupWork(g)) : g \in Grants}
    ELSE IF TargetRaises THEN {NoPlan}
    ELSE {Plan("target", TargetWork)}

-----------------------------------------------------------------------------
(* Slips: requests still waiting survive the cleanup; the event is written   *)
(* after the cursor moved.                                                   *)
AbortedRunning == {r \in Live : requests[r] > 0}
EventOfNext(kind) == [event |-> kind, recipe |-> index + 1]

Aborted == Live
Event(kind) == [event |-> kind, recipe |-> index]

(* _clean_current: everything live is aborted (ended are the requests vLLM   *)
(* finished just before), the event is written, and the cursor moves on.     *)
Clean(log, kind, ended) ==
    /\ requests' = Without(requests, Aborted \cup ended)
    /\ events' = Append(log, Event(kind))
    /\ index' = index + 1
    /\ admission_closed' = FALSE

(* An iteration without work, registered as the admission wait or as no      *)
(* one's; the stock schedule() that builds it reports the finished ids.      *)
Idle(as) == output' = Plan("idle", Nothing) /\ registered' = as

(* _fail_current, and then the stock schedule() over no requests. *)
Fail(log) ==
    /\ Clean(log, "batch_failed", {})
    /\ Idle("none")
    /\ finished' = {}

Raise(what) ==
    /\ fault' = what
    /\ UNCHANGED <<output, registered>>

AdmissionComplete == Live = Batch(index)

(* schedule, before admission is complete: an empty iteration. *)
AwaitAdmission ==
    /\ index \in Matrix
    /\ ~admission_closed /\ ~AdmissionComplete
    /\ Idle("wait")
    /\ finished' = IF Live = {} THEN {} ELSE finished
    /\ UNCHANGED <<requests, index, admission_closed, events, rows, fault>>

(* schedule, with a complete batch: setup or target, or the batch fails,     *)
(* and then the stock scheduler's iteration is no one's.                     *)
Execute ==
    /\ index \in Matrix
    /\ AdmissionComplete
    /\ LET log == IF admission_closed THEN events
                  ELSE Append(events, Event("admission_closed"))
       IN \E plan \in Plans \cup (IF KvMayLack THEN {NoPlan} ELSE {}) :
            IF plan = NoPlan THEN Fail(log)
            ELSE /\ output' = plan
                 /\ registered' = "planned"
                 /\ requests' = [r \in Live |->
                        requests[r] + (IF r \in DOMAIN plan.work THEN plan.work[r] ELSE 0)]
                 /\ finished' = {}
                 /\ events' = log
                 /\ admission_closed' = TRUE
                 /\ UNCHANGED index
    /\ UNCHANGED <<rows, fault>>

(* schedule, when a request of the batch ended during its setup. *)
FailShrunkBatch ==
    /\ index \in Matrix
    /\ admission_closed /\ ~AdmissionComplete
    /\ Fail(events)
    /\ UNCHANGED <<rows, fault>>

(* schedule, when a request is not of the batch: all are aborted. *)
RejectAdmission ==
    /\ requests' = Nothing
    /\ finished' = finished \cup Live
    /\ Raise("unexpected_request")
    /\ UNCHANGED <<index, admission_closed, events, rows>>

(* schedule, after the last recipe. *)
AfterMatrix ==
    /\ index \notin Matrix
    /\ Idle("none")
    /\ finished' = {}
    /\ UNCHANGED <<requests, index, admission_closed, events, rows, fault>>

(* The engine calls schedule while it has requests or finished ids. *)
Schedule ==
    /\ fault = "none" /\ output = None
    /\ Live # {} \/ finished # {}
    /\ timed' = FALSE
    /\ IF index \in Matrix /\ ~(Live \subseteq Batch(index))
       THEN RejectAdmission
       ELSE AwaitAdmission \/ Execute \/ FailShrunkBatch \/ AfterMatrix
    /\ UNCHANGED client

(* The timing bridge reports iterations that scheduled tokens. *)
RecordDuration ==
    /\ fault = "none" /\ output # None
    /\ output.work # Nothing /\ ~timed
    /\ timed' = TRUE
    /\ UNCHANGED <<client, requests, finished, index, admission_closed, output, registered,
                   events, rows, fault>>

Returning == {r \in DOMAIN output.work : Lacks(r) <= 0}

(* update_from_output: the iteration must be registered, and a planned one   *)
(* timed; a target is recorded and its batch cleaned up.                     *)
UpdateFromOutput ==
    /\ fault = "none" /\ output # None
    /\ timed \/ output.work = Nothing
    /\ IF registered = "none"
       THEN /\ Raise("unregistered_update")
            /\ UNCHANGED <<requests, finished, index, admission_closed, events, rows>>
       ELSE /\ output' = None /\ registered' = "none"
            /\ UNCHANGED fault
            /\ \E ended \in IF MayStop THEN SUBSET Returning ELSE {{}} :
               IF output.role = "target"
               THEN /\ Clean(events, "batch_complete", ended)
                    /\ finished' = finished \cup Aborted \cup ended
                    /\ rows' = Append(rows, index)
               ELSE /\ requests' = Without(requests, ended)
                    /\ finished' = finished \cup ended
                    /\ events' = IF output.role = "setup"
                                 THEN Append(events, Event("setup_complete")) ELSE events
                    /\ UNCHANGED <<index, admission_closed, rows>>
    /\ UNCHANGED <<client, timed>>

-----------------------------------------------------------------------------
EngineStep == Schedule \/ RecordDuration \/ UpdateFromOutput
Arrival == \E r \in inbox : Arrive(r)

Next == EngineStep \/ Arrival \/ NextBatch

Spec == Init /\ [][Next]_vars

(* The engine's loop runs while it has work, HTTP delivers what the client   *)
(* sends, between any two iterations, and the client polls.                  *)
FairSpec ==
    Spec /\ WF_vars(EngineStep) /\ WF_vars(NextBatch) /\ SF_vars(Arrival)

-----------------------------------------------------------------------------
(* The n-th event is the end of a batch. *)
Ends(n) == events[n].event \in {"batch_complete", "batch_failed"}

RecipesOf(numbers) == {events[n].recipe : n \in numbers}

(* The requests at the engine are of the recipe the scheduler works on: no   *)
(* cleanup leaves one behind, and the next batch never comes too early.      *)
RecipesNeverMix == Live \subseteq Batch(index) /\ fault # "unexpected_request"

(* What isolated_candidate_profile.py:147-156 validates after the run: every *)
(* recipe has one terminal event, in the order of the matrix, and there is a *)
(* row for each completed one, in the same order.  Client and scheduler      *)
(* share only that file, yet their cursors agree but for the terminal event  *)
(* the client has not read yet.                                              *)
MatrixIsOrdered ==
    LET ends == {n \in DOMAIN events : Ends(n)}
        completed == {n \in DOMAIN events : events[n].event = "batch_complete"}
    IN /\ \A m, n \in ends : m < n => events[m].recipe < events[n].recipe
       /\ RecipesOf(ends) = 1..index - 1
       /\ \A m, n \in DOMAIN rows : m < n => rows[m] < rows[n]
       /\ ToSet(rows) = RecipesOf(completed)
       /\ index \in {cursor, cursor + 1}

(* Before the end of the matrix only a failed batch can stop the engine.     *)
StopsOnlyOnFailure ==
    fault # "none" =>
        index \notin Matrix \/ \E e \in ToSet(events) : e.event = "batch_failed"

(* A target runs on requests in exactly the state its recipe names: decodes  *)
(* with their context, prompts fresh or partial, whatever the setup rounds   *)
(* and the division of their tokens were.                                    *)
TargetsFindTheirState ==
    output # None /\ output.role = "target" =>
        \A r \in DOMAIN output.work :
            requests[r] - output.work[r] =
                IF r[2] = "d" THEN Recipe[index].context ELSE Prepared(index)

(* A batch is measured as its recipe asks, or it is reported as failed. *)
MeasuredOrFailed == StopsOnlyOnFailure /\ TargetsFindTheirState

(* benchmarks/run_isolated_candidate_profile.py:2 runs the whole matrix on   *)
(* "one persistent-server", and counts the failed batches on the way: so a   *)
(* failed batch must not stop the engine.                                    *)
FailedBatchIsSurvived == fault # "none" => index \notin Matrix

(* Every recipe is measured, unless a batch fails: admission completes, setup *)
(* converges, client and scheduler never wait for each other.                *)
EveryRecipeMeasured ==
    <>(\/ rows = [k \in Matrix |-> k]
       \/ \E e \in ToSet(events) : e.event = "batch_failed")
=============================================================================
