------------------------------ MODULE ServiceDebt ------------------------------
(***************************************************************************)
(* The amounts of the service debts: InMemoryStateStore and                 *)
(* advance_service_debts of state_store.py, bound to a snapshot in each     *)
(* schedule() and advanced by the feedback of the executed iteration in     *)
(* update_from_output().                                                    *)
(*                                                                         *)
(* Debts are kept as integers: a TTFT debt in units of 1/(SLO * prompt) of  *)
(* the program's, a TBT debt in units of 1/SLO.  Which plan runs is a       *)
(* choice; module EngineRound says which plans may.  A snapshot's hash is   *)
(* its frame number, which is what tells two snapshots apart.               *)
(*                                                                         *)
(* Arrivals, snapshots and tokens are stamped by the wall clock.  What is   *)
(* charged to the debts is vLLM's iteration time, which starts after the    *)
(* batch was submitted and ends before its results are processed            *)
(* (docs/decisions.md:268-271): scheduling, submission and feedback take    *)
(* time that nobody charges, and the history variables say how much.        *)
(***************************************************************************)
EXTENDS Integers, FiniteSets, TLC

CONSTANTS Requests,
          Prompt,       \* prompt length of each request
          TtftSlo,      \* ttft_slo_seconds
          TbtSlo,       \* tbt_slo_seconds
          Durations,    \* how long an iteration may take
          MaxOutput,    \* max_tokens of every request
          MayReuse,     \* may a client use the id of an aborted request again?
          MayRedeliver, \* may feedback be delivered twice?
          MaximumNumeric, \* maximum_numeric, the largest debt allowed
          MaxTime       \* bound on the clock

ASSUME DebtAssumption ==
    /\ Prompt \in [Requests -> Nat \ {0}] /\ TtftSlo \in [Requests -> Nat \ {0}]
    /\ TbtSlo \in [Requests -> Nat \ {0}]
    /\ Durations \subseteq Nat \ {0} /\ MaxOutput \in Nat \ {0}
    /\ MaximumNumeric \in Nat /\ MaxTime \in Nat
    /\ {MayReuse, MayRedeliver} \subseteq BOOLEAN

VARIABLES now,
          requests,    \* the live requests: arrival, prefilled, first token, tokens
          gone,        \* ids that were used and are not live
          frame,       \* the next frame_id
          snapshot,    \* the last snapshot taken
          in_flight,   \* is its iteration executing?
          terminal,    \* requests aborted since it was taken
          store,       \* ControlState: snapshot_hash, ttft and tbt debts
          applied,     \* _applied_snapshot_hashes
          feedback,    \* the last feedback delivered
          fault,       \* the exception that stopped the engine, if any
          (* History: the time that passed uncharged, what it was when the   *)
          (* debt of a request was opened, whether feedback came twice.      *)
          uncharged, opened_at, redelivered

vars == <<now, requests, gone, frame, snapshot, in_flight, terminal, store, applied,
          feedback, fault, uncharged, opened_at, redelivered>>

-----------------------------------------------------------------------------
Empty == [r \in {} |-> 0]
Live == DOMAIN requests
Positive(n) == IF n > 0 THEN n ELSE 0

IsPrefill(q, r) == q.prefilled < Prompt[r]

NewRequest == [arrival |-> now, prefilled |-> 0, first |-> 0, tokens |-> 0]

Init ==
    /\ now = 0
    /\ requests = Empty
    /\ gone = {} /\ terminal = {} /\ applied = {}
    /\ frame = 1
    /\ snapshot = [frame |-> 0, prefills |-> Empty, decodes |-> {}]
    /\ in_flight = FALSE
    /\ store = [hash |-> 0, ttft |-> Empty, tbt |-> Empty]
    /\ feedback = [frame |-> 0, duration |-> 1, prefill |-> Empty, decode |-> {},
                   initialized |-> {}, terminal |-> {}]
    /\ fault = "none"
    /\ uncharged = 0
    /\ opened_at = [r \in Requests |-> 0]
    /\ redelivered = FALSE

(* add_request; record_prefill_arrival only checks the prompt's length.      *)
Arrive(r) ==
    /\ fault = "none"
    /\ r \notin Live
    /\ r \in gone => MayReuse
    /\ requests' = [x \in Live \cup {r} |-> IF x = r THEN NewRequest ELSE requests[x]]
    /\ UNCHANGED <<now, gone, frame, snapshot, in_flight, terminal, store, applied,
                   feedback, fault, uncharged, opened_at, redelivered>>

Keep(f, S) == [r \in S |-> f[r]]

(* A client abort; while an iteration is in flight its terminal update is    *)
(* delivered with the feedback.                                              *)
Abort(r) ==
    /\ fault = "none"
    /\ r \in Live
    /\ requests' = Keep(requests, Live \ {r})
    /\ gone' = gone \cup {r}
    /\ terminal' = terminal \cup {r}
    /\ UNCHANGED <<now, frame, snapshot, in_flight, store, applied, feedback, fault,
                   uncharged, opened_at, redelivered>>

(* The clock runs outside of the timed part of an iteration: in schedule(), *)
(* while the batch is submitted, in update_from_output(), or with no work.   *)
Elapse ==
    /\ fault = "none"
    /\ now < MaxTime
    /\ now' = now + 1
    /\ uncharged' = uncharged + 1
    /\ UNCHANGED <<requests, gone, frame, snapshot, in_flight, terminal, store, applied,
                   feedback, fault, opened_at, redelivered>>

-----------------------------------------------------------------------------
(* The debt of a prompt seen for the first time: its wait, less its progress. *)
InitialDebt(r) ==
    Positive((now - requests[r].arrival) * Prompt[r] - requests[r].prefilled * TtftSlo[r])

(* Slip: every snapshot initialises the debt anew. *)
BoundTtftAnew(r) == InitialDebt(r)

(* The prior debt is kept; a new prompt has its initial one. *)
BoundTtft(r) == IF r \in DOMAIN store.ttft THEN store.ttft[r] ELSE InitialDebt(r)

(* Slip: the debts of requests that ended stay. *)
KeptTbtAll(decodes) == store.tbt

KeptTbt(decodes) == Keep(store.tbt, decodes \cap DOMAIN store.tbt)

(* History: what was uncharged when a debt is opened.                        *)
MarkOpened ==
    opened_at' = [r \in Requests |->
        IF \/ r \in DOMAIN store'.ttft \ DOMAIN store.ttft
           \/ r \in DOMAIN store'.tbt \ DOMAIN store.tbt
        THEN uncharged ELSE opened_at[r]]

(* schedule: make_snapshot, then bind_snapshot.  Debts of requests that left  *)
(* their phase are dropped.                                                  *)
Bind ==
    /\ fault = "none" /\ ~in_flight /\ Live # {}
    /\ now < MaxTime
    /\ LET prefills == {r \in Live : IsPrefill(requests[r], r)}
           decodes == Live \ prefills
       IN /\ snapshot' = [frame |-> frame, decodes |-> decodes,
                          prefills |-> [r \in prefills |-> requests[r].prefilled]]
          /\ store' = [hash |-> frame,
                       ttft |-> [r \in prefills |-> BoundTtft(r)],
                       tbt |-> KeptTbt(decodes)]
    /\ MarkOpened
    /\ frame' = frame + 1
    /\ in_flight' = TRUE
    /\ terminal' = {}
    /\ UNCHANGED <<now, requests, gone, applied, feedback, fault, uncharged, redelivered>>

-----------------------------------------------------------------------------
(* The TTFT debt after an iteration: it grows by the duration over the SLO   *)
(* and falls by the share of the prompt computed.                            *)
AdvancedTtft(s, f, r) ==
    Positive(store.ttft[r] + f.duration * Prompt[r] - f.prefill[r] * TtftSlo[r])

(* A slip: a token pays off the whole debt.                                   *)
AdvancedTbtCleared(f, r) ==
    IF r \in f.decode THEN 0 ELSE store.tbt[r] + f.duration

(* The TBT debt: one token pays one SLO. *)
AdvancedTbt(f, r) ==
    Positive(store.tbt[r] + f.duration - (IF r \in f.decode THEN TbtSlo[r] ELSE 0))

(* advance_service_debts: finished prompts and ended decodes drop out, first *)
(* tokens open a debt of zero.                                               *)
Advance(s, f) ==
    LET ttft == {r \in DOMAIN store.ttft : s.prefills[r] + f.prefill[r] < Prompt[r]}
        tbt == DOMAIN store.tbt \ f.terminal
        opened == f.initialized \ (f.terminal \cup tbt)
    IN [hash |-> s.frame,
        ttft |-> [r \in ttft |-> AdvancedTtft(s, f, r)],
        tbt |-> [r \in tbt \cup opened |-> IF r \in tbt THEN AdvancedTbt(f, r) ELSE 0]]

(* The checks of advance_service_debts before it computes anything.          *)
IsAcceptable(s, f) ==
    /\ store.hash = s.frame
    /\ f.decode \subseteq s.decodes
    /\ DOMAIN store.ttft \subseteq DOMAIN s.prefills
    /\ DOMAIN store.tbt \ f.terminal \subseteq s.decodes

(* The check of what was computed: no debt exceeds maximum_numeric.          *)
InRange(control) ==
    /\ \A r \in DOMAIN control.ttft :
          control.ttft[r] <= MaximumNumeric * TtftSlo[r] * Prompt[r]
    /\ \A r \in DOMAIN control.tbt : control.tbt[r] <= MaximumNumeric * TbtSlo[r]

(* Slip: feedback is not remembered. *)
RefusesNone(s) == FALSE

(* Slip: only the last hash is remembered, in the control state. *)
RefusesCurrent(s) == s.frame = store.hash

(* The feedback of a snapshot is applied once. *)
Refuses(s) == s.frame \in applied

(* update_from_actual *)
UpdateFromActual(s, f) ==
    IF Refuses(s) THEN fault' = "duplicate" /\ UNCHANGED <<store, applied>>
    ELSE IF ~IsAcceptable(s, f) THEN fault' = "refused" /\ UNCHANGED <<store, applied>>
    ELSE IF ~InRange(Advance(s, f))
    THEN fault' = "out_of_range" /\ UNCHANGED <<store, applied>>
    ELSE /\ store' = Advance(s, f)
         /\ applied' = applied \cup {s.frame}
         /\ UNCHANGED fault

(* A request after an iteration that computed the prompt tokens of f and     *)
(* ended at a later time, in which those of returned returned a token.       *)
Progress(q, r, f, returned, later) ==
    LET computed == IF r \in DOMAIN f.prefill THEN q.prefilled + f.prefill[r] ELSE q.prefilled
    IN [q EXCEPT !.prefilled = computed,
                 !.first = IF r \in returned /\ q.tokens = 0 THEN later ELSE @,
                 !.tokens = IF r \in returned THEN @ + 1 ELSE @]

(* update_from_output: the iteration ends, d after its timer was started.    *)
(* Its plan gave tokens to prompts of the snapshot, aborted meanwhile or     *)
(* not; the live requests whose prompt is computed return a token, the first *)
(* of which initialises the TBT debt.                                        *)
UpdateFromOutput ==
    /\ fault = "none" /\ in_flight
    /\ \E d \in Durations, served \in SUBSET snapshot.decodes :
       \E plan \in {p \in [DOMAIN snapshot.prefills -> 0..2] :
                       \A r \in DOMAIN p : snapshot.prefills[r] + p[r] <= Prompt[r]} :
       LET known == (snapshot.decodes \cup DOMAIN snapshot.prefills) \cap (Live \ terminal)
           completed == {r \in DOMAIN plan \cap known :
                            plan[r] > 0 /\ snapshot.prefills[r] + plan[r] = Prompt[r]}
           returned == completed \cup (served \cap known)
       IN \E stops \in SUBSET returned :
          LET f == [frame |-> snapshot.frame, duration |-> d, prefill |-> plan,
                    decode |-> served \cap known, initialized |-> completed \ stops,
                    terminal |-> terminal \cup stops]
          IN /\ \A r \in returned : requests[r].tokens + 1 >= MaxOutput => r \in stops
             /\ now + d <= MaxTime
             /\ now' = now + d
             /\ requests' = [r \in Live \ stops |->
                                IF r \in known THEN Progress(requests[r], r, f, returned, now + d)
                                ELSE requests[r]]
             /\ gone' = gone \cup stops
             /\ feedback' = f
             /\ UpdateFromActual(snapshot, f)
    /\ MarkOpened
    /\ in_flight' = FALSE
    /\ terminal' = {}
    /\ UNCHANGED <<frame, snapshot, uncharged, redelivered>>

(* The feedback of the last iteration is delivered a second time. *)
Redeliver ==
    /\ MayRedeliver
    /\ fault = "none" /\ ~in_flight
    /\ feedback.frame = snapshot.frame /\ feedback.frame > 0
    /\ UpdateFromActual(snapshot, feedback)
    /\ redelivered' = TRUE
    /\ UNCHANGED <<now, requests, gone, frame, snapshot, in_flight, terminal, feedback,
                   uncharged, opened_at>>

-----------------------------------------------------------------------------
Next ==
    \/ \E r \in Requests : Arrive(r) \/ Abort(r)
    \/ Elapse \/ Bind \/ UpdateFromOutput \/ Redeliver

Spec == Init /\ [][Next]_vars

-----------------------------------------------------------------------------
(* Types of the store: debts are not negative. *)
TypeOK ==
    /\ now \in 0..MaxTime /\ frame \in Nat /\ applied \subseteq 0..frame
    /\ Live \cup gone \cup terminal \subseteq Requests
    /\ \A r \in DOMAIN store.ttft : r \in Requests /\ store.ttft[r] \in Nat
    /\ \A r \in DOMAIN store.tbt : r \in Requests /\ store.tbt[r] \in Nat
    /\ fault \in {"none", "duplicate", "refused", "out_of_range"}

(* No feedback of an iteration is refused as inconsistent with the store,    *)
(* and none is taken for a duplicate unless it was delivered twice.          *)
RefusesOnlyDuplicates == fault # "refused" /\ (fault = "duplicate" => redelivered)

(* The clock of a request's debt: it stands while time passes uncharged.     *)
ChargedClock(r) == now - (uncharged - opened_at[r])

(* A prompt's debt is never less than its lateness in charged time (the time *)
(* since its arrival less the share of its prompt computed), and never more  *)
(* than that time: no charged time is forgotten or counted twice, whichever  *)
(* prompts the iterations serve (state_store.py:155).  Behind the wall clock *)
(* a debt falls by the time uncharged since its first snapshot.              *)
TtftDebtIsLateness ==
    fault = "none" => \A r \in Live \cap DOMAIN store.ttft :
        LET q == requests[r]
            charged == (ChargedClock(r) - q.arrival) * Prompt[r]
        IN charged - q.prefilled * TtftSlo[r] <= store.ttft[r] /\ store.ttft[r] <= charged

(* The same of a decode: charged time since its first token against the      *)
(* tokens returned after it, each worth one SLO.                             *)
TbtDebtIsLateness ==
    fault = "none" => \A r \in Live \cap DOMAIN store.tbt :
        LET q == requests[r]
            charged == ChargedClock(r) - q.first
        IN charged - (q.tokens - 1) * TbtSlo[r] <= store.tbt[r] /\ store.tbt[r] <= charged

(* Every debt says how late its request is, in charged time. *)
DebtIsChargedLateness == TtftDebtIsLateness /\ TbtDebtIsLateness
==============================================================================
