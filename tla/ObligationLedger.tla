---------------------------- MODULE ObligationLedger ----------------------------
(***************************************************************************)
(* The TTFT/TBT obligation ledger, class ObligationLedger of               *)
(* dpp_scheduler/state_store.py.  It creates one TTFT obligation per       *)
(* registered request and one TBT obligation per nonterminal token, and    *)
(* settles them from returned tokens, terminal events and deadline expiry. *)
(*                                                                         *)
(* An obligation is named by <<request, kind, number>>, the model's form   *)
(* of the ids "r:TTFT:0" and "r:TBT:n".  Time is the engine's clock, in    *)
(* whole ticks; only its order relative to deadlines matters.              *)
(***************************************************************************)
EXTENDS Integers, FiniteSets

CONSTANTS Requests,     \* request ids
          Events,       \* ids of output events the adapter can deliver
          Reasons,      \* terminal reasons: natural EOS, length, abort, error
          TtftSlo,      \* ttft_slo_seconds, in ticks
          TbtSlo,       \* tbt_slo_seconds, in ticks
          MaxTime,      \* bound: the clock stops here
          ReuseIds,     \* may a terminated request's id be registered again?
          None          \* Python's None

ASSUME LedgerAssumption ==
    /\ TtftSlo \in Nat \ {0}
    /\ TbtSlo \in Nat \ {0}
    /\ MaxTime \in Nat
    /\ ReuseIds \in BOOLEAN
    /\ None \notin Nat
    /\ None \notin Reasons

VARIABLES now,                \* the clock
          requests,           \* _requests: the live requests' records
          seen_event_ids,     \* _seen_event_ids
          settled,            \* _settled_obligation_ids
          terminal_counts,    \* _terminal_counts
          updates,            \* the outcomes of the LedgerUpdates returned so far
          fault               \* the exception that stopped the engine, if any

vars == <<now, requests, seen_event_ids, settled, terminal_counts, updates, fault>>

-----------------------------------------------------------------------------
Deadline == Nat \cup {None}

RequestLedger ==
    [ttft : Deadline, tbt : Deadline, tbt_sequence : Nat,
     first_token_returned : BOOLEAN,
     recovery_first_miss_time : Deadline, goodput_eligible : BOOLEAN]

ObligationIds == Requests \X {"TTFT", "TBT"} \X Nat

Outcomes == {"success", "miss", "cancelled"}

(* One counted outcome of a LedgerUpdate and the obligation it counts. *)
Updates == [obligation : ObligationIds, outcome : Outcomes]

Live == DOMAIN requests

TtftId(r) == <<r, "TTFT", 0>>
TbtId(r, n) == <<r, "TBT", n>>

(* The obligations a request record holds, with their deadlines. *)
TtftIds(r, q) == IF q.ttft = None THEN {} ELSE {TtftId(r)}
TbtIds(r, q) == IF q.tbt = None THEN {} ELSE {TbtId(r, q.tbt_sequence)}
ActiveIds(r) == TtftIds(r, requests[r]) \cup TbtIds(r, requests[r])

Counted(o, v) == [obligation |-> o, outcome |-> v]

-----------------------------------------------------------------------------
Init ==
    /\ now = 0
    /\ requests = [r \in {} |-> None]
    /\ seen_event_ids = {}
    /\ settled = {}
    /\ terminal_counts = [reason \in Reasons |-> 0]
    /\ updates = {}
    /\ fault = "none"

Tick ==
    /\ fault = "none"
    /\ now < MaxTime
    /\ now' = now + 1
    /\ UNCHANGED <<requests, seen_event_ids, settled, terminal_counts, updates, fault>>

(* register_request: an id that is live is refused; one that terminated is  *)
(* not.  The arrival time was stamped by the frontend, so it may be old.    *)
RegisterRequest(r, arrival_time) ==
    /\ fault = "none"
    /\ r \notin Live
    /\ ReuseIds \/ TtftId(r) \notin settled
    /\ requests' = [x \in Live \cup {r} |->
            IF x = r
            THEN [ttft |-> arrival_time + TtftSlo, tbt |-> None, tbt_sequence |-> 0,
                  first_token_returned |-> FALSE,
                  recovery_first_miss_time |-> None, goodput_eligible |-> TRUE]
            ELSE requests[x]]
    /\ UNCHANGED <<now, seen_event_ids, settled, terminal_counts, updates, fault>>

-----------------------------------------------------------------------------
(* Slips of RecordMiss: storing the time left, and restarting Recovery.      *)
RecordMissTimeLeft(q, kind, deadline) ==
    [q EXCEPT !.goodput_eligible = FALSE,
              !.recovery_first_miss_time =
                  IF kind = "TBT" /\ @ = None THEN deadline - now ELSE @]
RecordMissRestarts(q, kind, deadline) ==
    [q EXCEPT !.goodput_eligible = FALSE,
              !.recovery_first_miss_time = IF kind = "TBT" THEN deadline ELSE @]

(* _record_miss: Goodput is lost, and a first TBT miss starts Recovery.     *)
RecordMiss(q, kind, deadline) ==
    [q EXCEPT !.goodput_eligible = FALSE,
              !.recovery_first_miss_time =
                  IF kind = "TBT" /\ @ = None THEN deadline ELSE @]

(* _settle: a token on its deadline is in time. *)
Verdict(deadline) == IF now <= deadline THEN "success" ELSE "miss"

(* _settle_request_obligation: an ineligible request records nothing more.  *)
SettledByToken(q, kind, deadline) ==
    IF q.goodput_eligible /\ Verdict(deadline) = "miss"
    THEN RecordMiss(q, kind, deadline)
    ELSE q

(* The obligation a returned token settles: TTFT first, else the open TBT.  *)
TokenSettles(r, q) == IF q.ttft # None THEN TtftIds(r, q) ELSE TbtIds(r, q)

(* A slip: counting the outcomes of requests that already lost Goodput. *)
TokenVerdictsAlways(r, q) ==
    {Counted(o, Verdict(IF q.ttft # None THEN q.ttft ELSE q.tbt)) : o \in TokenSettles(r, q)}

TokenVerdicts(r, q) ==
    IF q.goodput_eligible
    THEN {Counted(o, Verdict(IF q.ttft # None THEN q.ttft ELSE q.tbt)) :
             o \in TokenSettles(r, q)}
    ELSE {}

(* A slip: the TTFT obligation stays open after the first token. *)
AfterTokenKeepsTtft(q) ==
    IF q.ttft # None
    THEN [SettledByToken(q, "TTFT", q.ttft) EXCEPT !.first_token_returned = TRUE]
    ELSE [SettledByToken(q, "TBT", q.tbt) EXCEPT !.tbt = None]

(* The record after the token branch of observe_output; a token whose       *)
(* obligation expired earlier is late and only marks the first token.       *)
AfterToken(q) ==
    IF q.ttft # None
    THEN [SettledByToken(q, "TTFT", q.ttft) EXCEPT
             !.ttft = None, !.first_token_returned = TRUE]
    ELSE IF q.tbt # None
    THEN [SettledByToken(q, "TBT", q.tbt) EXCEPT !.tbt = None]
    ELSE [q EXCEPT !.first_token_returned = TRUE]

(* A token for a request that owes none and never settled its TTFT raises.  *)
Orphaned(r, q) ==
    /\ q.ttft = None /\ q.tbt = None
    /\ ~q.first_token_returned
    /\ TtftId(r) \notin settled

(* A slip: the next TBT obligation takes the number of the last one. *)
OpenSameTbt(q) == [q EXCEPT !.tbt = now + TbtSlo]

(* A nonterminal token opens the next TBT obligation from its return time. *)
OpenNextTbt(q) == [q EXCEPT !.tbt_sequence = @ + 1, !.tbt = now + TbtSlo]

(* observe_output, nonterminal token: settle, then open the next TBT. *)
ReturnToken(e, r) ==
    /\ fault = "none"
    /\ e \in Events \ seen_event_ids
    /\ r \in Live
    /\ seen_event_ids' = seen_event_ids \cup {e}
    /\ LET q == requests[r] IN
       IF TokenSettles(r, q) \cap settled # {} \/ Orphaned(r, q)
       THEN /\ fault' = IF Orphaned(r, q) THEN "orphan" ELSE "duplicate"
            /\ UNCHANGED <<requests, settled, updates>>
       ELSE /\ settled' = settled \cup TokenSettles(r, q)
            /\ updates' = updates \cup TokenVerdicts(r, q)
            /\ requests' = [requests EXCEPT ![r] = OpenNextTbt(AfterToken(q))]
            /\ UNCHANGED fault
    /\ UNCHANGED <<now, terminal_counts>>

(* observe_output, terminal event.  Natural EOS carries the last token,      *)
(* which settles; an abort carries none and cancels what is still open.      *)
Terminate(e, r, token_count, reason) ==
    /\ fault = "none"
    /\ e \in Events \ seen_event_ids
    /\ r \in Live
    /\ seen_event_ids' = seen_event_ids \cup {e}
    /\ LET q == requests[r]
           returned == IF token_count = 1 THEN TokenSettles(r, q) ELSE {}
           cancelled == ActiveIds(r) \ returned
           orphan == token_count = 1 /\ Orphaned(r, q)
       IN IF ActiveIds(r) \cap settled # {} \/ orphan
          THEN /\ fault' = IF orphan THEN "orphan" ELSE "duplicate"
               /\ UNCHANGED <<requests, settled, updates, terminal_counts>>
          ELSE /\ settled' = settled \cup ActiveIds(r)
               /\ updates' = updates \cup {Counted(o, "cancelled") : o \in cancelled}
                                \cup (IF token_count = 1 THEN TokenVerdicts(r, q) ELSE {})
               /\ terminal_counts' = [terminal_counts EXCEPT ![reason] = @ + 1]
               /\ requests' = [x \in Live \ {r} |-> requests[x]]
               /\ UNCHANGED fault
    /\ UNCHANGED now

-----------------------------------------------------------------------------
(* A slip: a deadline expires only after the clock has passed it. *)
PassedStrictly(deadline) == deadline # None /\ deadline < now

Passed(deadline) == deadline # None /\ deadline <= now

DueIds(r) ==
    {o \in ActiveIds(r) :
        Passed(IF o = TtftId(r) THEN requests[r].ttft ELSE requests[r].tbt)}

(* A slip: expiry of the first token leaves its obligation open. *)
AfterTtftExpiryKeeps(q) ==
    IF Passed(q.ttft) THEN RecordMiss(q, "TTFT", q.ttft) ELSE q

(* The record of a request after expire_deadlines visited it: TTFT, then TBT. *)
AfterTtftExpiry(q) ==
    IF Passed(q.ttft)
    THEN [RecordMiss(q, "TTFT", q.ttft) EXCEPT !.ttft = None]
    ELSE q

AfterExpiry(q) ==
    IF Passed(q.tbt)
    THEN [RecordMiss(AfterTtftExpiry(q), "TBT", q.tbt) EXCEPT !.tbt = None]
    ELSE AfterTtftExpiry(q)

(* A slip: expiry reports misses of requests that already lost Goodput. *)
ExpiryMissesAlways(r) == {Counted(o, "miss") : o \in DueIds(r)}

ExpiryMisses(r) ==
    IF requests[r].goodput_eligible
    THEN {Counted(o, "miss") : o \in DueIds(r)}
    ELSE {}

Expire(visited) ==
    /\ settled' = settled \cup UNION {DueIds(r) : r \in visited}
    /\ requests' = [r \in Live |->
                       IF r \in visited THEN AfterExpiry(requests[r]) ELSE requests[r]]

(* expire_deadlines: every deadline at or before now, in one pass over the   *)
(* sorted ids.  When one of them was settled before, the pass raises there:  *)
(* the requests before it stay expired, and the updates of the pass are lost *)
(* with the exception (ids are arbitrary, so any others may sort first).     *)
ExpireDeadlines ==
    LET clashing == {r \in Live : DueIds(r) \cap settled # {}} IN
    /\ fault = "none"
    /\ IF clashing = {}
       THEN /\ Expire(Live)
            /\ updates' = updates \cup UNION {ExpiryMisses(r) : r \in Live}
            /\ UNCHANGED fault
       ELSE /\ \E visited \in SUBSET (Live \ clashing) : Expire(visited)
            /\ fault' = "duplicate"
            /\ UNCHANGED updates
    /\ UNCHANGED <<now, seen_event_ids, terminal_counts>>

-----------------------------------------------------------------------------
Register == \E r \in Requests, arrival_time \in 0..now : RegisterRequest(r, arrival_time)
Token == \E e \in Events, r \in Requests : ReturnToken(e, r)
EndOfRequest == \E e \in Events, r \in Requests, n \in {0, 1}, reason \in Reasons :
                    Terminate(e, r, n, reason)

Next == Tick \/ Register \/ Token \/ EndOfRequest \/ ExpireDeadlines

Spec == Init /\ [][Next]_vars

(* The clock runs, and the engine loop calls schedule(), hence expiry, as    *)
(* long as it has work.  Nothing obliges a request to arrive or a model to   *)
(* return tokens.                                                            *)
FairSpec == Spec /\ WF_vars(Tick) /\ WF_vars(ExpireDeadlines)

-----------------------------------------------------------------------------
(* Types of the ledger's state (class ObligationLedger and _RequestLedger). *)
TypeOK ==
    /\ now \in 0..MaxTime
    /\ Live \subseteq Requests
    /\ requests \in [Live -> RequestLedger]
    /\ seen_event_ids \subseteq Events
    /\ settled \subseteq ObligationIds
    /\ terminal_counts \in [Reasons -> Nat]
    /\ updates \subseteq Updates
    /\ fault \in {"none", "duplicate", "orphan"}

(* No legal sequence of calls makes the ledger raise: the checks that an     *)
(* obligation was not settled before, and that a token has an obligation to  *)
(* answer, never fire (when request ids are unique).                         *)
NeverRaises == fault = "none"

(* The docstring of DuplicateLedgerEvent (state_store.py:102): "Raised when  *)
(* the same actual output callback is delivered twice".  The model never     *)
(* delivers an event twice, so the exception must not occur at all.          *)
RaisedOnlyOnRedelivery == fault # "duplicate"

(* Books balance: an open obligation is not settled, a request has at most   *)
(* one open, and every counted outcome belongs to exactly one settlement, so *)
(* expiry followed by the late token never counts a miss twice.              *)
SettledOnce ==
    /\ \A r \in Live : ActiveIds(r) \cap settled = {}
    /\ \A r \in Live : requests[r].ttft = None \/ requests[r].tbt = None
    /\ \A u \in updates : u.obligation \in settled
    /\ \A u, w \in updates : u.obligation = w.obligation => u = w

MissesOf(r) == {u \in updates : u.outcome = "miss" /\ u.obligation[1] = r}

(* Request-level Goodput is lost by the first reported miss and by nothing   *)
(* else: an eligible live request has none, an ineligible one exactly one,   *)
(* whichever of expiry and late token reported it.                           *)
GoodputIsFirstMiss ==
    /\ \A r \in Live : requests[r].goodput_eligible <=> MissesOf(r) = {}
    /\ \A r \in Requests : \A u, w \in MissesOf(r) : u = w

(* A request's obligations are settled in the order of their numbers.        *)
SettledInOrder ==
    /\ \A r \in Live : requests[r].ttft = None <=> TtftId(r) \in settled
    /\ \A o \in settled : TtftId(o[1]) \in settled
    /\ \A r \in Live : \A o \in settled :
          o[1] = r /\ o[2] = "TBT" =>
              IF requests[r].tbt = None
              THEN o[3] <= requests[r].tbt_sequence
              ELSE o[3] < requests[r].tbt_sequence

(* Why the ledger never raises: an inductive invariant.  An id about to be   *)
(* settled is not settled because its number is the request's latest and     *)
(* settlement went in order.                                                 *)
LedgerInv ==
    TypeOK /\ NeverRaises /\ SettledOnce /\ SettledInOrder /\ GoodputIsFirstMiss

(* While a request lives, lost Goodput is not regained and the first miss    *)
(* time that decides recovery_due is not moved ("monotonic", line 293).      *)
RecoveryIsSticky ==
    [][\A r \in Live \cap Live' :
          /\ ~requests[r].goodput_eligible => ~requests'[r].goodput_eligible
          /\ requests[r].recovery_first_miss_time # None =>
                /\ ~requests[r].goodput_eligible
                /\ requests'[r].recovery_first_miss_time =
                      requests[r].recovery_first_miss_time]_vars

OpenedTbt == {o \in settled : o[2] = "TBT"} \cup UNION {TbtIds(r, requests[r]) : r \in Live}

(* The terminal events counted so far, numbered within their reason. *)
Terminations == UNION {{reason} \X (1..terminal_counts[reason]) : reason \in Reasons}

(* Each output event is applied exactly once: every event seen either opened *)
(* the next TBT obligation of its request or terminated it.                  *)
EventsConserved ==
    fault = "none" =>
        Cardinality(seen_event_ids) = Cardinality(OpenedTbt) + Cardinality(Terminations)

(* The obligations in the order in which a request opens them. *)
Numbers == 0..Cardinality(Events)
IdOf(r, n) == IF n = 0 THEN TtftId(r) ELSE TbtId(r, n)

ContractStatus(r, n) ==
    IF r \in Live /\ IdOf(r, n) \in ActiveIds(r) THEN "active"
    ELSE IF IdOf(r, n) \notin settled THEN "unborn"
    ELSE IF \E u \in updates : u.obligation = IdOf(r, n)
    THEN (CHOOSE u \in updates : u.obligation = IdOf(r, n)).outcome
    ELSE "retired"

ContractState == [r \in Requests |-> [n \in Numbers |-> ContractStatus(r, n)]]

Contract == INSTANCE ObligationContract WITH status <- ContractState

(* The ledger implements its contract: every obligation is created and       *)
(* settled exactly once, in order, and the first miss is the last verdict.   *)
ImplementsContract == Contract!Spec

(* Every obligation is settled: by the model's token, by the end of its      *)
(* request, or by the expiry of its deadline, even if no token ever comes.   *)
EveryDeadlineSettles ==
    \A r \in Requests :
        /\ (r \in Live /\ requests[r].ttft \in 0..MaxTime) ~> (TtftId(r) \in settled)
        /\ \A n \in Numbers \ {0} :
              (/\ r \in Live /\ requests[r].tbt \in 0..MaxTime
               /\ requests[r].tbt_sequence = n) ~> (TbtId(r, n) \in settled)
=============================================================================
