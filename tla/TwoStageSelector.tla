---------------------------- MODULE TwoStageSelector ----------------------------
(***************************************************************************)
(* DPPSelector of dpp_selector.py: one call of select over the safe plans   *)
(* of a round.  Stage 1 drops the plans that would miss more TBT deadlines   *)
(* than decoding alone (ZERO), by their conservative duration; stage 2 ranks *)
(* the rest by prefill tokens per unit of effective duration, by a loop that *)
(* takes the leader of what remains together with all plans tied with it.    *)
(*                                                                         *)
(* Durations and slacks (deadline minus snapshot time) are integer ticks.    *)
(* Rates are compared by cross-multiplication; the two tolerances of         *)
(* math.isclose are hundredths, far coarser than the code's 1e-9 and 1e-12,  *)
(* so that ties and chains of ties do occur.                                 *)
(***************************************************************************)
EXTENDS Integers, FiniteSets, SequencesExt

CONSTANTS Plans,       \* plan ids, naturals in the order of the code's strings
          Template,    \* template_id of each plan: "ZERO", "STOCK" or a fraction
          Decodes,     \* the active decode requests
          Predictions, \* what the predictor may say of a plan
          MaxSafe,     \* bound: plans in a safe set
          Slacks,      \* the slack a TBT obligation may have
          MaxPrefill,  \* bound: prefill tokens of a plan
          Limit,       \* maximum_incremental_tbt_violations
          RelTol,      \* score_rel_tol, in hundredths
          AbsTol       \* score_abs_tol, in hundredths

ASSUME SelectorAssumption ==
    /\ Plans \subseteq Nat /\ IsFiniteSet(Plans)
    /\ Template \in [Plans -> {"ZERO", "STOCK", "FRACTION"}]
    /\ IsFiniteSet(Decodes)
    /\ Predictions \subseteq [expected : Nat \ {0}, conservative : Nat \ {0}, in_support : BOOLEAN]
    /\ \A q \in Predictions : q.expected <= q.conservative
    /\ Slacks \subseteq Int
    /\ {MaxSafe, MaxPrefill, Limit, RelTol, AbsTol} \subseteq Nat

VARIABLES safe,       \* the safe candidates, by plan id
          slack,      \* the slack of each active TBT obligation, by request
          status,     \* where the call is, or how it ended
          eligible,   \* the plans stage 1 passed
          remaining,  \* the plans stage 2 has not ranked yet
          ranked      \* the plans it has ranked, best first

vars == <<safe, slack, status, eligible, remaining, ranked>>

(* The work of a candidate, as the generator leaves it: ZERO and the          *)
(* fractions decode everything, STOCK what fits.                             *)
Works(p) ==
    {w \in [prefill : 0..MaxPrefill, decode : SUBSET Decodes] :
        /\ Template[p] = "ZERO" => w.prefill = 0
        /\ Template[p] = "FRACTION" => w.prefill > 0
        /\ Template[p] # "STOCK" => w.decode = Decodes
        /\ w.prefill > 0 \/ w.decode # {}}

(* A safe candidate: its work and its prediction. *)
Candidate(w, q) ==
    [prefill |-> w.prefill, decode |-> w.decode,
     expected |-> q.expected, conservative |-> q.conservative, in_support |-> q.in_support]

(* effective_duration: expected in support, conservative out of it. *)
Duration(p) == IF safe[p].in_support THEN safe[p].expected ELSE safe[p].conservative

-----------------------------------------------------------------------------
(* _misses, by the conservative duration (stage1_risk_duration): a token at  *)
(* the deadline is in time, no token at it is a miss.  In a slip stage 1     *)
(* looks at the expected duration.                                           *)
MissesExpected(p) ==
    {r \in DOMAIN slack :
        IF r \in safe[p].decode THEN safe[p].expected > slack[r]
        ELSE safe[p].expected >= slack[r]}

Misses(p) ==
    {r \in DOMAIN slack :
        IF r \in safe[p].decode THEN safe[p].conservative > slack[r]
        ELSE safe[p].conservative >= slack[r]}

(* _zero_reference: the plans that decode everything and prefill nothing, in *)
(* order of preference.                                                      *)
References == {p \in DOMAIN safe : safe[p].prefill = 0 /\ safe[p].decode = Decodes}

Preference(p) == CASE Template[p] = "ZERO" -> 0 [] Template[p] = "STOCK" -> 1 [] OTHER -> 2

ZeroReference ==
    CHOOSE p \in References : \A q \in References :
        Preference(p) < Preference(q) \/ (Preference(p) = Preference(q) /\ p <= q)

(* delta_n, by obligation: a miss the reference shares is not counted, and a *)
(* miss it alone has does not offset one.  In a slip every miss counts.      *)
DeltaAbsolute(p) == Cardinality(Misses(p))

DeltaViolations(p) == Cardinality(Misses(p) \ Misses(ZeroReference))

(* _tbt_stage *)
Passed ==
    IF DOMAIN slack = {} THEN DOMAIN safe
    ELSE {p \in DOMAIN safe : DeltaViolations(p) <= Limit}

-----------------------------------------------------------------------------
(* Scores are prefill tokens over duration; Cross(p, q) is p's score in the  *)
(* common denominator of both.                                               *)
Cross(p, q) == safe[p].prefill * Duration(q)
Larger(a, b) == IF a >= b THEN a ELSE b
Distance(a, b) == IF a >= b THEN a - b ELSE b - a

(* math.isclose *)
IsClose(p, q) ==
    LET distance == 100 * Distance(Cross(p, q), Cross(q, p)) IN
    \/ distance <= RelTol * Larger(Cross(p, q), Cross(q, p))
    \/ distance <= AbsTol * Duration(p) * Duration(q)

(* A slip: a plan without prefill service may tie with one that has some.    *)
TiedUnguarded(p, leader) == IsClose(p, leader)

(* What ties with the leader: close to it, and of zero score just if it is.  *)
Tied(p, leader) ==
    /\ (safe[p].prefill = 0) = (safe[leader].prefill = 0)
    /\ IsClose(p, leader)

(* The leader of S: the best score, the smallest id among equals. *)
Leads(p, q) == Cross(p, q) > Cross(q, p) \/ (Cross(p, q) = Cross(q, p) /\ p <= q)
Leader(S) == CHOOSE p \in S : \A q \in S : Leads(p, q)

(* A slip: ties chain, each plan joining through one that already has.       *)
GroupChained(S) ==
    {p \in S : \E q \in S : Tied(q, Leader(S)) /\ Tied(p, q)}

Group(S) == {p \in S : Tied(p, Leader(S))}

(* _tie_key: the shorter plan, then the larger one, then the smaller id.     *)
TieBefore(p, q) ==
    \/ Duration(p) < Duration(q)
    \/ Duration(p) = Duration(q) /\ safe[p].prefill > safe[q].prefill
    \/ Duration(p) = Duration(q) /\ safe[p].prefill = safe[q].prefill /\ p < q

(* The members of S from the first to the last. *)
InOrderOf(S, Before(_, _)) ==
    [i \in 1..Cardinality(S) |->
        CHOOSE p \in S : Cardinality({q \in S : Before(q, p)}) = i - 1]

(* A slip: of a group, only the leader is struck off what remains.           *)
RestWithoutLeader(S) == S \ {Leader(S)}
Rest(S) == S \ Group(S)

-----------------------------------------------------------------------------
Init ==
    /\ \E known \in SUBSET Plans :
          /\ Cardinality(known) <= MaxSafe
          /\ \E work \in [known -> UNION {Works(p) : p \in known}] :
                /\ \A p \in known : work[p] \in Works(p)
                /\ \E prediction \in [known -> Predictions] :
                      safe = [p \in known |-> Candidate(work[p], prediction[p])]
    /\ \E due \in SUBSET Decodes : slack \in [due -> Slacks]
    /\ status = "stage1"
    /\ eligible = {} /\ remaining = {} /\ ranked = <<>>

TbtStage ==
    /\ status = "stage1"
    /\ IF DOMAIN safe # {} /\ DOMAIN slack # {} /\ References = {}
       THEN /\ status' = "zero_reference_missing"
            /\ UNCHANGED <<eligible, remaining>>
       ELSE /\ eligible' = Passed
            /\ remaining' = Passed
            /\ status' = IF Passed = {} THEN "no_safe_decision" ELSE "stage2"
    /\ UNCHANGED <<safe, slack, ranked>>

(* One turn of the loop of _rank_scores. *)
RankGroup ==
    /\ status = "stage2"
    /\ remaining # {}
    /\ ranked' = ranked \o InOrderOf(Group(remaining), TieBefore)
    /\ remaining' = Rest(remaining)
    /\ UNCHANGED <<safe, slack, status, eligible>>

(* The end of _run, with its check of the winner. *)
Decide ==
    /\ status = "stage2"
    /\ remaining = {}
    /\ status' = IF safe[ranked[1]].prefill = 0 /\ \E p \in eligible : safe[p].prefill > 0
                 THEN "zero_selected_over_prefill" ELSE "selected"
    /\ UNCHANGED <<safe, slack, eligible, remaining, ranked>>

Next == TbtStage \/ RankGroup \/ Decide

Spec == Init /\ [][Next]_vars

-----------------------------------------------------------------------------
(* dpp_selector.py:556: the check that no plan without prefill service wins  *)
(* over an eligible one with some never fires, whatever the tolerances.      *)
ZeroNeverBeatsPrefill == status # "zero_selected_over_prefill"

(* How a call ends is what a round assumes of it (BatchPlans, where the      *)
(* selector is ReferenceMissing and MaySelect): every safe set has a decision *)
(* unless deadlines lack their reference, and without deadlines a plan that   *)
(* serves no prefill is selected only if none serves any.                    *)
EndsAsAssumed ==
    /\ status = "no_safe_decision" => DOMAIN safe = {}
    /\ status = "zero_reference_missing" =>
          DOMAIN safe # {} /\ DOMAIN slack # {} /\ References = {}
    /\ status = "selected" =>
          /\ ranked[1] \in DOMAIN safe
          /\ DOMAIN slack # {} => References # {}
          /\ DOMAIN slack = {} /\ safe[ranked[1]].prefill = 0 =>
                \A p \in DOMAIN safe : safe[p].prefill = 0

(* r's deadline outlasts the plan, or its token comes with the deadline. *)
Keeps(p, r) ==
    \/ safe[p].conservative < slack[r]
    \/ safe[p].conservative = slack[r] /\ r \in safe[p].decode

(* Even at its conservative duration the winner keeps, but for Limit of them, *)
(* the TBT deadlines that decoding alone would keep; with the limit 0 of the  *)
(* configuration, all of them.                                                *)
SelectedKeepsDeadlines ==
    status = "selected" /\ DOMAIN slack # {} =>
        \E zero \in DOMAIN safe :
            /\ safe[zero].prefill = 0 /\ safe[zero].decode = Decodes
            /\ Cardinality({r \in DOMAIN slack :
                               Keeps(zero, r) /\ ~Keeps(ranked[1], r)}) <= Limit

(* Every eligible plan is ranked once or still to be ranked, and though ties *)
(* with a leader are not transitive, none is ranked behind one that is       *)
(* slower beyond the tolerances.                                             *)
RankedWithinTolerance ==
    /\ IsInjective(ranked) /\ remaining = eligible \ ToSet(ranked)
    /\ \A i, j \in DOMAIN ranked :
          i < j /\ Cross(ranked[j], ranked[i]) > Cross(ranked[i], ranked[j])
              => IsClose(ranked[i], ranked[j])
=============================================================================
