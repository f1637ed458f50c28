----------------------------- MODULE SelectorReplay -----------------------------
(***************************************************************************)
(* The diagnosis record of a selector call and its replay                   *)
(* (selector_diagnosis.py, schema 4; scripts/replay_stage1_delta_n0.py).     *)
(* The writer logs the inputs and every result of the call; replay_record    *)
(* computes the results again from the logged inputs with code of its own,   *)
(* and counts where the two disagree.  A run is accepted only if every count *)
(* is zero, so the replay must be silent on what the selector did and speak  *)
(* up on anything else: a second implementation that checks the first.       *)
(*                                                                         *)
(* The calls are those of TwoStageSelector.  A logged decision may be altered *)
(* once before it is replayed, as the tests of the replay do it; which of    *)
(* the counters are nonzero is all that is kept of them.  The snapshot time   *)
(* is 0, so that a slack is a deadline.                                      *)
(***************************************************************************)
EXTENDS TwoStageSelector

CONSTANT MaxAltered    \* bound: safe plans of a call whose record is altered

ASSUME ReplayAssumption ==
    /\ MaxAltered \in Nat
    /\ 0 \notin Plans    \* NoPlan

VARIABLES record,     \* the logged record, or NoRecord
          mismatches  \* the nonzero counters of its replay, or NotReplayed

rvars == <<vars, record, mismatches>>

NoRecord == <<>>
NotReplayed == {"not replayed"}
NoPlan == 0
Counters == {"stage1", "stage2", "winner", "tie_break", "invariant"}

-----------------------------------------------------------------------------
(* What the selector's audit adds to its decision: lateness beyond ZERO's,   *)
(* summed over the obligations, and how the reference was found.             *)
Lateness(duration, deadline) == IF duration > deadline THEN duration - deadline ELSE 0

DeltaLateness(p) ==
    SumFunction([r \in DOMAIN slack |->
                    Lateness(Lateness(safe[p].conservative, slack[r]),
                             Lateness(safe[ZeroReference].conservative, slack[r]))])

Resolution(template) ==
    CASE template = "ZERO" -> "ZERO_TEMPLATE" [] template = "STOCK" -> "STOCK_IDENTITY"
      [] OTHER -> "ZERO_SERVICE_MATCH"

(* TBTCandidateResult of a safe plan. *)
Stage1Row(p) ==
    IF DOMAIN slack = {}
    THEN [effective |-> Duration(p), risk |-> safe[p].conservative, violations |-> 0,
          zero |-> 0, delta |-> 0, lateness |-> 0, passed |-> TRUE]
    ELSE [effective |-> Duration(p), risk |-> safe[p].conservative,
          violations |-> Cardinality(Misses(p)),
          zero |-> Cardinality(Misses(ZeroReference)),
          delta |-> DeltaViolations(p), lateness |-> DeltaLateness(p),
          passed |-> p \in eligible]

(* The first group of the ranking, in its order: winner_tie_plan_ids. *)
WinnerTie == IF eligible = {} THEN <<>> ELSE InOrderOf(Group(eligible), TieBefore)

(* TBTStageResult *)
Stage1Result ==
    LET compared == DOMAIN safe # {} /\ DOMAIN slack # {} IN
    [status |-> IF DOMAIN safe = {} THEN "NO_SAFE_CANDIDATES"
                ELSE IF DOMAIN slack = {} THEN "NO_ACTIVE_TBT_OBLIGATION" ELSE "DELTA_N_ADMITTED",
     eligible |-> eligible,
     reference |-> IF compared THEN ZeroReference ELSE NoPlan,
     resolution |-> IF compared THEN Resolution(Template[ZeroReference]) ELSE "NOT_NEEDED",
     reference_risk |-> IF compared THEN safe[ZeroReference].conservative ELSE 0,
     reference_violations |-> IF compared THEN Cardinality(Misses(ZeroReference)) ELSE 0]

(* The record the writer logs of a finished call. *)
Record ==
    [candidates |-> safe, deadlines |-> slack, limit |-> Limit,
     stage1 |-> Stage1Result,
     rows |-> [p \in DOMAIN safe |-> Stage1Row(p)],
     service |-> [p \in eligible |->
                     [rank |-> CHOOSE i \in DOMAIN ranked : ranked[i] = p,
                      tokens |-> safe[p].prefill, duration |-> Duration(p),
                      coverage |-> safe[p].decode = Decodes]],
     winner |-> IF ranked = <<>> THEN NoPlan ELSE ranked[1],
     tie |-> WinnerTie,
     nonzero |-> Cardinality({p \in eligible : safe[p].prefill > 0})]

-----------------------------------------------------------------------------
(* The replay of a record.  Its durations, and what a plan misses and by how *)
(* much.                                                                     *)
EffectiveOf(c) == IF c.in_support THEN c.expected ELSE c.conservative

Missed(rec, c) ==
    {r \in DOMAIN rec.deadlines :
        \/ c.conservative > rec.deadlines[r]
        \/ c.conservative = rec.deadlines[r] /\ r \notin c.decode}

(* full_decode_zero, and the first of the three preferences that finds one;  *)
(* NoPlan if none does.                                                      *)
FullDecodeZero(rec) ==
    {p \in DOMAIN rec.candidates :
        rec.candidates[p].prefill = 0 /\ rec.candidates[p].decode = Decodes}

ReplayedReference(rec) ==
    LET zeros == {p \in FullDecodeZero(rec) : Template[p] = "ZERO"}
        stocks == {p \in FullDecodeZero(rec) : Template[p] = "STOCK"}
        best == IF zeros # {} THEN zeros ELSE IF stocks # {} THEN stocks ELSE FullDecodeZero(rec)
    IN IF best = {} THEN NoPlan ELSE Min(best)

(* What the record should say of a plan against the reference z. *)
ReplayedRow(rec, p, z) ==
    LET c == rec.candidates[p]
        base == rec.candidates[z]
        extra == [r \in DOMAIN rec.deadlines |->
                     Max({0, Lateness(c.conservative, rec.deadlines[r])
                              - Lateness(base.conservative, rec.deadlines[r])})]
        delta == Cardinality(Missed(rec, c) \ Missed(rec, base))
    IN [effective |-> EffectiveOf(c), risk |-> c.conservative,
        violations |-> Cardinality(Missed(rec, c)), zero |-> Cardinality(Missed(rec, base)),
        delta |-> delta, lateness |-> SumFunction(extra),
        passed |-> delta <= rec.limit]

UnconstrainedRow(c) ==
    [effective |-> EffectiveOf(c), risk |-> c.conservative, violations |-> 0, zero |-> 0,
     delta |-> 0, lateness |-> 0, passed |-> TRUE]

ReplayedRows(rec) ==
    [p \in DOMAIN rec.candidates |->
        IF DOMAIN rec.deadlines = {} THEN UnconstrainedRow(rec.candidates[p])
        ELSE ReplayedRow(rec, p, ReplayedReference(rec))]

(* The plans the replay admits, and what it does not find confirmed in the   *)
(* logged stage: of the reference nothing, unless plans were compared.       *)
ReplayedEligible(rec) ==
    LET rows == ReplayedRows(rec) IN {p \in DOMAIN rows : rows[p].passed}

ReplayedStatus(rec) ==
    IF DOMAIN rec.candidates = {} THEN "NO_SAFE_CANDIDATES"
    ELSE IF DOMAIN rec.deadlines = {} THEN "NO_ACTIVE_TBT_OBLIGATION" ELSE "DELTA_N_ADMITTED"

ReferenceMismatch(rec) ==
    LET z == ReplayedReference(rec) IN
    \/ rec.stage1.reference # z
    \/ rec.stage1.resolution # Resolution(Template[z])
    \/ rec.stage1.reference_risk # rec.candidates[z].conservative
    \/ rec.stage1.reference_violations # Cardinality(Missed(rec, rec.candidates[z]))

Stage1Mismatch(rec) ==
    \/ rec.rows # ReplayedRows(rec)
    \/ rec.stage1.status # ReplayedStatus(rec)
    \/ rec.stage1.eligible # ReplayedEligible(rec)
    \/ ReplayedStatus(rec) = "DELTA_N_ADMITTED" /\ ReferenceMismatch(rec)
    \/ ReplayedStatus(rec) = "NO_ACTIVE_TBT_OBLIGATION" /\ rec.stage1.resolution # "NOT_NEEDED"

-----------------------------------------------------------------------------
(* _rank_service_candidates and rank_service_rate: the scores in a common     *)
(* denominator, the candidates tied with the first of what remains in the    *)
(* order of their tie key, then the rest.                                     *)
ScoreOver(c, d) == c.prefill * EffectiveOf(d)

CloseScores(c, d) ==
    LET a == ScoreOver(c, d)
        b == ScoreOver(d, c)
        gap == 100 * (Max({a, b}) - Min({a, b}))
    IN gap <= Max({RelTol * Max({a, b}), AbsTol * EffectiveOf(c) * EffectiveOf(d)})

TieKeyBefore(cs, p, q) ==
    LET key(x) == <<EffectiveOf(cs[x]), -cs[x].prefill, x>>
        i == CHOOSE j \in 1..3 : key(p)[j] # key(q)[j] /\ \A k \in 1..(j - 1) : key(p)[k] = key(q)[k]
    IN p # q /\ key(p)[i] < key(q)[i]

FirstGroup(cs, S) ==
    LET first == CHOOSE p \in S : \A q \in S \ {p} :
                     \/ ScoreOver(cs[p], cs[q]) > ScoreOver(cs[q], cs[p])
                     \/ ScoreOver(cs[p], cs[q]) = ScoreOver(cs[q], cs[p]) /\ p < q
        members == {p \in S : /\ (cs[p].prefill = 0) = (cs[first].prefill = 0)
                              /\ CloseScores(cs[p], cs[first])}
    IN InOrderOf(members, LAMBDA p, q : TieKeyBefore(cs, p, q))

Ranking(cs, eligible_ids) ==
    LET rank[S \in SUBSET eligible_ids] ==
            IF S = {} THEN <<>>
            ELSE FirstGroup(cs, S) \o rank[S \ ToSet(FirstGroup(cs, S))]
    IN rank[eligible_ids]

(* The counters of _verify_stage2_service_rate.  The coverage of a plan is   *)
(* recomputed as a count of decodes.                                         *)
ScoreMismatch(rec, ids, ranking) ==
    \/ DOMAIN rec.service # ids
    \/ \E p \in ids \cap DOMAIN rec.service :
          LET c == rec.candidates[p] IN
          \/ rec.service[p].tokens # c.prefill
          \/ rec.service[p].duration # EffectiveOf(c)
          \/ rec.service[p].coverage # (Cardinality(c.decode) = Cardinality(Decodes))
    \/ rec.nonzero # Cardinality({p \in ToSet(ranking) : rec.candidates[p].prefill > 0})

(* A slip: the recorded ranks are not looked at. *)
TieBreakMismatchOfWinners(rec, ranking, tie) == rec.tie # tie

TieBreakMismatch(rec, ranking, tie) ==
    \/ rec.tie # tie
    \/ \E i \in DOMAIN ranking : rec.service[ranking[i]].rank # i

ReplayedWinner(ranking) == IF ranking = <<>> THEN NoPlan ELSE ranking[1]

(* replay_record: which counters are nonzero.  A plan that passed and has no *)
(* logged score is left out of the ranking.                                  *)
Mismatches(rec) ==
    LET ids == ReplayedEligible(rec)
        scored == ids \cap DOMAIN rec.service
        ranking == Ranking(rec.candidates, scored)
        tie == IF scored = {} THEN <<>> ELSE FirstGroup(rec.candidates, scored)
        winner == ReplayedWinner(ranking)
    IN {k \in Counters :
         \/ k = "stage1" /\ Stage1Mismatch(rec)
         \/ k = "stage2" /\ ScoreMismatch(rec, ids, ranking)
         \/ k = "tie_break" /\ TieBreakMismatch(rec, ranking, tie)
         \/ k = "winner" /\ winner # rec.winner
         \/ /\ k = "invariant" /\ winner # NoPlan
            /\ rec.candidates[winner].prefill = 0
            /\ \E p \in scored : rec.candidates[p].prefill > 0}

-----------------------------------------------------------------------------
(* The offline counterfactual: no obligation may be missed beyond ZERO's.    *)
(* Its reference is a ZERO plan or else any plan without prefill, and all     *)
(* decodes is a matter of their number.  A slip counts the misses of the      *)
(* plan, not those beyond the reference.                                     *)
OfflineReference(rec) ==
    LET full == {p \in DOMAIN rec.candidates :
                    /\ rec.candidates[p].prefill = 0
                    /\ Cardinality(rec.candidates[p].decode) = Cardinality(Decodes)}
        zeros == {p \in full : Template[p] = "ZERO"}
    IN IF full = {} THEN NoPlan ELSE IF zeros # {} THEN Min(zeros) ELSE Min(full)

OfflineEligibleAbsolute(rec) ==
    {p \in DOMAIN rec.candidates : Missed(rec, rec.candidates[p]) = {}}

OfflineEligible(rec) ==
    IF DOMAIN rec.deadlines = {} THEN DOMAIN rec.candidates
    ELSE {p \in DOMAIN rec.candidates :
             Missed(rec, rec.candidates[p])
                 \subseteq Missed(rec, rec.candidates[OfflineReference(rec)])}

OfflineWinner(rec) == ReplayedWinner(Ranking(rec.candidates, OfflineEligible(rec)))

-----------------------------------------------------------------------------
RInit == Init /\ record = NoRecord /\ mismatches = NotReplayed

Select == Next /\ UNCHANGED <<record, mismatches>>

(* The writer refuses a winner without prefill over an eligible one with     *)
(* some; a call that raised has no record.                                   *)
Log ==
    /\ status \in {"selected", "no_safe_decision"}
    /\ record = NoRecord
    /\ record' = Record
    /\ UNCHANGED <<vars, mismatches>>

(* One logged result replaced by another one of its kind; a reference only   *)
(* if there is one.                                                          *)
Alterations(rec) ==
    {[rec EXCEPT !.winner = p] : p \in DOMAIN safe \cup {NoPlan}}
    \cup {[rec EXCEPT !.tie = t] : t \in {ranked, Reverse(rec.tie)} \cup {<<p>> : p \in eligible}}
    \cup {[rec EXCEPT !.stage1.eligible = eligible \ {p}] : p \in DOMAIN safe}
    \cup {[rec EXCEPT !.stage1.eligible = eligible \cup {p}] : p \in DOMAIN safe}
    \cup {[rec EXCEPT !.stage1.reference = p] : p \in {q \in DOMAIN safe : DOMAIN slack # {}}}
    \cup {[rec EXCEPT !.stage1.resolution = Resolution(Template[p])] : p \in DOMAIN safe}
    \cup {[rec EXCEPT !.rows[p].passed = ~@] : p \in DOMAIN safe}
    \cup {[rec EXCEPT !.rows[p].delta = @ + 1] : p \in DOMAIN safe}
    \cup {[rec EXCEPT !.service[p].rank = (@ % Cardinality(eligible)) + 1] : p \in eligible}
    \cup {[rec EXCEPT !.service[p].tokens = @ + 1] : p \in eligible}

Alter ==
    /\ record # NoRecord /\ record = Record
    /\ Cardinality(DOMAIN safe) <= MaxAltered
    /\ mismatches = NotReplayed
    /\ record' \in Alterations(record) \ {record}
    /\ UNCHANGED <<vars, mismatches>>

Replay ==
    /\ record # NoRecord
    /\ mismatches = NotReplayed
    /\ mismatches' = Mismatches(record)
    /\ UNCHANGED <<vars, record>>

RNext == Select \/ Log \/ Alter \/ Replay

RSpec == RInit /\ [][RNext]_rvars

-----------------------------------------------------------------------------
(* The replay of what the selector did finds nothing (docs/decisions.md:32:   *)
(* the replay must be zero-mismatch): two implementations of both stages,     *)
(* their ties and their reference agree on every call that ends.             *)
HonestReplayIsClean ==
    mismatches # NotReplayed /\ record = Record => mismatches = {}

(* An altered result is found, and by the counter that is about it. *)
AlterationIsFound ==
    mismatches # NotReplayed =>
        LET honest == Record IN
        /\ record.winner # honest.winner => "winner" \in mismatches
        /\ record.tie # honest.tie => "tie_break" \in mismatches
        /\ record.stage1 # honest.stage1 => "stage1" \in mismatches
        /\ record.rows # honest.rows => "stage1" \in mismatches
        /\ record.service # honest.service => {"stage2", "tie_break"} \cap mismatches # {}

(* The replay is silent on what the selector did and finds what was altered. *)
ReplayIsExact == HonestReplayIsClean /\ AlterationIsFound

(* The offline counterfactual admits no plan the selector drops, and with    *)
(* the limit 0 it admits the same and picks the same winner, though it finds  *)
(* its reference in another way: what is concluded from replaying old runs   *)
(* holds of the selector that was built.                                     *)
OfflineAgrees ==
    mismatches # NotReplayed /\ DOMAIN safe # {} /\ record = Record =>
        /\ OfflineEligible(record) \subseteq eligible
        /\ Limit = 0 => OfflineEligible(record) = eligible /\ OfflineWinner(record) = record.winner
=============================================================================
