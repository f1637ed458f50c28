------------------------ MODULE ProfilingSchedulers_proofs ------------------------
(***************************************************************************)
(* A profile has one row for each iteration vLLM counts, in order, with that *)
(* iteration's duration, its predictions rest on earlier rows, its targets   *)
(* are the recipes in their order, and its stages are the live scheduler's:  *)
(* for each of the three schedulers, every workload, every list of recipes   *)
(* and every behaviour of the timing bridge.                                 *)
(* And what the planner of target batches answers is the recipe's batch, for *)
(* every snapshot and recipe.                                                *)
(***************************************************************************)
EXTENDS ProfilingSchedulers, PlanQueries, BatchPlans_proofs

(* Python's None is not a SchedulerOutput. *)
NoneIsNoOutput == \A t, n, b : None # [tokens |-> t, number |-> n, timed |-> b]

(* The outputs and pending predictions are the records their classes declare. *)
IsOutput(o) ==
    /\ o = [tokens |-> o.tokens, number |-> o.number, timed |-> o.timed]
    /\ o.timed \in BOOLEAN

IsPending(p) ==
    p = [role |-> p.role, about |-> p.about, selected |-> p.selected,
         in_support |-> p.in_support, before |-> p.before,
         index |-> p.index, measured |-> p.measured]

IsEmpty(o) == DOMAIN o.tokens = {}

(* The rows written so far are right. *)
RowsAreRight ==
    /\ rows \in Seq({rows[i] : i \in DOMAIN rows})
    /\ \A i \in DOMAIN rows :
          rows[i].index = i - 1 /\ rows[i].about = i - 1 /\ rows[i].measured = i - 1

(* schedule() has written the row of the iteration in flight. *)
CountedAhead ==
    /\ IsOutput(output)
    /\ Len(rows) = IF IsEmpty(output) \/ output.timed THEN official ELSE official + 1

(* Its row is written when it ends, from what is pending. *)
CountedBehind ==
    /\ IsOutput(output)
    /\ IsEmpty(output) => pending = None /\ Len(rows) = official
    /\ ~IsEmpty(output) =>
          /\ Len(rows) = IF output.timed THEN official - 1 ELSE official
          /\ output.number = Len(rows)
          /\ IsPending(pending)
          /\ pending.about = Len(rows)
          /\ pending.measured \in {None, Len(rows)}

(* How many rows there are, as long as the engine runs. *)
RowsAreCounted ==
    fault = "none" =>
        /\ output = None => Len(rows) = official /\ pending = None
        /\ output # None /\ scheduler # "evaluation" => CountedAhead /\ pending = None
        /\ output # None /\ scheduler = "evaluation" => CountedBehind

RowsInv == official \in Nat /\ RowsAreRight /\ RowsAreCounted

-----------------------------------------------------------------------------
(* Appending a row leaves the others. *)
LEMMA LongerRows ==
    ASSUME RowsAreRight, NEW row, rows' = Append(rows, row)
    PROVE  /\ Len(rows) \in Nat /\ DOMAIN rows = 1..Len(rows)
           /\ Len(rows') = Len(rows) + 1 /\ DOMAIN rows' = 1..Len(rows) + 1
           /\ \A i \in 1..Len(rows) : rows'[i] = rows[i]
           /\ rows'[Len(rows) + 1] = row
  <1> DEFINE S == {rows[i] : i \in DOMAIN rows}
  <1>1. rows \in Seq(S)
    BY DEF RowsAreRight
  <1> HIDE DEF S
  <1>2. rows \in Seq(S \cup {row}) /\ row \in S \cup {row}
    BY <1>1
  <1> QED BY <1>1, <1>2

(* One more right row. *)
LEMMA OneMoreRow ==
    ASSUME RowsAreRight, NEW role, NEW selected, NEW before, NEW learned, NEW n, n = Len(rows),
           rows' = Append(rows, Row(n, role, n, n, selected, before, learned))
    PROVE  RowsAreRight' /\ Len(rows') = Len(rows) + 1
  <1> DEFINE row == Row(n, role, n, n, selected, before, learned)
             S == {rows[i] : i \in DOMAIN rows}
  <1>1. row.index = n /\ row.about = n /\ row.measured = n
    BY DEF Row
  <1> HIDE DEF row
  <1>2. rows \in Seq(S) /\ rows' = Append(rows, row)
    BY DEF RowsAreRight, row
  <1> HIDE DEF S
  <1>3. Len(rows) \in Nat /\ DOMAIN rows = 1..Len(rows)
    BY <1>2
  <1>4. rows \in Seq(S \cup {row}) /\ row \in S \cup {row}
    BY <1>2
  <1>5. /\ rows' \in Seq(S \cup {row})
        /\ Len(rows') = Len(rows) + 1
        /\ \A i \in 1..Len(rows) : rows'[i] = rows[i]
        /\ rows'[Len(rows) + 1] = row
    BY <1>2, <1>4
  <1>6. DOMAIN rows' = 1..Len(rows) + 1
    BY <1>5
  <1>7. rows' \in Seq({rows'[i] : i \in DOMAIN rows'})
    <2> DEFINE T == {rows'[i] : i \in DOMAIN rows'}
    <2>1. \A i \in 1..Len(rows') : rows'[i] \in T
      BY <1>5, <1>6
    <2> HIDE DEF T
    <2>2. rows' \in Seq(T)
      BY <1>5, <2>1
    <2> QED BY <2>2 DEF T
  <1>8. \A i \in DOMAIN rows' :
          rows'[i].index = i - 1 /\ rows'[i].about = i - 1 /\ rows'[i].measured = i - 1
    <2>1. SUFFICES ASSUME NEW i \in 1..Len(rows) + 1
                   PROVE  rows'[i].index = i - 1 /\ rows'[i].about = i - 1
                          /\ rows'[i].measured = i - 1
      BY <1>6
    <2>2. CASE i \in 1..Len(rows)
      BY <1>3, <1>5, <2>2 DEF RowsAreRight
    <2>3. CASE i = Len(rows) + 1
      BY <1>1, <1>3, <1>5, <2>3
    <2> QED BY <1>3, <2>1, <2>2, <2>3
  <1> QED BY <1>5, <1>7, <1>8 DEF RowsAreRight

LEMMA RowsInit == Init => RowsInv
  <1> SUFFICES ASSUME Init PROVE RowsInv
    OBVIOUS
  <1>1. rows = <<>> /\ official = 0 /\ output = None /\ pending = None
    BY DEF Init
  <1>2. RowsAreRight
    BY <1>1 DEF RowsAreRight
  <1> QED BY <1>1, <1>2 DEF RowsInv, RowsAreCounted

(* What an output that was executed looks like. *)
LEMMA NewOutput ==
    ASSUME NoneIsNoOutput, NEW t, NEW o, o = InFlight(t)
    PROVE  /\ o # None /\ IsOutput(o) /\ ~o.timed
           /\ o.number = official /\ (IsEmpty(o) <=> DOMAIN t = {})
  BY DEF NoneIsNoOutput, InFlight, IsOutput, IsEmpty

(* schedule() leaves one row or one pending prediction for the batch whose   *)
(* tokens are t, none if it is empty.                                        *)
LEMMA Recorded ==
    ASSUME NoneIsNoOutput, RowsInv, fault = "none", output = None, official' = official, scheduler' = scheduler,
           NEW t, NEW role, NEW selected, selected = {} <=> DOMAIN t = {},
           Record(role, selected), fault' = "none" => output' = InFlight(t)
    PROVE  RowsInv'
  <1>1. Len(rows) = official /\ pending = None /\ RowsAreRight /\ official \in Nat
    BY DEF RowsInv, RowsAreCounted
  <1>2. ASSUME fault' = "none"
        PROVE  /\ output' # None /\ IsOutput(output') /\ ~output'.timed
               /\ output'.number = official /\ (IsEmpty(output') <=> DOMAIN t = {})
    <2> DEFINE o == output'
    <2>1. o = InFlight(t)
      BY <1>2
    <2> HIDE DEF o
    <2>2. /\ o # None /\ IsOutput(o) /\ ~o.timed
          /\ o.number = official /\ (IsEmpty(o) <=> DOMAIN t = {})
      BY <2>1, NewOutput
    <2> QED BY <2>2 DEF o
  <1>3. CASE scheduler = "evaluation"
    <2>1. rows' = rows /\ PreparePending(role, selected)
      BY <1>3 DEF Record
    <2>2. RowsAreRight'
      BY <1>1, <2>1 DEF RowsAreRight
    <2>3. CASE DOMAIN t = {}
      <3>1. pending' = None
        BY <1>1, <2>1, <2>3 DEF PreparePending
      <3> QED BY <1>1, <1>2, <1>3, <2>1, <2>2, <2>3, <3>1
              DEF RowsInv, RowsAreCounted, CountedBehind
    <2>4. CASE DOMAIN t # {}
      <3>1. PICK in_support \in BOOLEAN :
               pending' = [role |-> role, about |-> official, selected |-> selected,
                           in_support |-> in_support, before |-> samples[KindOf(selected)],
                           index |-> None, measured |-> None]
        BY <2>1, <2>4 DEF PreparePending
      <3>2. /\ pending'.about = official /\ pending'.measured = None
            /\ IsPending(pending')
        BY <3>1 DEF IsPending
      <3> QED BY <1>1, <1>2, <1>3, <2>1, <2>2, <2>4, <3>2
              DEF RowsInv, RowsAreCounted, CountedBehind
    <2> QED BY <2>3, <2>4
  <1>4. CASE scheduler # "evaluation"
    <2>1. pending' = None /\ WriteRow(role, selected)
      BY <1>1, <1>4 DEF Record
    <2>2. CASE DOMAIN t = {}
      <3>1. rows' = rows
        BY <2>1, <2>2 DEF WriteRow
      <3>2. RowsAreRight'
        BY <1>1, <3>1 DEF RowsAreRight
      <3> QED BY <1>1, <1>2, <1>4, <2>1, <2>2, <3>1, <3>2
              DEF RowsInv, RowsAreCounted, CountedAhead
    <2>3. CASE DOMAIN t # {}
      <3>1. rows' = Append(rows, Row(Len(rows), role, official, Len(rows), selected, 0, FALSE))
        BY <2>1, <2>3 DEF WriteRow
      <3>2. RowsAreRight' /\ Len(rows') = Len(rows) + 1
        BY <1>1, <3>1, OneMoreRow
      <3> QED BY <1>1, <1>2, <1>4, <2>1, <2>3, <3>2
              DEF RowsInv, RowsAreCounted, CountedAhead
    <2> QED BY <2>2, <2>3
  <1> QED BY <1>3, <1>4

LEMMA ScheduleKeeps == ASSUME NoneIsNoOutput, RowsInv, Schedule, scheduler' = scheduler PROVE RowsInv'
  <1>1. fault = "none" /\ output = None /\ official' = official /\ scheduler' = scheduler
    BY DEF Schedule
  <1>2. CASE NeedsSnapshot /\ preempted # {}
    <2>1. fault' # "none" /\ UNCHANGED <<rows, official>>
      BY <1>2 DEF Schedule, Raise
    <2> QED BY <2>1 DEF RowsInv, RowsAreRight, RowsAreCounted
  <1>3. CASE ~(NeedsSnapshot /\ preempted # {})
    <2> PICK w \in {Target} :
            IF w # NoWork
            THEN /\ ExecuteExact(Snapshot, w)
                 /\ recipe' = Advance
                 /\ Record("target", Selected(TokensIn(w), PlanPhase))
            ELSE /\ ExecuteStock
                 /\ UNCHANGED recipe
                 /\ Record(SetupOrDrain, Selected(StockGrant, BatchPhase))
      BY <1>3 DEF Schedule
    <2>1. CASE w # NoWork
      <3> DEFINE t == TokensIn(w)
                 selected == Selected(t, PlanPhase)
      <3>1. Record("target", selected)
        BY <2>1
      <3>2. fault' = "none" => output' = InFlight(t)
        BY <2>1 DEF ExecuteExact, Raise
      <3>3. selected = {} <=> DOMAIN t = {}
        <4> HIDE DEF t
        <4> QED BY Zenon DEF Selected
      <3> HIDE DEF t, selected
      <3> QED BY <1>1, <3>1, <3>2, <3>3, Recorded
    <2>2. CASE ~(w # NoWork)
      <3> DEFINE t == StockGrant
                 selected == Selected(t, BatchPhase)
      <3>1. Record(SetupOrDrain, selected)
        BY <2>2
      <3>2. output' = InFlight(t)
        BY <2>2 DEF ExecuteStock
      <3>3. selected = {} <=> DOMAIN t = {}
        <4> HIDE DEF t
        <4> QED BY Zenon DEF Selected
      <3> HIDE DEF t, selected
      <3> QED BY <1>1, <3>1, <3>2, <3>3, Recorded
    <2> QED BY <2>1, <2>2
  <1> QED BY <1>2, <1>3

(* A timing callback measures the pending prediction or stops the engine. *)
LEMMA Timed ==
    ASSUME NEW number, NEW index, RecordDuration(number, index), IsPending(pending),
           fault = "none", fault' = "none"
    PROVE  /\ IsPending(pending') /\ pending'.about = pending.about
           /\ pending'.measured = pending.about
  <1>1. /\ pending' = [pending EXCEPT !.index = index, !.measured = number]
        /\ pending.about = number
    BY DEF RecordDuration
  <1>2. pending' = [role |-> pending.role, about |-> pending.about,
                    selected |-> pending.selected, in_support |-> pending.in_support,
                    before |-> pending.before, index |-> index, measured |-> number]
    BY <1>1 DEF IsPending
  <1> QED BY <1>1, <1>2 DEF IsPending

LEMMA EndIterationKeeps == ASSUME NoneIsNoOutput, RowsInv, EndIteration, scheduler' = scheduler PROVE RowsInv'
  <1>1. /\ fault = "none" /\ output # None /\ ~output.timed
        /\ output' = [output EXCEPT !.timed = TRUE] /\ rows' = rows
    BY DEF EndIteration
  <1>2. IsOutput(output) /\ official \in Nat /\ RowsAreRight
    BY <1>1 DEF RowsInv, RowsAreCounted, CountedAhead, CountedBehind
  <1>3. /\ output' = [tokens |-> output.tokens, number |-> output.number, timed |-> TRUE]
    BY <1>1, <1>2 DEF IsOutput
  <1>4. /\ output' # None /\ IsOutput(output') /\ output'.timed
        /\ output'.number = output.number /\ (IsEmpty(output') <=> IsEmpty(output))
    BY <1>3 DEF NoneIsNoOutput, IsOutput, IsEmpty
  <1>5. RowsAreRight'
    BY <1>1, <1>2 DEF RowsAreRight
  <1>6. CASE IsEmpty(output)
    <2>1. UNCHANGED <<official, pending, fault>>
      BY <1>6 DEF EndIteration, IsEmpty
    <2> QED BY <1>1, <1>2, <1>4, <1>5, <1>6, <2>1
            DEF RowsInv, RowsAreCounted, CountedAhead, CountedBehind
  <1>7. CASE ~IsEmpty(output)
    <2>1. official' = official + 1 /\ official' \in Nat
      BY <1>2, <1>7 DEF EndIteration, IsEmpty
    <2>2. CASE scheduler # "evaluation"
      <3>1. UNCHANGED <<pending, fault>>
        BY <1>7, <2>2 DEF EndIteration, IsEmpty
      <3> QED BY <1>1, <1>2, <1>4, <1>5, <1>7, <2>1, <2>2, <3>1
              DEF RowsInv, RowsAreCounted, CountedAhead
    <2>3. CASE scheduler = "evaluation"
      <3>1. /\ IsPending(pending) /\ pending.about = Len(rows) /\ Len(rows) = official
            /\ pending.measured \in {None, Len(rows)} /\ output.number = Len(rows)
        BY <1>1, <1>7, <2>3 DEF RowsInv, RowsAreCounted, CountedBehind
      <3>2. PICK report \in Reports :
               IF report = <<>> THEN UNCHANGED <<pending, fault>>
               ELSE RecordDuration(report[1], report[2])
        BY <1>7, <2>3 DEF EndIteration, IsEmpty
      <3>3. fault' = "none" => /\ IsPending(pending') /\ pending'.about = Len(rows)
                               /\ pending'.measured \in {None, Len(rows)}
        BY <1>1, <3>1, <3>2, Timed
      <3> QED BY <1>1, <1>2, <1>4, <1>5, <1>7, <2>1, <2>3, <3>1, <3>3
              DEF RowsInv, RowsAreCounted, CountedBehind
    <2> QED BY <2>2, <2>3
  <1> QED BY <1>6, <1>7

LEMMA RepeatTimingKeeps == ASSUME RowsInv, RepeatTiming, scheduler' = scheduler PROVE RowsInv'
  <1>1. /\ fault = "none" /\ pending # None
        /\ RecordDuration(output.number, official - 1)
        /\ UNCHANGED <<output, official, rows>>
    BY DEF RepeatTiming
  <1>2. /\ output # None /\ scheduler = "evaluation" /\ ~IsEmpty(output)
        /\ CountedBehind /\ IsPending(pending)
    BY <1>1 DEF RowsInv, RowsAreCounted, CountedBehind
  <1>3. fault' = "none" => /\ IsPending(pending') /\ pending'.about = pending.about
                           /\ pending'.measured = pending.about
    BY <1>1, <1>2, Timed
  <1>4. RowsAreRight'
    BY <1>1 DEF RowsInv, RowsAreRight
  <1>5. fault' = "none" => CountedBehind'
    BY <1>1, <1>2, <1>3 DEF CountedBehind
  <1> QED BY <1>1, <1>2, <1>4, <1>5 DEF RowsInv, RowsAreCounted

LEMMA UpdateFromOutputKeeps == ASSUME RowsInv, UpdateFromOutput, scheduler' = scheduler PROVE RowsInv'
  <1>1. /\ fault = "none" /\ output # None /\ output.timed /\ output' = None
        /\ official' = official
    BY DEF UpdateFromOutput
  <1>2. official \in Nat /\ RowsAreRight
    BY DEF RowsInv
  <1>3. CASE scheduler # "evaluation"
    <2>1. UNCHANGED <<pending, rows, fault>>
      BY <1>3 DEF UpdateFromOutput
    <2>2. Len(rows) = official /\ pending = None
      BY <1>1, <1>3 DEF RowsInv, RowsAreCounted, CountedAhead
    <2> QED BY <1>1, <1>2, <2>1, <2>2 DEF RowsInv, RowsAreCounted, RowsAreRight
  <1>4. CASE scheduler = "evaluation" /\ Refusal # "none"
    <2>1. fault' # "none" /\ rows' = rows
      BY <1>4 DEF UpdateFromOutput
    <2> QED BY <1>1, <1>2, <2>1 DEF RowsInv, RowsAreCounted, RowsAreRight
  <1>5. CASE scheduler = "evaluation" /\ Refusal = "none" /\ pending = None
    <2>1. UNCHANGED <<pending, rows, fault>>
      BY <1>5 DEF UpdateFromOutput
    <2>2. IsEmpty(output)
      BY <1>5 DEF Refusal, IsEmpty
    <2>3. Len(rows) = official
      BY <1>1, <1>5, <2>2 DEF RowsInv, RowsAreCounted, CountedBehind
    <2> QED BY <1>1, <1>2, <1>5, <2>1, <2>3 DEF RowsInv, RowsAreCounted, RowsAreRight
  <1>6. CASE scheduler = "evaluation" /\ Refusal = "none" /\ pending # None
    <2>1. Evaluate /\ fault' = fault
      BY <1>6 DEF UpdateFromOutput
    <2>2. ~IsEmpty(output)
      BY <1>1, <1>6 DEF RowsInv, RowsAreCounted, CountedBehind
    <2>3. /\ Len(rows) = official - 1 /\ pending.about = Len(rows)
          /\ pending.measured \in {None, Len(rows)}
      BY <1>1, <1>6, <2>2 DEF RowsInv, RowsAreCounted, CountedBehind
    <2>4. pending.measured # None
      BY <1>6 DEF Refusal
    <2>5. /\ pending' = None
          /\ rows' = Append(rows, Row(Len(rows), pending.role, pending.about, pending.measured,
                                      pending.selected, pending.before, pending.in_support))
      BY <2>1 DEF Evaluate
    <2>6. rows' = Append(rows, Row(Len(rows), pending.role, Len(rows), Len(rows),
                                   pending.selected, pending.before, pending.in_support))
      BY <2>3, <2>4, <2>5
    <2>7. RowsAreRight' /\ Len(rows') = Len(rows) + 1
      BY <1>2, <2>6, OneMoreRow
    <2>8. Len(rows') = official
      BY <1>2, <2>3, <2>7
    <2> QED BY <1>1, <1>2, <2>5, <2>7, <2>8 DEF RowsInv, RowsAreCounted
  <1> QED BY <1>3, <1>4, <1>5, <1>6

LEMMA RowsNext == ASSUME NoneIsNoOutput, RowsInv, [Next]_vars PROVE RowsInv'
  <1>1. ASSUME UNCHANGED <<scheduler, output, official, pending, rows, fault>> PROVE RowsInv'
    BY <1>1 DEF RowsInv, RowsAreRight, RowsAreCounted, CountedAhead, CountedBehind
  <1>2. ASSUME NEW r \in Requests, AddRequest(r) \/ Abort(r), UNCHANGED scheduler PROVE RowsInv'
    BY <1>1, <1>2 DEF AddRequest, Abort
  <1>3. CASE UNCHANGED vars
    BY <1>1, <1>3 DEF vars
  <1> QED BY <1>2, <1>3, ScheduleKeeps, EndIterationKeeps, RepeatTimingKeeps,
             UpdateFromOutputKeeps DEF Next

-----------------------------------------------------------------------------
(* What schedule(), the timing callback and update_from_output() keep of the *)
(* profile between them.                                                     *)
THEOREM RowsInvariant == ASSUME NoneIsNoOutput PROVE Spec => []RowsInv
  <1>1. Init => RowsInv
    BY RowsInit
  <1>2. RowsInv /\ [Next]_vars => RowsInv'
    BY RowsNext
  <1> QED BY <1>1, <1>2, PTL DEF Spec

(* Each row of a profile is its iteration's, and none is missing. *)
THEOREM RowsFollowIterations == ASSUME NoneIsNoOutput PROVE Spec => []RowsAreTheirIterations
  <1>1. RowsInv => RowsAreTheirIterations
    BY DEF RowsInv, RowsAreRight, RowsAreCounted, RowsAreTheirIterations
  <1> QED BY <1>1, RowsInvariant, PTL


-----------------------------------------------------------------------------
(* The first n of some rows that the predictor learnt, of one kind. *)
LearnedOf(some, kind, n) == {i \in 1..n : some[i].learned /\ KindOf(some[i].selected) = kind}

(* What a prediction of this kind rests on, after n rows. *)
RestsOn(some, kind, n) == Smaller(Cardinality(LearnedOf(some, kind, n)), Window)

PendingPrediction ==
    /\ pending.in_support \in BOOLEAN
    /\ pending.before = samples[KindOf(pending.selected)]
    /\ {x.id : x \in pending.selected} = DOMAIN output.tokens

(* The calibrator holds the residuals of all rows it learnt, up to its window. *)
PredictionInv ==
    /\ samples \in [Kinds -> Nat]
    /\ \A i \in DOMAIN rows :
          rows[i].before = IF scheduler = "evaluation"
                           THEN RestsOn(rows, KindOf(rows[i].selected), i - 1) ELSE 0
    /\ scheduler = "evaluation" => \A k \in Kinds : samples[k] = RestsOn(rows, k, Len(rows))
    /\ fault = "none" /\ pending # None => PendingPrediction

LEMMA KindIsKind == ASSUME NEW selected PROVE KindOf(selected) \in Kinds
  BY DEF KindOf, Kinds

(* Rows that agree on the first n rest on the same. *)
LEMMA SameRows ==
    ASSUME NEW some, NEW other, NEW n, \A i \in 1..n : other[i] = some[i], NEW kind
    PROVE  LearnedOf(other, kind, n) = LearnedOf(some, kind, n)
  BY Zenon DEF LearnedOf

(* One more row, learnt or not. *)
LEMMA OneMoreLearned ==
    ASSUME NEW some, NEW n \in Nat, NEW kind,
           NEW learned \in BOOLEAN, some[n + 1].learned = learned
    PROVE  LearnedOf(some, kind, n + 1) =
               LearnedOf(some, kind, n)
                   \cup (IF learned /\ KindOf(some[n + 1].selected) = kind THEN {n + 1} ELSE {})
  <1>1. 1..n + 1 = (1..n) \cup {n + 1} /\ n + 1 \notin 1..n
    OBVIOUS
  <1> DEFINE m == n + 1
  <1>2. 1..m = (1..n) \cup {m} /\ some[m].learned = learned
    BY <1>1
  <1> HIDE DEF m
  <1>3. CASE learned = TRUE
    <2>1. some[m].learned
      BY <1>2, <1>3
    <2>2. CASE KindOf(some[m].selected) = kind
      <3>1. LearnedOf(some, kind, m) = LearnedOf(some, kind, n) \cup {m}
        BY <1>2, <2>1, <2>2, Zenon DEF LearnedOf
      <3> QED BY <1>3, <2>2, <3>1 DEF m
    <2>3. CASE KindOf(some[m].selected) # kind
      <3>1. LearnedOf(some, kind, m) = LearnedOf(some, kind, n)
        BY <1>2, <2>3, Zenon DEF LearnedOf
      <3> QED BY <2>3, <3>1 DEF m
    <2> QED BY <2>2, <2>3
  <1>4. CASE learned = FALSE
    <2>1. ~some[m].learned
      BY <1>2, <1>4
    <2>2. LearnedOf(some, kind, m) = LearnedOf(some, kind, n)
      BY <1>2, <2>1, Zenon DEF LearnedOf
    <2> QED BY <1>4, <2>2 DEF m
  <1> QED BY <1>3, <1>4

(* ... is counted once, and the window drops the oldest. *)
LEMMA RestsOnMore ==
    ASSUME NEW some, NEW n \in Nat, NEW kind,
           NEW learned \in BOOLEAN, some[n + 1].learned = learned
    PROVE  /\ RestsOn(some, kind, n) \in Nat
           /\ RestsOn(some, kind, n + 1) =
                 IF learned /\ KindOf(some[n + 1].selected) = kind
                 THEN Smaller(RestsOn(some, kind, n) + 1, Window)
                 ELSE RestsOn(some, kind, n)
  <1> DEFINE L == LearnedOf(some, kind, n)
             M == LearnedOf(some, kind, n + 1)
             counts == learned /\ KindOf(some[n + 1].selected) = kind
  <1>1. L \subseteq 1..n /\ n + 1 \notin L
    BY DEF LearnedOf
  <1>2. M = L \cup (IF counts THEN {n + 1} ELSE {})
    BY OneMoreLearned
  <1>3. IsFiniteSet(1..n)
    BY FS_Interval
  <1> HIDE DEF L, M, counts
  <1>4. IsFiniteSet(L) /\ Cardinality(L) \in Nat /\ Window \in Nat
    BY <1>1, <1>3, FS_Subset, FS_CardinalityType, ProfilingAssumption
  <1>5. Cardinality(M) = IF counts THEN Cardinality(L) + 1 ELSE Cardinality(L)
    <2>1. CASE counts
      BY <1>1, <1>2, <1>4, <2>1, FS_AddElement
    <2>2. CASE ~counts
      BY <1>2, <2>2
    <2> QED BY <2>1, <2>2
  <1>6. /\ RestsOn(some, kind, n) = Smaller(Cardinality(L), Window)
        /\ RestsOn(some, kind, n + 1) = Smaller(Cardinality(M), Window)
    BY DEF RestsOn, L, M
  <1> QED BY <1>4, <1>5, <1>6 DEF Smaller, counts

LEMMA PredictionInit == Init => PredictionInv
  <1> SUFFICES ASSUME Init PROVE PredictionInv
    OBVIOUS
  <1>1. rows = <<>> /\ pending = None /\ samples = [k \in Kinds |-> 0]
    BY DEF Init
  <1>2. ASSUME NEW k PROVE RestsOn(rows, k, Len(rows)) = 0
    <2>1. LearnedOf(rows, k, Len(rows)) = {}
      BY <1>1 DEF LearnedOf
    <2> QED BY <2>1, FS_EmptySet, ProfilingAssumption DEF RestsOn, Smaller
  <1> QED BY <1>1, <1>2 DEF PredictionInv

LEMMA PredictionStutters ==
    ASSUME PredictionInv, UNCHANGED <<scheduler, samples, rows>>,
           fault' = "none" /\ pending' # None => PendingPrediction'
    PROVE  PredictionInv'
  BY DEF PredictionInv, RestsOn, LearnedOf

(* What is prepared rests on the rows so far. *)
LEMMA PredictionRecorded ==
    ASSUME NoneIsNoOutput, RowsInv, PredictionInv, fault = "none", output = None,
           UNCHANGED <<scheduler, samples>>,
           NEW t, NEW role, NEW selected, {x.id : x \in selected} = DOMAIN t,
           Record(role, selected), fault' = "none" => output' = InFlight(t)
    PROVE  PredictionInv'
  <1>1. pending = None /\ RowsAreRight
    BY DEF RowsInv, RowsAreCounted
  <1>2. CASE scheduler = "evaluation"
    <2>1. rows' = rows /\ PreparePending(role, selected)
      BY <1>2 DEF Record
    <2>2. CASE selected = {}
      BY <1>1, <2>1, <2>2, PredictionStutters DEF PreparePending
    <2>3. CASE selected # {}
      <3>1. PICK in_support \in BOOLEAN :
               pending' = [role |-> role, about |-> official, selected |-> selected,
                           in_support |-> in_support, before |-> samples[KindOf(selected)],
                           index |-> None, measured |-> None]
        BY <2>1, <2>3 DEF PreparePending
      <3>2. /\ pending'.in_support = in_support /\ pending'.selected = selected
            /\ pending'.before = samples[KindOf(selected)]
        BY <3>1
      <3>3. ASSUME fault' = "none" PROVE PendingPrediction'
        <4>1. output'.tokens = t
          BY <3>3 DEF InFlight
        <4> QED BY <3>2, <4>1 DEF PendingPrediction, KindOf
      <3> QED BY <2>1, <3>3, PredictionStutters
    <2> QED BY <2>2, <2>3
  <1>3. CASE scheduler # "evaluation"
    <2>1. pending' = None /\ WriteRow(role, selected)
      BY <1>1, <1>3 DEF Record
    <2>2. CASE rows' = rows
      BY <2>1, <2>2, PredictionStutters
    <2>3. CASE rows' # rows
      <3>1. rows' = Append(rows, Row(Len(rows), role, official, Len(rows), selected, 0, FALSE))
        BY <2>1, <2>3 DEF WriteRow
      <3>2. \A i \in DOMAIN rows : rows[i].before = 0
        BY <1>3 DEF PredictionInv
      <3>3. \A i \in DOMAIN rows' : rows'[i].before = 0
        <4> DEFINE row == Row(Len(rows), role, official, Len(rows), selected, 0, FALSE)
        <4>1. row.before = 0
          BY DEF Row
        <4>2. rows' = Append(rows, row)
          BY <3>1
        <4> HIDE DEF row
        <4>3. /\ DOMAIN rows = 1..Len(rows) /\ DOMAIN rows' = 1..Len(rows) + 1
              /\ \A i \in 1..Len(rows) : rows'[i] = rows[i]
              /\ rows'[Len(rows) + 1] = row /\ Len(rows) \in Nat
          BY <1>1, <4>2, LongerRows
        <4> QED BY <3>2, <4>1, <4>3
      <3> QED BY <1>3, <2>1, <3>3 DEF PredictionInv
    <2> QED BY <2>2, <2>3
  <1> QED BY <1>2, <1>3

(* A batch's requests are those it has tokens for. *)
LEMMA TargetIds ==
    ASSUME NEW t
    PROVE  {x.id : x \in Selected(t, PlanPhase)} = DOMAIN t
  <1> DEFINE f == [r \in DOMAIN t |-> SelectedRequest(r, PlanPhase(r), t[r])]
             selected == {f[r] : r \in DOMAIN t}
  <1>1. \A r \in DOMAIN t : f[r].id = r
    BY DEF SelectedRequest
  <1>2. Selected(t, PlanPhase) = selected
    BY DEF Selected
  <1>3. {x.id : x \in selected} = DOMAIN t
    <2> HIDE DEF f
    <2> QED BY <1>1
  <1> QED BY <1>2, <1>3

LEMMA StockIds ==
    ASSUME NEW t
    PROVE  {x.id : x \in Selected(t, BatchPhase)} = DOMAIN t
  <1> DEFINE f == [r \in DOMAIN t |-> SelectedRequest(r, BatchPhase(r), t[r])]
             selected == {f[r] : r \in DOMAIN t}
  <1>1. \A r \in DOMAIN t : f[r].id = r
    BY DEF SelectedRequest
  <1>2. Selected(t, BatchPhase) = selected
    BY DEF Selected
  <1>3. {x.id : x \in selected} = DOMAIN t
    <2> HIDE DEF f
    <2> QED BY <1>1
  <1> QED BY <1>2, <1>3

LEMMA PredictionScheduled ==
    ASSUME NoneIsNoOutput, RowsInv, PredictionInv, Schedule, scheduler' = scheduler
    PROVE  PredictionInv'
  <1>1. fault = "none" /\ output = None /\ UNCHANGED <<scheduler, samples>>
    BY DEF Schedule
  <1>2. CASE NeedsSnapshot /\ preempted # {}
    <2>1. fault' # "none" /\ rows' = rows
      BY <1>2 DEF Schedule, Raise
    <2> QED BY <1>1, <2>1, PredictionStutters
  <1>3. CASE ~(NeedsSnapshot /\ preempted # {})
    <2> PICK w \in {Target} :
            IF w # NoWork
            THEN /\ ExecuteExact(Snapshot, w)
                 /\ recipe' = Advance
                 /\ Record("target", Selected(TokensIn(w), PlanPhase))
            ELSE /\ ExecuteStock
                 /\ UNCHANGED recipe
                 /\ Record(SetupOrDrain, Selected(StockGrant, BatchPhase))
      BY <1>3 DEF Schedule
    <2>1. CASE w # NoWork
      <3> DEFINE t == TokensIn(w)
                 selected == Selected(t, PlanPhase)
      <3>1. Record("target", selected)
        BY <2>1
      <3>2. fault' = "none" => output' = InFlight(t)
        BY <2>1 DEF ExecuteExact, Raise
      <3>3. {x.id : x \in selected} = DOMAIN t
        BY TargetIds
      <3> HIDE DEF t, selected
      <3> QED BY <1>1, <3>1, <3>2, <3>3, PredictionRecorded
    <2>2. CASE ~(w # NoWork)
      <3> DEFINE t == StockGrant
                 selected == Selected(t, BatchPhase)
      <3>1. Record(SetupOrDrain, selected)
        BY <2>2
      <3>2. output' = InFlight(t)
        BY <2>2 DEF ExecuteStock
      <3>3. {x.id : x \in selected} = DOMAIN t
        BY StockIds
      <3> HIDE DEF t, selected
      <3> QED BY <1>1, <3>1, <3>2, <3>3, PredictionRecorded
    <2> QED BY <2>1, <2>2
  <1> QED BY <1>2, <1>3

(* The timing callback changes neither the batch nor what was predicted. *)
LEMMA PredictionTimed ==
    ASSUME PredictionInv, NEW number, NEW index, RecordDuration(number, index),
           UNCHANGED <<scheduler, samples, rows>>, output'.tokens = output.tokens,
           pending # None => IsPending(pending), fault = "none"
    PROVE  PredictionInv'
  <1>1. ASSUME fault' = "none", pending' # None PROVE PendingPrediction'
    <2>1. /\ pending # None /\ IsPending(pending)
          /\ pending' = [pending EXCEPT !.index = index, !.measured = number]
      BY <1>1 DEF RecordDuration
    <2>2. pending' = [role |-> pending.role, about |-> pending.about,
                      selected |-> pending.selected, in_support |-> pending.in_support,
                      before |-> pending.before, index |-> index, measured |-> number]
      BY <2>1 DEF IsPending
    <2>3. /\ pending'.in_support = pending.in_support /\ pending'.selected = pending.selected
          /\ pending'.before = pending.before
      BY <2>2
    <2>4. PendingPrediction
      BY <2>1 DEF PredictionInv
    <2> QED BY <2>3, <2>4 DEF PendingPrediction, KindOf
  <1> QED BY <1>1, PredictionStutters

LEMMA PredictionEnds ==
    ASSUME RowsInv, PredictionInv, EndIteration, scheduler' = scheduler
    PROVE  PredictionInv'
  <1>1. /\ fault = "none" /\ output # None /\ output' = [output EXCEPT !.timed = TRUE]
        /\ UNCHANGED <<scheduler, samples, rows>>
    BY DEF EndIteration
  <1>2. IsOutput(output) /\ (pending # None => IsPending(pending))
    BY <1>1 DEF RowsInv, RowsAreCounted, CountedAhead, CountedBehind
  <1>3. output'.tokens = output.tokens
    BY <1>1, <1>2 DEF IsOutput
  <1>4. CASE UNCHANGED <<pending, fault>>
    BY <1>1, <1>3, <1>4, PredictionStutters DEF PredictionInv, PendingPrediction, KindOf
  <1>5. ASSUME NEW report \in Reports, RecordDuration(report[1], report[2]) PROVE PredictionInv'
    BY <1>1, <1>2, <1>3, <1>5, PredictionTimed
  <1> QED BY <1>4, <1>5 DEF EndIteration

LEMMA PredictionRepeats ==
    ASSUME RowsInv, PredictionInv, RepeatTiming, scheduler' = scheduler
    PROVE  PredictionInv'
  <1>1. /\ fault = "none" /\ pending # None /\ RecordDuration(output.number, official - 1)
        /\ UNCHANGED <<scheduler, samples, rows, output>>
    BY DEF RepeatTiming
  <1>2. IsPending(pending)
    BY <1>1 DEF RowsInv, RowsAreCounted, CountedBehind
  <1> QED BY <1>1, <1>2, PredictionTimed

(* The new row's prediction came from the rows before it, and the window     *)
(* takes its residual if the row was learnt.                                 *)
LEMMA PredictionEvaluated ==
    ASSUME RowsInv, PredictionInv, scheduler = "evaluation", scheduler' = scheduler,
           fault = "none", pending # None, Evaluate
    PROVE  PredictionInv'
  <1> DEFINE n == Len(rows)
             kind == KindOf(pending.selected)
             row == Row(n, pending.role, pending.about, pending.measured,
                        pending.selected, pending.before, pending.in_support)
             learned == pending.in_support
  <1>1. /\ pending' = None /\ rows' = Append(rows, row)
        /\ samples' = IF learned THEN [samples EXCEPT ![kind] = Smaller(@ + 1, Window)]
                      ELSE samples
    BY DEF Evaluate, Learns
  <1>2. RowsAreRight /\ samples \in [Kinds -> Nat] /\ learned \in BOOLEAN
        /\ pending.before = samples[kind]
    BY DEF RowsInv, PredictionInv, PendingPrediction
  <1>3. /\ row.selected = pending.selected /\ row.before = pending.before
        /\ row.learned = learned
    BY DEF Row
  <1>4. kind \in Kinds
    BY KindIsKind
  <1>5. KindOf(row.selected) = kind
    BY <1>3
  <1> HIDE DEF row, kind, learned
  <1>6. /\ n \in Nat /\ DOMAIN rows = 1..n /\ Len(rows') = n + 1 /\ DOMAIN rows' = 1..n + 1
        /\ \A i \in 1..n : rows'[i] = rows[i]
        /\ rows'[n + 1] = row
    BY <1>1, <1>2, LongerRows
  <1> HIDE DEF n
  <1>7. \A k \in Kinds : samples[k] = RestsOn(rows, k, n)
    BY DEF PredictionInv, n
  <1>8. ASSUME NEW m \in 0..n, NEW k PROVE RestsOn(rows', k, m) = RestsOn(rows, k, m)
    <2>1. \A i \in 1..m : rows'[i] = rows[i]
      BY <1>6
    <2>2. LearnedOf(rows', k, m) = LearnedOf(rows, k, m)
      BY <2>1, SameRows
    <2> QED BY <2>2 DEF RestsOn
  <1>9. ASSUME NEW i \in DOMAIN rows'
        PROVE  rows'[i].before = RestsOn(rows', KindOf(rows'[i].selected), i - 1)
    <2>1. CASE i \in 1..n
      <3>1. rows[i].before = RestsOn(rows, KindOf(rows[i].selected), i - 1)
        BY <1>6, <2>1 DEF PredictionInv
      <3>2. i - 1 \in 0..n /\ rows'[i] = rows[i]
        BY <1>6, <2>1
      <3> QED BY <1>8, <3>1, <3>2
    <2>2. CASE i = n + 1
      <3>1. rows'[i] = row /\ i - 1 = n /\ n \in 0..n
        BY <1>6, <2>2
      <3>2. row.before = RestsOn(rows, kind, n)
        BY <1>2, <1>3, <1>4, <1>7
      <3> QED BY <1>5, <1>8, <3>1, <3>2
    <2> QED BY <1>6, <1>9, <2>1, <2>2
  <1>10. ASSUME NEW k \in Kinds
         PROVE  samples'[k] = RestsOn(rows', k, n + 1) /\ samples'[k] \in Nat
    <2> DEFINE counts == learned /\ kind = k
    <2>1. rows'[n + 1].learned = learned /\ KindOf(rows'[n + 1].selected) = kind
      BY <1>3, <1>5, <1>6
    <2>2. /\ RestsOn(rows', k, n) \in Nat
          /\ RestsOn(rows', k, n + 1) =
                IF learned /\ kind = k THEN Smaller(RestsOn(rows', k, n) + 1, Window)
                ELSE RestsOn(rows', k, n)
      BY <1>2, <1>6, <2>1, RestsOnMore
    <2>3. RestsOn(rows', k, n) = samples[k] /\ samples[k] \in Nat
      BY <1>2, <1>6, <1>7, <1>8
    <2>4. samples'[k] = IF learned /\ kind = k THEN Smaller(samples[k] + 1, Window) ELSE samples[k]
      BY <1>1, <1>2, <1>4
    <2> QED BY <2>2, <2>3, <2>4, ProfilingAssumption DEF Smaller
  <1>11. samples' \in [Kinds -> Nat]
    <2>1. DOMAIN samples' = Kinds /\ samples' = [k \in Kinds |-> samples'[k]]
      BY <1>1, <1>2
    <2> QED BY <1>10, <2>1
  <1> QED BY <1>1, <1>6, <1>9, <1>10, <1>11 DEF PredictionInv

LEMMA PredictionUpdated ==
    ASSUME RowsInv, PredictionInv, UpdateFromOutput, scheduler' = scheduler
    PROVE  PredictionInv'
  <1>1. fault = "none" /\ output # None
    BY DEF UpdateFromOutput
  <1>2. CASE scheduler = "evaluation" /\ Refusal = "none" /\ pending # None
    BY <1>1, <1>2, PredictionEvaluated DEF UpdateFromOutput
  <1>3. CASE ~(scheduler = "evaluation" /\ Refusal = "none" /\ pending # None)
    <2>1. UNCHANGED <<samples, rows>>
      BY <1>3 DEF UpdateFromOutput
    <2>2. fault' # "none" \/ pending' = None
      BY <1>1, <1>3 DEF UpdateFromOutput, RowsInv, RowsAreCounted
    <2> QED BY <2>1, <2>2, PredictionStutters
  <1> QED BY <1>2, <1>3

LEMMA PredictionNext ==
    ASSUME NoneIsNoOutput, RowsInv, PredictionInv, [Next]_vars PROVE PredictionInv'
  <1>1. ASSUME UNCHANGED <<scheduler, samples, rows, output, pending, fault>> PROVE PredictionInv'
    BY <1>1, PredictionStutters DEF PredictionInv, PendingPrediction, KindOf
  <1>2. ASSUME NEW r \in Requests, AddRequest(r) \/ Abort(r), UNCHANGED scheduler
        PROVE  PredictionInv'
    BY <1>1, <1>2 DEF AddRequest, Abort
  <1>3. CASE UNCHANGED vars
    BY <1>1, <1>3 DEF vars
  <1> QED BY <1>2, <1>3, PredictionScheduled, PredictionEnds, PredictionRepeats,
             PredictionUpdated DEF Next

(* No prediction rests on a row that was not yet measured when it was made,  *)
(* on one outside the support, or on one of another kind; and one is pending *)
(* only while its own batch is in flight.                                    *)
THEOREM PredictionsUsePriorRows == ASSUME NoneIsNoOutput PROVE Spec => []PredictedFromPriorRows
  <1>1. Init => RowsInv /\ PredictionInv
    BY RowsInit, PredictionInit
  <1>2. RowsInv /\ PredictionInv /\ [Next]_vars => (RowsInv /\ PredictionInv)'
    BY RowsNext, PredictionNext
  <1>3. RowsInv /\ PredictionInv => PredictedFromPriorRows
    <2> SUFFICES ASSUME RowsInv, PredictionInv PROVE PredictedFromPriorRows
      OBVIOUS
    <2>1. ASSUME NEW i \in DOMAIN rows
          PROVE  {k \in 1..(i - 1) : /\ rows[k].learned
                                     /\ KindOf(rows[k].selected) = KindOf(rows[i].selected)}
                 = LearnedOf(rows, KindOf(rows[i].selected), i - 1)
      BY DEF LearnedOf
    <2>2. ASSUME fault = "none", pending # None
          PROVE  output # None /\ pending.about = output.number
      BY <2>2 DEF RowsInv, RowsAreCounted, CountedBehind
    <2> QED BY <2>1, <2>2 DEF PredictionInv, PendingPrediction, RestsOn, PredictedFromPriorRows
  <1> QED BY <1>1, <1>2, <1>3, PTL DEF Spec

-----------------------------------------------------------------------------
(* Target plans.  Each entry of a list takes what it wants of a budget while *)
(* the entries before it have left something.                                *)
LEMMA PrefixSums ==
  ASSUME NEW n \in Nat, NEW f, \A i \in 1..n : f[i] \in Int
  PROVE  /\ SumFunctionOnSet(f, 1..0) = 0
         /\ \A i \in 0..n : IsFiniteSet(1..i) /\ SumFunctionOnSet(f, 1..i) \in Int
         /\ \A i \in 1..n : SumFunctionOnSet(f, 1..i) = SumFunctionOnSet(f, 1..(i - 1)) + f[i]
  <1>1. SumFunctionOnSet(f, 1..0) = 0
    <2>1. 1..0 = {}
      OBVIOUS
    <2> QED BY <2>1, SumOfNone
  <1>2. ASSUME NEW i \in 0..n PROVE IsFiniteSet(1..i) /\ SumFunctionOnSet(f, 1..i) \in Int
    <2> DEFINE S == 1..i
    <2>1. IsFiniteSet(S) /\ \A x \in S : f[x] \in Int
      BY FS_Interval
    <2> HIDE DEF S
    <2>2. SumFunctionOnSet(f, S) \in Int
      BY <2>1, SumType
    <2> QED BY <2>1, <2>2 DEF S
  <1>3. ASSUME NEW i \in 1..n
        PROVE  SumFunctionOnSet(f, 1..i) = SumFunctionOnSet(f, 1..(i - 1)) + f[i]
    <2> DEFINE S == 1..i
    <2>1. IsFiniteSet(S) /\ (\A x \in S : f[x] \in Int) /\ i \in S /\ S \ {i} = 1..(i - 1)
      BY FS_Interval
    <2> HIDE DEF S
    <2>2. SumFunctionOnSet(f, S) = f[i] + SumFunctionOnSet(f, S \ {i})
      BY <2>1, SumRemove
    <2>3. SumFunctionOnSet(f, 1..(i - 1)) \in Int /\ f[i] \in Int
      <3>1. i - 1 \in 0..n
        OBVIOUS
      <3> QED BY <1>2, <3>1
    <2>4. SumFunctionOnSet(f, S) = f[i] + SumFunctionOnSet(f, 1..(i - 1))
      BY <2>1, <2>2
    <2> QED BY <2>3, <2>4 DEF S
  <1> QED BY <1>1, <1>2, <1>3

LEMMA SmallerStep ==
  ASSUME NEW a \in Int, NEW w \in Nat, NEW b \in Nat
  PROVE  Smaller(a + w, b) = Smaller(a, b) + (IF a < b THEN Smaller(w, b - a) ELSE 0)
  BY DEF Smaller

LEMMA InTurnFacts ==
  ASSUME NEW n \in Nat, NEW wants \in [1..n -> Nat], NEW budget \in Nat
  PROVE  /\ InTurn(wants, budget) \in [1..n -> Nat]
         /\ \A i \in 1..n : InTurn(wants, budget)[i] <= wants[i]
         /\ SumFunction(InTurn(wants, budget)) = Smaller(SumFunction(wants), budget)
  <1> DEFINE g == InTurn(wants, budget)
             W(i) == SumFunctionOnSet(wants, 1..i)
             G(i) == SumFunctionOnSet(g, 1..i)
  <1>1. /\ \A i \in 0..n : IsFiniteSet(1..i) /\ W(i) \in Int
        /\ W(0) = 0 /\ \A i \in 1..n : W(i) = W(i - 1) + wants[i]
    <2>1. \A i \in 1..n : wants[i] \in Int
      OBVIOUS
    <2> QED BY <2>1, PrefixSums
  <1>2. ASSUME NEW i \in 1..n
        PROVE  g[i] = IF W(i - 1) < budget THEN Smaller(wants[i], budget - W(i - 1)) ELSE 0
    <2> DEFINE ahead == [k \in 1..(i - 1) |-> wants[k]]
               S == 1..(i - 1)
    <2>1. i - 1 \in 0..n /\ i \in DOMAIN wants
      OBVIOUS
    <2>2. IsFiniteSet(S) /\ \A x \in S : wants[x] \in Int /\ ahead[x] = wants[x]
      BY <1>1, <2>1
    <2>3. SumFunction(ahead) = SumFunctionOnSet(ahead, S)
      BY DEF SumFunction
    <2>4. g[i] = IF SumFunction(ahead) < budget
                 THEN Smaller(wants[i], budget - SumFunction(ahead)) ELSE 0
      BY <2>1 DEF InTurn
    <2> HIDE DEF S, ahead
    <2>5. SumFunctionOnSet(ahead, S) = SumFunctionOnSet(wants, S)
      BY <2>2, SumEqual
    <2> QED BY <2>3, <2>4, <2>5 DEF S
  <1>3. DOMAIN g = 1..n /\ g = [i \in 1..n |-> g[i]]
    BY DEF InTurn
  <1> HIDE DEF g
  <1>4. ASSUME NEW i \in 1..n PROVE g[i] \in Nat /\ g[i] <= wants[i]
    <2>1. i - 1 \in 0..n /\ wants[i] \in Nat
      OBVIOUS
    <2>2. W(i - 1) \in Int
      BY <1>1, <2>1
    <2> DEFINE a == W(i - 1)
    <2>3. a \in Int /\ g[i] = IF a < budget THEN Smaller(wants[i], budget - a) ELSE 0
      BY <1>2, <2>2
    <2> HIDE DEF a
    <2> QED BY <2>1, <2>3 DEF Smaller
  <1>5. /\ \A i \in 0..n : G(i) \in Int
        /\ G(0) = 0 /\ \A i \in 1..n : G(i) = G(i - 1) + g[i]
    <2>1. \A i \in 1..n : g[i] \in Int
      BY <1>4
    <2> QED BY <2>1, PrefixSums
  <1> HIDE DEF W, G
  <1> DEFINE T == {i \in Nat : i <= n => G(i) = Smaller(W(i), budget)}
  <1>6. 0 \in T
    BY <1>1, <1>5 DEF Smaller
  <1>7. ASSUME NEW i \in Nat, i \in T PROVE i + 1 \in T
    <2>1. SUFFICES ASSUME i + 1 <= n PROVE G(i + 1) = Smaller(W(i + 1), budget)
      OBVIOUS
    <2>2. /\ i + 1 \in 1..n /\ i \in 0..n /\ (i + 1) - 1 = i
      BY <2>1
    <2>3. G(i) = Smaller(W(i), budget)
      BY <1>7, <2>1
    <2> HIDE DEF T
    <2>4. wants[i + 1] \in Nat
      BY <2>2
    <2>5. W(i + 1) = W(i) + wants[i + 1] /\ W(i) \in Int
      BY <1>1, <2>2
    <2>6. G(i + 1) = G(i) + g[i + 1]
      BY <1>5, <2>2
    <2>7. g[i + 1] = IF W(i) < budget THEN Smaller(wants[i + 1], budget - W(i)) ELSE 0
      BY <1>2, <2>2
    <2>8. Smaller(W(i) + wants[i + 1], budget)
             = Smaller(W(i), budget)
               + (IF W(i) < budget THEN Smaller(wants[i + 1], budget - W(i)) ELSE 0)
      BY <2>4, <2>5, SmallerStep
    <2> QED BY <2>3, <2>5, <2>6, <2>7, <2>8
  <1>8. n \in T
    <2>1. Nat \subseteq T
      <3> HIDE DEF T
      <3> QED BY <1>6, <1>7, InductionOnNat
    <2> QED BY <2>1
  <1>9. SumFunction(g) = G(n) /\ SumFunction(wants) = W(n)
    BY <1>3 DEF SumFunction, G, W
  <1>10. SumFunction(g) = Smaller(SumFunction(wants), budget)
    BY <1>8, <1>9
  <1> QED BY <1>3, <1>4, <1>10 DEF g

(* A share of a number of tokens, with room for each part of it. *)
IsShare(given, room, total, n) ==
  /\ given \in [1..n -> Nat]
  /\ \A i \in 1..n : given[i] <= room[i]
  /\ SumFunction(given) <= total

LEMMA ShareSum ==
  ASSUME NEW n \in Nat, NEW f \in [1..n -> Nat]
  PROVE  /\ SumFunction(f) \in Nat /\ SumFunction(f) = SumFunctionOnSet(f, 1..n)
  <1> DEFINE S == 1..n
  <1>0. IsFiniteSet(S)
    BY Intervals
  <1>1. IsFiniteSet(S) /\ (\A x \in S : f[x] \in Nat) /\ DOMAIN f = S
    BY <1>0
  <1>2. SumFunction(f) = SumFunctionOnSet(f, S)
    BY <1>1 DEF SumFunction
  <1> HIDE DEF S
  <1>3. SumFunctionOnSet(f, S) \in Nat
    BY <1>1, SumNat
  <1> QED BY <1>2, <1>3 DEF S

(* The sum of two lists, entry by entry. *)
LEMMA ShareSumPlus ==
  ASSUME NEW n \in Nat, NEW f \in [1..n -> Nat], NEW g \in [1..n -> Nat],
         NEW h \in [1..n -> Nat], \A i \in 1..n : h[i] = f[i] + g[i]
  PROVE  SumFunction(h) = SumFunction(f) + SumFunction(g)
  <1> DEFINE S == 1..n
  <1>0. IsFiniteSet(S)
    BY Intervals
  <1>1. IsFiniteSet(S) /\ \A x \in S : f[x] \in Int /\ g[x] \in Int /\ h[x] = f[x] + g[x]
    BY <1>0
  <1> HIDE DEF S
  <1>2. SumFunctionOnSet(h, S) = SumFunctionOnSet(f, S) + SumFunctionOnSet(g, S)
    BY <1>1, SumPlus
  <1> QED BY <1>2, ShareSum DEF S

(* Larger entries have a larger sum, and equal entries a multiple of one.     *)
LEMMA ShareSumStrict ==
  ASSUME NEW n \in Nat, NEW f \in [1..n -> Nat], NEW g \in [1..n -> Nat],
         \A i \in 1..n : f[i] <= g[i]
  PROVE  /\ SumFunction(f) <= SumFunction(g)
         /\ SumFunction(f) = SumFunction(g) => \A i \in 1..n : f[i] = g[i]
  <1> DEFINE S == 1..n
             d == [i \in 1..n |-> g[i] - f[i]]
  <1>1. d \in [1..n -> Nat] /\ \A i \in 1..n : g[i] = f[i] + d[i]
    OBVIOUS
  <1> HIDE DEF d
  <1>2. SumFunction(g) = SumFunction(f) + SumFunction(d)
    BY <1>1, ShareSumPlus
  <1>3. /\ SumFunction(f) \in Nat /\ SumFunction(g) \in Nat /\ SumFunction(d) \in Nat
        /\ SumFunction(d) = SumFunctionOnSet(d, S)
    BY <1>1, ShareSum
  <1>4. ASSUME NEW i \in 1..n PROVE d[i] <= SumFunction(d)
    <2>1. IsFiniteSet(S) /\ i \in S /\ \A x \in S : d[x] \in Nat
      BY <1>1, Intervals
    <2> HIDE DEF S
    <2> QED BY <1>3, <2>1, SumAtLeastElement
  <1>5. ASSUME SumFunction(f) = SumFunction(g), NEW i \in 1..n PROVE f[i] = g[i]
    <2>1. SumFunction(d) = 0
      BY <1>2, <1>3, <1>5
    <2>2. d[i] \in Nat /\ d[i] <= 0 /\ g[i] = f[i] + d[i] /\ f[i] \in Nat
      BY <1>1, <1>4, <2>1
    <2> QED BY <2>2
  <1> QED BY <1>2, <1>3, <1>5

LEMMA SumConstant ==
  ASSUME NEW D, IsFiniteSet(D), NEW c \in Nat, NEW f, \A x \in D : f[x] = c
  PROVE  SumFunctionOnSet(f, D) = c * Cardinality(D)
  <1> DEFINE Q == {s \in SUBSET D : SumFunctionOnSet(f, s) = c * Cardinality(s)}
  <1>1. {} \in Q
    BY SumOfNone, FS_EmptySet
  <1>2. ASSUME NEW s \in SUBSET D, NEW x \in D, s \in Q, x \notin s
        PROVE  s \cup {x} \in Q
    <2>1. IsFiniteSet(s) /\ \A y \in s \cup {x} : f[y] \in Int
      BY FS_Subset
    <2>2. SumFunctionOnSet(f, s \cup {x}) = c + SumFunctionOnSet(f, s)
      BY <1>2, <2>1, SumAdd
    <2>3. Cardinality(s \cup {x}) = Cardinality(s) + 1 /\ Cardinality(s) \in Nat
      BY <1>2, <2>1, FS_AddElement, FS_CardinalityType
    <2>4. c * (Cardinality(s) + 1) = c + c * Cardinality(s)
      BY <2>3
    <2> QED BY <1>2, <2>2, <2>3, <2>4
  <1>3. \A s \in SUBSET D : s \in Q
    <2> HIDE DEF Q
    <2> QED BY <1>1, <1>2, InductionOnSubsets
  <1>4. D \in Q
    BY <1>3
  <1> QED BY <1>4

(* A pass takes nothing back, and it shares out all that is left unless it    *)
(* fills the room of an entry.                                               *)
LEMMA PassFacts ==
  ASSUME NEW n \in Nat, NEW room \in [1..n -> Nat], NEW total \in Nat,
         NEW given, IsShare(given, room, total, n), NEW active \in SUBSET (1..n)
  PROVE  LET new == BalancedPass(room, given, active, total)
         IN /\ IsShare(new, room, total, n)
            /\ \A i \in 1..n : given[i] <= new[i]
            /\ active # {} => SumFunction(new) = total \/ \E i \in active : new[i] = room[i]
  <1> DEFINE remaining == total - SumFunction(given)
             share == (remaining + Cardinality(active) - 1) \div Cardinality(active)
             wants == [i \in DOMAIN room |->
                          IF i \in active THEN Smaller(room[i] - given[i], share) ELSE 0]
             granted == InTurn(wants, remaining)
             new == [i \in DOMAIN room |-> given[i] + granted[i]]
  <1>1. BalancedPass(room, given, active, total) =
           IF remaining = 0 \/ active = {} THEN given ELSE new
    BY DEF BalancedPass
  <1>0. /\ given \in [1..n -> Nat] /\ SumFunction(given) \in Nat
        /\ \A i \in 1..n : given[i] <= room[i]
    BY ShareSum DEF IsShare
  <1>2. CASE remaining = 0 \/ active = {}
    <2>1. \A i \in 1..n : given[i] <= given[i]
      BY <1>0
    <2>2. remaining = 0 => SumFunction(given) = total
      BY <1>0
    <2> QED BY <1>1, <1>2, <2>1, <2>2
  <1>3. CASE ~(remaining = 0 \/ active = {})
    <2>1. /\ given \in [1..n -> Nat] /\ SumFunction(given) \in Nat
          /\ \A i \in 1..n : given[i] <= room[i]
      BY ShareSum DEF IsShare
    <2>2. remaining \in Nat
      BY <2>1 DEF IsShare
    <2>3. Cardinality(active) \in Nat \ {0}
      <3>1. IsFiniteSet(1..n)
        BY FS_Interval
      <3>2. IsFiniteSet(active)
        BY <3>1, FS_Subset
      <3> QED BY <1>3, <3>2, FS_CardinalityType, FS_EmptySet
    <2>4. share \in Nat
      <3> DEFINE c == Cardinality(active)
      <3>1. remaining + c - 1 \in Nat
        BY <2>2, <2>3
      <3> HIDE DEF remaining, c
      <3> QED BY <2>3, <3>1 DEF c
    <2> HIDE DEF remaining, share
    <2>5. wants \in [1..n -> Nat] /\ \A i \in 1..n : wants[i] <= room[i] - given[i]
      BY <2>1, <2>4 DEF Smaller
    <2> HIDE DEF wants
    <2>6. /\ granted \in [1..n -> Nat] /\ \A i \in 1..n : granted[i] <= wants[i]
          /\ SumFunction(granted) = Smaller(SumFunction(wants), remaining)
      BY <2>2, <2>5, InTurnFacts
    <2>60. SumFunction(wants) \in Nat
      BY <2>5, ShareSum
    <2>61. SumFunction(granted) <= remaining
      BY <2>2, <2>6, <2>60 DEF Smaller
    <2> HIDE DEF granted
    <2>7. /\ new \in [1..n -> Nat] /\ \A i \in 1..n : new[i] = given[i] + granted[i]
      BY <2>1, <2>6
    <2> HIDE DEF new
    <2>8. SumFunction(new) = SumFunction(given) + SumFunction(granted)
      BY <2>1, <2>6, <2>7, ShareSumPlus
    <2>9. SumFunction(granted) \in Nat
      BY <2>6, ShareSum
    <2>10. SumFunction(new) <= total
      BY <2>1, <2>2, <2>61, <2>8, <2>9 DEF remaining
    <2>11. ASSUME NEW i \in 1..n PROVE new[i] <= room[i]
      <3>1. /\ given[i] \in Nat /\ granted[i] \in Nat /\ wants[i] \in Nat /\ room[i] \in Nat
            /\ new[i] = given[i] + granted[i]
            /\ granted[i] <= wants[i] /\ wants[i] <= room[i] - given[i]
        BY <2>1, <2>5, <2>6, <2>7
      <3> QED BY <3>1
    <2>12. \A i \in 1..n : given[i] <= new[i]
      BY <2>1, <2>6, <2>7
    <2>13. CASE SumFunction(wants) >= remaining
      <3>1. SumFunction(granted) = remaining
        BY <2>2, <2>6, <2>60, <2>13 DEF Smaller
      <3>2. SumFunction(new) = total
        BY <2>1, <2>8, <3>1 DEF remaining
      <3> QED BY <1>1, <1>3, <2>7, <2>10, <2>11, <2>12, <3>2 DEF IsShare
    <2>14. CASE ~(SumFunction(wants) >= remaining)
      <3>1. SumFunction(granted) = SumFunction(wants)
        BY <2>2, <2>6, <2>60, <2>14 DEF Smaller
      <3>2. \A i \in 1..n : granted[i] = wants[i]
        BY <2>5, <2>6, <3>1, ShareSumStrict
      <3>3. \E i \in active : wants[i] # share
        <4>1. SUFFICES ASSUME \A i \in active : wants[i] = share PROVE FALSE
          OBVIOUS
        <4> DEFINE D == 1..n
                   c == Cardinality(active)
        <4>2. IsFiniteSet(D) /\ IsFiniteSet(active) /\ SumFunction(wants) = SumFunctionOnSet(wants, D)
          BY <2>5, Intervals, ShareSum, FS_Subset
        <4>3. (\A x \in D : wants[x] \in Int) /\ \A x \in D \ active : wants[x] = 0
          BY <2>5 DEF wants
        <4>4. active \in SUBSET D
          OBVIOUS
        <4> HIDE DEF D
        <4>5. SumFunctionOnSet(wants, D) = SumFunctionOnSet(wants, active)
          BY <4>2, <4>3, <4>4, SumZeros
        <4>6. SumFunctionOnSet(wants, active) = share * c
          BY <2>4, <4>1, <4>2, SumConstant
        <4>7. share * c >= remaining
          <5>1. c \in Nat \ {0} /\ remaining \in Nat /\ share = (remaining + c - 1) \div c
            BY <2>2, <2>3 DEF share
          <5> HIDE DEF c
          <5>2. ((remaining + c - 1) \div c) * c >= remaining
            BY <5>1
          <5> QED BY <5>1, <5>2
        <4> QED BY <2>14, <4>2, <4>5, <4>6, <4>7
      <3>4. PICK i \in active : wants[i] # share
        BY <3>3
      <3>5. wants[i] = Smaller(room[i] - given[i], share)
        BY DEF wants
      <3>6. /\ room[i] \in Nat /\ given[i] \in Nat /\ given[i] <= room[i]
            /\ new[i] = given[i] + wants[i]
        BY <2>1, <2>7, <3>2
      <3>7. new[i] = room[i]
        BY <2>4, <3>4, <3>5, <3>6 DEF Smaller
      <3> QED BY <1>1, <1>3, <2>7, <2>10, <2>11, <2>12, <3>7 DEF IsShare
    <2> QED BY <2>2, <2>60, <2>13, <2>14
  <1> QED BY <1>2, <1>3

(* The passes of the loop, each over the entries with room. *)
PassTurn(room, total, given, pass) ==
  BalancedPass(room, given, {i \in DOMAIN room : pass = 1 \/ given[i] < room[i]}, total)

(* The entries a share has not filled; a pass spends the total or leaves one  *)
(* fewer of them.                                                            *)
Unfilled(given, room, n) == {k \in 1..n : given[k] < room[k]}

Spends(given, room, most, n, i) ==
  SumFunction(given) = most \/ Cardinality(Unfilled(given, room, n)) <= n - i

LEMMA AllFilled ==
  ASSUME NEW n \in Nat, NEW room \in [1..n -> Nat], NEW most \in Nat, most <= SumFunction(room),
         NEW given, IsShare(given, room, most, n), Unfilled(given, room, n) = {}
  PROVE  SumFunction(given) = most
  <1>1. given \in [1..n -> Nat] /\ SumFunction(given) <= most
    BY DEF IsShare
  <1>2. \A i \in 1..n : room[i] <= given[i]
    <2>1. ASSUME NEW i \in 1..n PROVE room[i] <= given[i]
      <3>1. ~(given[i] < room[i]) /\ given[i] \in Nat /\ room[i] \in Nat
        BY <1>1 DEF Unfilled
      <3> QED BY <3>1
    <2> QED BY <2>1
  <1>3. SumFunction(room) <= SumFunction(given)
    BY <1>1, <1>2, ShareSumStrict
  <1>4. SumFunction(room) \in Nat /\ SumFunction(given) \in Nat
    BY <1>1, ShareSum
  <1> QED BY <1>1, <1>3, <1>4

LEMMA TurnFacts ==
  ASSUME NEW n \in Nat, NEW room \in [1..n -> Nat], NEW most \in Nat, most <= SumFunction(room),
         NEW a, IsShare(a, room, most, n), NEW i \in 1..n, Spends(a, room, most, n, i - 1)
  PROVE  LET new == PassTurn(room, most, a, i)
         IN IsShare(new, room, most, n) /\ Spends(new, room, most, n, i)
  <1> DEFINE active == {k \in DOMAIN room : i = 1 \/ a[k] < room[k]}
             new == BalancedPass(room, a, active, most)
             before == Unfilled(a, room, n)
             after == Unfilled(new, room, n)
  <1>0. PassTurn(room, most, a, i) = new
    BY DEF PassTurn
  <1>1. active \in SUBSET (1..n)
    OBVIOUS
  <1>2. active = IF i = 1 THEN 1..n ELSE before
    BY DEF Unfilled
  <1> HIDE DEF active
  <1>3. /\ IsShare(new, room, most, n) /\ \A k \in 1..n : a[k] <= new[k]
        /\ active # {} => SumFunction(new) = most \/ \E k \in active : new[k] = room[k]
    BY <1>1, PassFacts
  <1> HIDE DEF new
  <1>4. /\ a \in [1..n -> Nat] /\ new \in [1..n -> Nat] /\ SumFunction(new) <= most
        /\ SumFunction(a) <= SumFunction(new)
        /\ SumFunction(a) \in Nat /\ SumFunction(new) \in Nat
    <2>1. a \in [1..n -> Nat] /\ new \in [1..n -> Nat] /\ SumFunction(new) <= most
      BY <1>3 DEF IsShare
    <2> QED BY <1>3, <2>1, ShareSum, ShareSumStrict
  <1>5. /\ IsFiniteSet(before) /\ IsFiniteSet(after) /\ after \subseteq before
        /\ before \subseteq 1..n /\ Cardinality(1..n) = n
        /\ Cardinality(before) \in Nat /\ Cardinality(after) \in Nat
    <2>1. ASSUME NEW k \in after PROVE k \in before
      <3>1. k \in 1..n /\ new[k] < room[k]
        BY DEF Unfilled
      <3>2. a[k] \in Nat /\ new[k] \in Nat /\ room[k] \in Nat /\ a[k] <= new[k]
        BY <1>3, <1>4, <3>1
      <3>3. a[k] < room[k]
        BY <3>1, <3>2
      <3> QED BY <3>1, <3>3 DEF Unfilled
    <2>2. before \subseteq 1..n /\ after \subseteq 1..n
      BY DEF Unfilled
    <2>3. IsFiniteSet(1..n) /\ Cardinality(1..n) = n
      BY FS_Interval
    <2> QED BY <2>1, <2>2, <2>3, FS_Subset, FS_CardinalityType
  <1> HIDE DEF before, after
  <1>6. CASE SumFunction(a) = most
    BY <1>0, <1>3, <1>4, <1>6 DEF Spends
  <1>7. CASE SumFunction(a) # most
    <2>1. Cardinality(before) <= n - (i - 1)
      BY <1>7 DEF Spends, before
    <2>2. before # {}
      BY <1>7, AllFilled DEF before
    <2>3. active # {}
      BY <1>2, <2>2
    <2>4. CASE \E k \in active : new[k] = room[k]
      <3>1. PICK k \in active : new[k] = room[k]
        BY <2>4
      <3>2. k \in 1..n /\ k \notin after
        <4>1. k \in 1..n /\ room[k] \in Nat
          BY <1>1
        <4> QED BY <3>1, <4>1 DEF after, Unfilled
      <3>3. CASE i = 1
        <4>1. after \subseteq (1..n) \ {k}
          BY <1>5, <3>2
        <4> DEFINE D == 1..n
        <4>2. IsFiniteSet(D) /\ Cardinality(D) = n /\ k \in D
          BY <3>2, FS_Interval
        <4> HIDE DEF D
        <4>4. Cardinality(D \ {k}) = n - 1 /\ IsFiniteSet(D \ {k})
          BY <4>2, FS_RemoveElement
        <4>5. Cardinality(after) <= Cardinality(D \ {k})
          <5>1. after \subseteq D \ {k}
            BY <4>1 DEF D
          <5> QED BY <4>4, <5>1, FS_Subset
        <4>3. Cardinality(after) <= n - 1
          BY <4>4, <4>5
        <4> QED BY <1>0, <1>3, <3>3, <4>3 DEF Spends, after
      <3>4. CASE i # 1
        <4>1. k \in before /\ after \subseteq before \ {k}
          BY <1>2, <1>5, <3>2, <3>4
        <4>2. Cardinality(before \ {k}) = Cardinality(before) - 1 /\ IsFiniteSet(before \ {k})
          BY <1>5, <4>1, FS_RemoveElement
        <4>3. Cardinality(after) <= Cardinality(before \ {k})
          BY <4>1, <4>2, FS_Subset
        <4>4. Cardinality(after) <= n - i
          BY <1>5, <2>1, <4>2, <4>3
        <4> QED BY <1>0, <1>3, <4>4 DEF Spends, after
      <3> QED BY <3>3, <3>4
    <2>5. CASE SumFunction(new) = most
      BY <1>0, <1>3, <2>5 DEF Spends
    <2> QED BY <1>3, <2>3, <2>4, <2>5
  <1> QED BY <1>6, <1>7

(* The balanced distribution shares out the total, or fills every entry.      *)
LEMMA BalancedFacts ==
  ASSUME NEW n \in Nat, NEW room \in [1..n -> Nat], NEW total \in Nat
  PROVE  /\ IsShare(BalancedCapacities(room, total), room, total, n)
         /\ SumFunction(BalancedCapacities(room, total)) = Smaller(total, SumFunction(room))
  <1> DEFINE most == Smaller(total, SumFunction(room))
             zero == [i \in DOMAIN room |-> 0]
             queue == [i \in DOMAIN room |-> i]
             A == {g \in [1..n -> Nat] : IsShare(g, room, most, n)}
             step == [p \in A \X (1..n) |-> PassTurn(room, most, p[1], p[2])]
             Body(iter) == [s \in SUBSET (1..n) |->
                              IF s = {} THEN zero
                              ELSE PassTurn(room, most, iter[s \ {Max(s)}], queue[Max(s)])]
             it == CHOOSE iter : iter = Body(iter)
  <1>1. /\ DOMAIN queue = 1..n /\ Len(queue) = n /\ DOMAIN room = 1..n
        /\ \A i \in 1..n : queue[i] = i
    OBVIOUS
  <1>2. most \in Nat /\ most <= total /\ most <= SumFunction(room)
    BY ShareSum DEF Smaller
  <1>3. zero \in A
    <2>1. zero \in [1..n -> Nat] /\ \A i \in 1..n : zero[i] <= room[i]
      OBVIOUS
    <2>2. SumFunction(zero) = 0
      <3> DEFINE S == 1..n
      <3>1. IsFiniteSet(S) /\ \A x \in S : zero[x] \in Int /\ zero[x] = 0
        BY FS_Interval
      <3>2. SumFunction(zero) = SumFunctionOnSet(zero, S)
        BY <2>1, ShareSum
      <3> HIDE DEF S, zero
      <3>3. SumFunctionOnSet(zero, S) = SumFunctionOnSet(zero, {})
        BY <3>1, SumZeros
      <3> QED BY <3>2, <3>3, SumOfNone
    <2> HIDE DEF zero, most
    <2> QED BY <1>2, <2>1, <2>2 DEF IsShare
  <1> HIDE DEF most, zero, queue
  <1>4. ASSUME NEW a \in A, NEW i \in 1..n PROVE PassTurn(room, most, a, i) \in A
    <2> DEFINE active == {k \in DOMAIN room : i = 1 \/ a[k] < room[k]}
               new == BalancedPass(room, a, active, most)
    <2>1. active \in SUBSET (1..n) /\ IsShare(a, room, most, n)
      BY <1>1
    <2> HIDE DEF active
    <2>2. IsShare(new, room, most, n)
      BY <1>2, <2>1, PassFacts
    <2>3. PassTurn(room, most, a, i) = new
      BY DEF PassTurn, active
    <2> HIDE DEF new
    <2> QED BY <2>2, <2>3 DEF IsShare
  <1>5. \A a \in A, i \in 1..n : /\ step[<<a, i>>] = PassTurn(room, most, a, i)
                                 /\ step[<<a, i>>] \in A
    <2> HIDE DEF A
    <2> QED BY <1>4
  <1> HIDE DEF A, step
  <1>6. PICK g \in [SUBSET (1..n) -> A] : Unfolds(g, 1..n, zero, Largest(n), step)
    BY <1>3, <1>5, LoopExists
  <1>7. g = Body(g)
    <2>1. ASSUME NEW s \in SUBSET (1..n) PROVE g[s] = Body(g)[s]
      <3>1. Largest(n)[s] = Max(s) /\ (s # {} => Max(s) \in s)
        BY Intervals DEF Largest
      <3>2. CASE s = {}
        BY <1>6, <3>2 DEF Unfolds, UnfoldsAt
      <3>3. CASE s # {}
        <4>1. Max(s) \in 1..n /\ g[s \ {Max(s)}] \in A /\ queue[Max(s)] = Max(s)
          BY <1>1, <1>6, <3>1, <3>3
        <4>2. g[s] = step[<<g[s \ {Max(s)}], Max(s)>>]
          BY <1>6, <3>1, <3>3 DEF Unfolds, UnfoldsAt
        <4> QED BY <1>5, <3>3, <4>1, <4>2
      <3> QED BY <3>2, <3>3
    <2>2. Body(g) = [s \in SUBSET (1..n) |-> Body(g)[s]] /\ g = [s \in SUBSET (1..n) |-> g[s]]
      BY <1>6
    <2> HIDE DEF Body
    <2> QED BY <2>1, <2>2
  <1>8. it = Body(it)
    <2> HIDE DEF Body
    <2> QED BY <1>7
  <1>9. BalancedCapacities(room, total) = it[1..n]
    BY <1>1 DEF BalancedCapacities, PassTurn, FoldLeft, MapThenFoldSet, most, zero, queue
  <1> DEFINE Good(i) == it[1..i] \in A /\ Spends(it[1..i], room, most, n, i)
             T == {i \in Nat : i <= n => Good(i)}
  <1> HIDE DEF it
  <1>10. 0 \in T
    <2>1. it[1..0] = zero
      <3>1. it[{}] = zero /\ 1..0 = {}
        BY <1>8
      <3> QED BY <3>1
    <2>2. Cardinality(Unfilled(zero, room, n)) <= n
      <3>1. IsFiniteSet(1..n) /\ Cardinality(1..n) = n /\ Unfilled(zero, room, n) \subseteq 1..n
        BY FS_Interval DEF Unfilled
      <3> QED BY <3>1, FS_Subset
    <2>3. Spends(zero, room, most, n, 0)
      BY <2>2 DEF Spends
    <2>4. Good(0)
      BY <1>3, <2>1, <2>3
    <2> HIDE DEF Good
    <2> QED BY <2>4
  <1>11. ASSUME NEW i \in Nat, i \in T PROVE i + 1 \in T
    <2>1. SUFFICES ASSUME i + 1 <= n PROVE Good(i + 1)
      OBVIOUS
    <2> DEFINE k == i + 1
    <2>2. k \in 1..n /\ k - 1 = i
      BY <2>1
    <2>3. /\ 1..k \in SUBSET (1..n) /\ 1..k # {} /\ Max(1..k) = k
          /\ (1..k) \ {k} = 1..i
      BY <2>2, Intervals
    <2> HIDE DEF k
    <2>4. it[1..k] = PassTurn(room, most, it[1..i], k)
      <3> DEFINE S == 1..k
      <3>1. it[S] = Body(it)[S]
        BY <1>8, Zenon
      <3>2. S \in SUBSET (1..n) /\ S # {} /\ Max(S) = k /\ S \ {k} = 1..i /\ queue[k] = k
        BY <1>1, <2>2, <2>3
      <3> HIDE DEF S
      <3>3. Body(it)[S] = PassTurn(room, most, it[S \ {Max(S)}], queue[Max(S)])
        BY <3>2, Zenon
      <3> HIDE DEF Body
      <3> QED BY <3>1, <3>2, <3>3 DEF S
    <2>5. it[1..i] \in A /\ Spends(it[1..i], room, most, n, k - 1)
      BY <1>11, <2>1, <2>2
    <2>6. it[1..k] \in A
      BY <1>4, <2>2, <2>4, <2>5
    <2>7. Spends(it[1..k], room, most, n, k)
      <3>1. IsShare(it[1..i], room, most, n)
        BY <2>5 DEF A
      <3> QED BY <1>2, <2>2, <2>4, <2>5, <3>1, TurnFacts
    <2> QED BY <2>6, <2>7 DEF k
  <1>12. n \in T
    <2>1. Nat \subseteq T
      <3> HIDE DEF T
      <3> QED BY <1>10, <1>11, InductionOnNat
    <2> QED BY <2>1
  <1> DEFINE r == it[1..n]
  <1>13. /\ r \in [1..n -> Nat] /\ SumFunction(r) <= most /\ \A i \in 1..n : r[i] <= room[i]
         /\ IsShare(r, room, most, n) /\ Spends(r, room, most, n, n)
    <2>1. r \in A /\ Spends(r, room, most, n, n)
      BY <1>12
    <2> QED BY <2>1 DEF A, IsShare
  <1> HIDE DEF r
  <1>14. SumFunction(r) \in Nat
    BY <1>13, ShareSum
  <1>15. SumFunction(r) <= total
    BY <1>2, <1>13, <1>14
  <1>16. SumFunction(r) = most
    <2>1. CASE Cardinality(Unfilled(r, room, n)) <= n - n
      <3>1. IsFiniteSet(Unfilled(r, room, n))
        <4>1. IsFiniteSet(1..n) /\ Unfilled(r, room, n) \subseteq 1..n
          BY FS_Interval DEF Unfilled
        <4> QED BY <4>1, FS_Subset
      <3>2. Unfilled(r, room, n) = {}
        BY <2>1, <3>1, FS_CardinalityType, FS_EmptySet
      <3> QED BY <1>2, <1>13, <3>2, AllFilled
    <2> QED BY <1>13, <2>1 DEF Spends
  <1> QED BY <1>9, <1>13, <1>15, <1>16 DEF IsShare, r, most


(* The skewed distribution shares out a number of tokens that is enough for  *)
(* a token each.                                                             *)
LEMMA OnesSum ==
  ASSUME NEW n \in Nat, NEW one \in [1..n -> Nat], \A i \in 1..n : one[i] = 1
  PROVE  SumFunction(one) = n
  <1> DEFINE G(i) == SumFunctionOnSet(one, 1..i)
             T == {i \in Nat : i <= n => G(i) = i}
  <1>1. G(0) = 0 /\ \A i \in 1..n : G(i) = G(i - 1) + one[i]
    <2>1. \A i \in 1..n : one[i] \in Int
      OBVIOUS
    <2> QED BY <2>1, PrefixSums
  <1> HIDE DEF G
  <1>2. 0 \in T
    BY <1>1
  <1>3. ASSUME NEW i \in Nat, i \in T PROVE i + 1 \in T
    <2>1. SUFFICES ASSUME i + 1 <= n PROVE G(i + 1) = i + 1
      OBVIOUS
    <2>2. i + 1 \in 1..n /\ (i + 1) - 1 = i
      BY <2>1
    <2>3. G(i + 1) = G(i) + one[i + 1] /\ one[i + 1] = 1 /\ G(i) = i
      BY <1>1, <1>3, <2>1, <2>2
    <2> QED BY <2>3
  <1>4. n \in T
    <2>1. Nat \subseteq T
      <3> HIDE DEF T
      <3> QED BY <1>2, <1>3, InductionOnNat
    <2> QED BY <2>1
  <1>5. SumFunction(one) = G(n)
    BY ShareSum DEF G
  <1> QED BY <1>4, <1>5

LEMMA SingleSum ==
  ASSUME NEW n \in Nat \ {0}, NEW f \in [1..n -> Nat], \A i \in 2..n : f[i] = 0
  PROVE  SumFunction(f) = f[1]
  <1> DEFINE D == 1..n
             S == {1}
  <1>1. IsFiniteSet(D) /\ SumFunction(f) = SumFunctionOnSet(f, D)
    BY ShareSum, Intervals
  <1>2. (\A x \in D : f[x] \in Int) /\ S \in SUBSET D /\ \A x \in D \ S : f[x] = 0
    OBVIOUS
  <1>3. 1 \notin {} /\ (\A y \in {} \cup {1} : f[y] \in Int) /\ IsFiniteSet({}) /\ {} \cup {1} = S
        /\ f[1] \in Int
    BY FS_EmptySet
  <1> HIDE DEF D, S
  <1>4. SumFunctionOnSet(f, D) = SumFunctionOnSet(f, S)
    BY <1>1, <1>2, SumZeros
  <1>5. SumFunctionOnSet(f, S) = f[1] + SumFunctionOnSet(f, {})
    <2>1. SumFunctionOnSet(f, {} \cup {1}) = f[1] + SumFunctionOnSet(f, {})
      BY <1>3, SumAdd
    <2> QED BY <1>3, <2>1
  <1>6. SumFunctionOnSet(f, {}) = 0
    BY SumOfNone
  <1> QED BY <1>1, <1>3, <1>4, <1>5, <1>6

LEMMA SkewedFacts ==
  ASSUME NEW n \in Nat \ {0}, NEW room \in [1..n -> Nat \ {0}], NEW total \in Nat, n <= total
  PROVE  /\ IsShare(Skewed(room, total), room, total, n)
         /\ total <= SumFunction(room) => SumFunction(Skewed(room, total)) = total
         /\ \/ Skewed(room, total)[1] = room[1]
            \/ \A i \in 1..n : Skewed(room, total)[1] >= Skewed(room, total)[i]
         /\ Skewed(room, total)[1] > 0
  <1> DEFINE rest == total - n
             heavy == Smaller(room[1] - 1, (rest * 3 + 3) \div 4)
             one == [i \in 1..n |-> 1]
             top == [i \in 1..n |-> IF i = 1 THEN heavy ELSE 0]
             base == [i \in 1..n |-> IF i = 1 THEN 1 + heavy ELSE 1]
             left == [i \in 1..n |-> room[i] - base[i]]
             extra == BalancedCapacities(left, rest - heavy)
             given == [i \in 1..n |-> base[i] + extra[i]]
  <1>0. n \in Nat
    OBVIOUS
  <1>1. DOMAIN room = 1..n /\ Len(room) = n /\ 1 \in 1..n /\ rest \in Nat
    OBVIOUS
  <1>2. Skewed(room, total) = given
    BY <1>1 DEF Skewed
  <1>3. /\ heavy \in Nat /\ heavy <= room[1] - 1 /\ heavy <= rest
        /\ heavy = room[1] - 1 \/ rest - heavy <= heavy
    <2> DEFINE m == (rest * 3 + 3) \div 4
    <2>1. m \in Nat /\ m <= rest /\ rest - m <= m
      BY <1>1
    <2>2. room[1] - 1 \in Nat
      BY <1>1
    <2> HIDE DEF m
    <2> QED BY <2>1, <2>2 DEF Smaller, m
  <1> HIDE DEF rest, heavy
  <1>4. /\ one \in [1..n -> Nat] /\ top \in [1..n -> Nat] /\ base \in [1..n -> Nat]
        /\ \A i \in 1..n : base[i] = one[i] + top[i] /\ one[i] = 1 /\ base[i] <= room[i]
        /\ top[1] = heavy /\ \A i \in 2..n : top[i] = 0
    BY <1>1, <1>3
  <1>5. left \in [1..n -> Nat] /\ \A i \in 1..n : left[i] = room[i] - base[i]
    BY <1>4
  <1>6. rest - heavy \in Nat
    BY <1>1, <1>3
  <1> HIDE DEF one, top, base, left
  <1>7. /\ extra \in [1..n -> Nat] /\ SumFunction(extra) <= rest - heavy
        /\ \A i \in 1..n : extra[i] <= left[i]
        /\ SumFunction(extra) = Smaller(rest - heavy, SumFunction(left))
    BY <1>5, <1>6, BalancedFacts DEF IsShare
  <1> HIDE DEF extra
  <1>8. /\ given \in [1..n -> Nat] /\ \A i \in 1..n : given[i] = base[i] + extra[i]
    <2>1. ASSUME NEW i \in 1..n PROVE base[i] + extra[i] \in Nat
      <3>1. base[i] \in Nat /\ extra[i] \in Nat
        BY <1>4, <1>7
      <3> QED BY <3>1
    <2> QED BY <2>1
  <1> HIDE DEF given
  <1>9. SumFunction(base) = SumFunction(one) + SumFunction(top)
    <2>1. /\ one \in [1..n -> Nat] /\ top \in [1..n -> Nat] /\ base \in [1..n -> Nat]
      BY <1>4
    <2>2. \A i \in 1..n : base[i] = one[i] + top[i]
      BY <1>4
    <2> QED BY ONLY <1>0, <2>1, <2>2, ShareSumPlus
  <1>10. SumFunction(one) = n /\ SumFunction(top) = heavy
    BY <1>0, <1>4, OnesSum, SingleSum
  <1>11. SumFunction(given) = SumFunction(base) + SumFunction(extra)
    <2>1. /\ base \in [1..n -> Nat] /\ extra \in [1..n -> Nat] /\ given \in [1..n -> Nat]
      BY <1>4, <1>7, <1>8
    <2>2. \A i \in 1..n : given[i] = base[i] + extra[i]
      BY <1>8
    <2> QED BY ONLY <1>0, <2>1, <2>2, ShareSumPlus
  <1>12. SumFunction(extra) \in Nat
    BY <1>0, <1>7, ShareSum
  <1>13. SumFunction(given) <= total
    BY <1>1, <1>3, <1>7, <1>9, <1>10, <1>11, <1>12 DEF rest
  <1>14. ASSUME NEW i \in 1..n PROVE given[i] <= room[i]
    <2>1. /\ given[i] = base[i] + extra[i] /\ extra[i] <= left[i] /\ left[i] = room[i] - base[i]
          /\ base[i] \in Nat /\ room[i] \in Nat /\ extra[i] \in Nat
      BY <1>4, <1>5, <1>7, <1>8
    <2> QED BY <2>1
  <1>15. ASSUME total <= SumFunction(room) PROVE SumFunction(given) = total
    <2>1. /\ base \in [1..n -> Nat] /\ left \in [1..n -> Nat] /\ room \in [1..n -> Nat]
      BY <1>4, <1>5
    <2>2. \A i \in 1..n : room[i] = base[i] + left[i]
      <3>1. ASSUME NEW i \in 1..n PROVE room[i] = base[i] + left[i]
        <4>1. left[i] = room[i] - base[i] /\ base[i] \in Nat /\ room[i] \in Nat
          BY <1>5, <2>1
        <4> QED BY <4>1
      <3> QED BY <3>1
    <2>3. SumFunction(room) = SumFunction(base) + SumFunction(left)
      BY ONLY <1>0, <2>1, <2>2, ShareSumPlus
    <2>4. SumFunction(left) \in Nat
      BY <1>0, <2>1, ShareSum
    <2>5. rest - heavy <= SumFunction(left)
      BY <1>3, <1>9, <1>10, <1>15, <2>3, <2>4 DEF rest
    <2>6. SumFunction(extra) = rest - heavy
      BY <1>7, <2>5 DEF Smaller
    <2> QED BY <1>1, <1>3, <1>9, <1>10, <1>11, <2>6 DEF rest
  <1>16. given[1] = room[1] \/ \A i \in 1..n : given[1] >= given[i]
    <2>1. /\ given[1] = base[1] + extra[1] /\ base[1] = 1 + heavy
          /\ extra[1] \in Nat /\ given[1] <= room[1] /\ room[1] \in Nat
      BY <1>1, <1>4, <1>7, <1>8, <1>14
    <2>2. CASE heavy = room[1] - 1
      BY <2>1, <2>2
    <2>3. ASSUME heavy # room[1] - 1, NEW i \in 1..n PROVE given[1] >= given[i]
      <3>1. i = 1 \/ base[i] = 1
        <4>1. i = 1 \/ (i \in 2..n /\ base[i] = one[i] + top[i] /\ one[i] = 1)
          BY <1>4
        <4> QED BY <1>4, <4>1
      <3>2. given[i] = base[i] + extra[i] /\ extra[i] \in Nat /\ given[i] \in Nat
        BY <1>7, <1>8
      <3>3. extra[i] <= SumFunction(extra)
        <4> DEFINE D == 1..n
        <4>0. IsFiniteSet(D)
          BY <1>0, Intervals
        <4>1. IsFiniteSet(D) /\ (\A x \in D : extra[x] \in Nat) /\ i \in D
          BY <1>7, <4>0
        <4>2. SumFunction(extra) = SumFunctionOnSet(extra, D)
          BY <1>0, <1>7, ShareSum
        <4> HIDE DEF D
        <4> QED BY <4>1, <4>2, SumAtLeastElement
      <3>4. SumFunction(extra) <= heavy /\ SumFunction(extra) \in Nat
        BY <1>1, <1>3, <1>7, <1>12, <2>3
      <3> QED BY <1>3, <2>1, <3>1, <3>2, <3>3, <3>4
    <2> QED BY <2>2, <2>3
  <1>17. given[1] > 0
    <2>1. /\ given[1] = base[1] + extra[1] /\ base[1] = 1 + heavy /\ extra[1] \in Nat
      BY <1>1, <1>4, <1>7, <1>8
    <2> QED BY <1>3, <2>1
  <1> QED BY <1>2, <1>8, <1>13, <1>14, <1>15, <1>16, <1>17 DEF IsShare


(* The requests of a set, in an order. *)
LEMMA SortByFacts ==
  ASSUME NEW s, IsSnapshot(s), NEW requests \in SUBSET Workload(s),
         NEW key, \A r \in requests : key[r] \in Int
  PROVE  /\ SortBy(s, requests, key) \in Seq(Requests)
         /\ IsInjective(SortBy(s, requests, key))
         /\ ToSet(SortBy(s, requests, key)) = requests
         /\ \A i, k \in 1..Len(SortBy(s, requests, key)) :
               i < k => key[SortBy(s, requests, key)[i]] <= key[SortBy(s, requests, key)[k]]
  <1> DEFINE all == s.running \o s.waiting
             some == Keep(all, requests)
  <1>1. /\ all \in Seq(Requests) /\ IsInjective(all)
        /\ ToSet(all) = ToSet(s.running) \cup ToSet(s.waiting)
    BY ConcatFacts DEF IsSnapshot
  <1>2. ToSet(all) = Workload(s)
    BY <1>1, SnapshotFacts
  <1> HIDE DEF all
  <1>3. /\ some \in Seq(Requests) /\ IsInjective(some)
        /\ ToSet(some) = requests
    <2>1. /\ some \in Seq(Requests) /\ IsInjective(some)
          /\ ToSet(some) = ToSet(all) \cap requests
      BY <1>1, KeepFacts
    <2> HIDE DEF some
    <2> QED BY <1>2, <2>1
  <1>4. SortBy(s, requests, key) = InOrder(some, key)
    BY DEF SortBy, all
  <1> HIDE DEF some
  <1>5. \A r \in ToSet(some) : key[r] \in Int
    BY <1>3
  <1> DEFINE q == InOrder(some, key)
  <1>6. /\ q \in Seq(Requests) /\ IsInjective(q) /\ ToSet(q) = requests
        /\ \A i, k \in 1..Len(some) : i < k => q[k] \notin Before(some, key, q[i])
    BY <1>3, <1>5, InOrderFacts
  <1>7. Len(q) = Len(some)
    <2>1. DOMAIN q = DOMAIN some
      BY DEF InOrder
    <2> HIDE DEF q
    <2> QED BY <1>3, <1>6, <2>1
  <1> HIDE DEF q
  <1>8. ASSUME NEW i \in 1..Len(q), NEW k \in 1..Len(q), i < k PROVE key[q[i]] <= key[q[k]]
    <2>1. q[i] \in ToSet(q) /\ q[k] \in ToSet(q)
      BY <1>6 DEF ToSet
    <2>2. q[k] \notin Before(some, key, q[i]) /\ q[k] \in ToSet(some)
      BY <1>3, <1>6, <1>7, <1>8, <2>1
    <2>3. ~(key[q[k]] < key[q[i]])
      BY <2>2 DEF Before
    <2>4. key[q[i]] \in Int /\ key[q[k]] \in Int
      BY <1>6, <2>1
    <2> QED BY <2>3, <2>4
  <1> QED BY <1>4, <1>6, <1>8 DEF q

LEMMA PrefillOrderFacts ==
  ASSUME NEW s, IsSnapshot(s), NEW asked
  PROVE  /\ PrefillOrder(s, asked) \in Seq(Requests)
         /\ IsInjective(PrefillOrder(s, asked))
         /\ ToSet(PrefillOrder(s, asked)) = Prefills(s)
         /\ \A i, k \in 1..Len(PrefillOrder(s, asked)) :
               i < k => StateRank(s, asked, PrefillOrder(s, asked)[i])
                           <= StateRank(s, asked, PrefillOrder(s, asked)[k])
  <1> DEFINE key == [r \in Prefills(s) |-> StateRank(s, asked, r)]
  <1>1. \A r \in Prefills(s) : key[r] \in Int
    BY DEF StateRank
  <1>2. Prefills(s) \in SUBSET Workload(s)
    BY DEF Workload
  <1>3. PrefillOrder(s, asked) = SortBy(s, Prefills(s), key)
    BY DEF PrefillOrder
  <1>4. \A r \in Prefills(s) : key[r] = StateRank(s, asked, r)
    OBVIOUS
  <1> HIDE DEF key
  <1> DEFINE q == PrefillOrder(s, asked)
  <1>5. /\ q \in Seq(Requests) /\ IsInjective(q) /\ ToSet(q) = Prefills(s)
        /\ \A i, k \in 1..Len(q) : i < k => key[q[i]] <= key[q[k]]
    BY <1>1, <1>2, <1>3, SortByFacts
  <1> HIDE DEF q
  <1>6. \A i \in 1..Len(q) : q[i] \in Prefills(s)
    BY <1>5 DEF ToSet
  <1> QED BY <1>4, <1>5, <1>6 DEF q

(* What is kept stays in its order. *)
LEMMA KeepOrder ==
  ASSUME NEW R, NEW q \in Seq(R), IsInjective(q), NEW S
  PROVE  \A i, k \in DOMAIN Keep(q, S), a, b \in 1..Len(q) :
            i < k /\ Keep(q, S)[i] = q[a] /\ Keep(q, S)[k] = q[b] => a < b
  <1> DEFINE n == Len(q)
             Within(kept, j) == \A i \in 1..Len(kept) : \E a \in 1..j : kept[i] = q[a]
             Ordered(kept) == \A i, k \in 1..Len(kept), a, b \in 1..n :
                                 i < k /\ kept[i] = q[a] /\ kept[k] = q[b] => a < b
             Good(kept, j) == kept \in Seq(R) /\ Within(kept, j) /\ Ordered(kept)
  <1>1. n \in Nat /\ DOMAIN q = 1..n /\ \A i \in 1..n : q[i] \in R
    OBVIOUS
  <1>2. PICK t : /\ t[0] = <<>> /\ t[n] = Keep(q, S)
                 /\ \A i \in 1..n : t[i] = KeepTurn(t[i - 1], q[i], S)
    BY KeepTrace
  <1>3. \A a, b \in 1..n : q[a] = q[b] => a = b
    BY <1>1 DEF IsInjective
  <1> HIDE DEF n
  <1>4. ASSUME NEW kept, NEW j \in Nat, j + 1 <= n, Good(kept, j)
        PROVE  Good(Append(kept, q[j + 1]), j + 1)
    <2> DEFINE r == q[j + 1]
               new == Append(kept, r)
    <2>1. j + 1 \in 1..n /\ r \in R
      BY <1>1, <1>4
    <2>2. /\ kept \in Seq(R) /\ Len(kept) \in Nat
          /\ new \in Seq(R) /\ Len(new) = Len(kept) + 1
          /\ \A i \in 1..Len(kept) : new[i] = kept[i]
          /\ new[Len(kept) + 1] = r
      BY <1>4, <2>1, AppendProperties
    <2> HIDE DEF new
    <2>3. ASSUME NEW i \in 1..Len(new) PROVE \E a \in 1..(j + 1) : new[i] = q[a]
      <3>1. CASE i \in 1..Len(kept)
        <4>1. PICK a \in 1..j : kept[i] = q[a]
          BY <1>4, <3>1
        <4>2. a \in 1..(j + 1) /\ new[i] = q[a]
          BY <2>2, <3>1, <4>1
        <4> QED BY <4>2
      <3>2. CASE i = Len(kept) + 1
        BY <2>1, <2>2, <3>2
      <3> QED BY <2>2, <3>1, <3>2
    <2>4. ASSUME NEW i \in 1..Len(new), NEW k \in 1..Len(new), NEW a \in 1..n, NEW b \in 1..n,
                 i < k, new[i] = q[a], new[k] = q[b]
          PROVE  a < b
      <3>1. i \in 1..Len(kept) /\ new[i] = kept[i]
        BY <2>2, <2>4
      <3>2. CASE k \in 1..Len(kept)
        BY <1>4, <2>2, <2>4, <3>1, <3>2
      <3>3. CASE k = Len(kept) + 1
        <4>1. b = j + 1
          BY <1>3, <2>1, <2>2, <2>4, <3>3
        <4>2. PICK c \in 1..j : kept[i] = q[c]
          BY <1>4, <3>1
        <4>3. a = c
          <5>1. c \in 1..n /\ q[a] = q[c]
            BY <1>1, <1>4, <2>4, <3>1, <4>2
          <5> QED BY <1>3, <5>1
        <4> QED BY <4>1, <4>2, <4>3
      <3> QED BY <2>2, <3>2, <3>3
    <2>5. Within(new, j + 1) /\ Ordered(new)
      BY <2>3, <2>4
    <2> QED BY <2>2, <2>5 DEF new
  <1> DEFINE T == {i \in Nat : i <= n => Good(t[i], i)}
  <1>5. 0 \in T
    <2>1. Good(<<>>, 0)
      OBVIOUS
    <2> HIDE DEF Good
    <2> QED BY <1>2, <2>1
  <1>6. ASSUME NEW i \in Nat, i \in T PROVE i + 1 \in T
    <2>1. SUFFICES ASSUME i + 1 <= n PROVE Good(t[i + 1], i + 1)
      OBVIOUS
    <2>2. i + 1 \in 1..n /\ (i + 1) - 1 = i /\ i <= n
      BY <1>1, <2>1
    <2>3. Good(t[i], i)
      BY <1>6, <2>2
    <2>4. Good(t[i], i + 1)
      <3>1. ASSUME NEW m \in 1..Len(t[i]) PROVE \E a \in 1..(i + 1) : t[i][m] = q[a]
        <4>1. PICK a \in 1..i : t[i][m] = q[a]
          BY <2>3
        <4>2. a \in 1..(i + 1)
          OBVIOUS
        <4> QED BY <4>1, <4>2
      <3> QED BY <2>3, <3>1
    <2> HIDE DEF Good
    <2>5. t[i + 1] = KeepTurn(t[i], q[i + 1], S)
      BY <1>2, <2>2
    <2>6. t[i + 1] = t[i] \/ t[i + 1] = Append(t[i], q[i + 1])
      BY <2>5 DEF KeepTurn
    <2> QED BY <1>4, <2>1, <2>3, <2>4, <2>6
  <1>7. Good(t[n], n)
    <2>1. Nat \subseteq T
      <3> HIDE DEF T
      <3> QED BY <1>5, <1>6, InductionOnNat
    <2> HIDE DEF Good
    <2> QED BY <1>1, <2>1
  <1> DEFINE kept == Keep(q, S)
  <1>8. Good(kept, n)
    BY <1>2, <1>7
  <1> HIDE DEF kept
  <1>9. DOMAIN kept = 1..Len(kept)
    BY <1>8
  <1> QED BY <1>8, <1>9 DEF kept, n

(* The entries of a beginning and of an end. *)
LEMMA FrontEntries ==
  ASSUME NEW R, NEW q \in Seq(R), NEW k \in 0..Len(q)
  PROVE  \A i \in 1..k : SubSeq(q, 1, k)[i] = q[i]
  <1>1. \A i \in 1..k : q[i] \in R
    OBVIOUS
  <1>2. CASE k = 0
    BY <1>2
  <1>3. CASE k # 0
    <2> DEFINE p == SubSeq(q, 1, k)
    <2>1. \A i \in 1..(k - 1 + 1) : p[i] = q[1 + i - 1]
      BY <1>1, <1>3, SubSeqProperties
    <2> HIDE DEF p
    <2>2. \A i \in 1..k : i \in 1..(k - 1 + 1) /\ 1 + i - 1 = i
      OBVIOUS
    <2>3. \A i \in 1..k : p[i] = q[i]
      BY <2>1, <2>2
    <2> QED BY <2>3 DEF p
  <1> QED BY <1>2, <1>3

LEMMA TailEntries ==
  ASSUME NEW R, NEW q \in Seq(R), NEW m \in Nat
  PROVE  ToSet(SubSeq(q, m + 1, Len(q))) = {q[i] : i \in (m + 1)..Len(q)}
  <1> DEFINE tail == SubSeq(q, m + 1, Len(q))
             n == Len(q)
  <1>1. n \in Nat /\ \A i \in (m + 1)..n : q[i] \in R
    OBVIOUS
  <1>2. CASE m + 1 <= n
    <2>1. /\ Len(tail) = n - (m + 1) + 1 /\ tail \in Seq(R)
          /\ \A j \in 1..(n - (m + 1) + 1) : tail[j] = q[(m + 1) + j - 1]
      BY <1>1, <1>2, SubSeqProperties
    <2> HIDE DEF tail, n
    <2>2. DOMAIN tail = 1..(n - m) /\ \A j \in 1..(n - m) : tail[j] = q[m + j]
      <3>1. n - (m + 1) + 1 = n - m /\ \A j \in 1..(n - m) : (m + 1) + j - 1 = m + j
        BY <1>1
      <3>2. DOMAIN tail = 1..Len(tail)
        BY <2>1
      <3> QED BY <2>1, <3>1, <3>2
    <2>3. ASSUME NEW x \in ToSet(tail) PROVE \E i \in (m + 1)..n : x = q[i]
      <3>1. PICK j \in 1..(n - m) : tail[j] = x
        BY <2>2 DEF ToSet
      <3>2. m + j \in (m + 1)..n /\ x = q[m + j]
        BY <1>1, <2>2, <3>1
      <3> QED BY <3>2
    <2>4. ASSUME NEW i \in (m + 1)..n PROVE q[i] \in ToSet(tail)
      <3>1. i - m \in 1..(n - m) /\ m + (i - m) = i
        BY <1>1
      <3>2. i - m \in DOMAIN tail /\ tail[i - m] = q[i]
        BY <2>2, <3>1
      <3> QED BY <3>2 DEF ToSet
    <2> QED BY <2>3, <2>4 DEF tail, n
  <1>3. CASE ~(m + 1 <= n)
    <2>1. tail = <<>> /\ (m + 1)..n = {}
      BY <1>1, <1>3
    <2> QED BY <2>1 DEF ToSet
  <1> QED BY <1>2, <1>3

(* Without what follows its first m, a sequence holds at most m. *)
LEMMA BarredFacts ==
  ASSUME NEW R, NEW q \in Seq(R), IsInjective(q), NEW m \in Nat,
         NEW S, S \subseteq ToSet(q) \ ToSet(SubSeq(q, m + 1, Len(q)))
  PROVE  IsFiniteSet(S) /\ Cardinality(S) <= m
  <1> DEFINE k == Smaller(m, Len(q))
             p == SubSeq(q, 1, k)
             tail == SubSeq(q, m + 1, Len(q))
  <1>1. Len(q) \in Nat /\ DOMAIN q = 1..Len(q) /\ k \in 0..Len(q) /\ k <= m
    BY DEF Smaller
  <1>2. /\ p \in Seq(R) /\ Len(p) = k /\ IsInjective(p)
    BY <1>1, FrontFacts
  <1>3. \A i \in 1..k : p[i] = q[i]
    <2>1. \A i \in 1..k : q[i] \in R
      BY <1>1
    <2>2. \A i \in 1..(k - 1 + 1) : p[i] = q[1 + i - 1]
      BY <1>1, <2>1, SubSeqProperties
    <2> HIDE DEF p, k
    <2>3. \A i \in 1..k : i \in 1..(k - 1 + 1) /\ 1 + i - 1 = i
      BY <1>1
    <2> QED BY <2>2, <2>3
  <1>4. S \subseteq ToSet(p)
    <2> SUFFICES ASSUME NEW x \in S PROVE x \in ToSet(p)
      OBVIOUS
    <2>1. PICK i \in 1..Len(q) : q[i] = x
      BY <1>1 DEF ToSet
    <2>2. CASE i <= m
      <3>1. i \in 1..k /\ i \in DOMAIN p
        BY <1>1, <1>2, <2>2 DEF Smaller
      <3>2. p[i] = x
        BY <1>3, <2>1, <3>1
      <3> QED BY <3>1, <3>2 DEF ToSet
    <2>3. CASE ~(i <= m)
      <3>1. /\ m + 1 \in 1..Len(q) /\ i - m \in 1..(Len(q) - (m + 1) + 1)
            /\ (m + 1) + (i - m) - 1 = i
        BY <1>1, <2>1, <2>3
      <3>2. \A j \in (m + 1)..Len(q) : q[j] \in R
        BY <1>1
      <3>3. /\ Len(tail) = Len(q) - (m + 1) + 1 /\ tail \in Seq(R)
            /\ \A j \in 1..(Len(q) - (m + 1) + 1) : tail[j] = q[(m + 1) + j - 1]
        BY <1>1, <3>1, <3>2, SubSeqProperties
      <3> HIDE DEF tail
      <3> DEFINE j == i - m
      <3>4. j \in 1..(Len(q) - (m + 1) + 1) /\ q[(m + 1) + j - 1] = x
        BY <2>1, <3>1
      <3> HIDE DEF j
      <3>5. tail[j] = x
        BY <3>3, <3>4
      <3>6. DOMAIN tail = 1..(Len(q) - (m + 1) + 1)
        BY <3>3
      <3>7. x \in ToSet(tail)
        BY <3>4, <3>5, <3>6 DEF ToSet
      <3> QED BY <3>7 DEF tail
    <2> QED BY <2>2, <2>3
  <1> HIDE DEF p, k
  <1>5. IsFiniteSet(ToSet(p)) /\ Cardinality(ToSet(p)) = k
    BY <1>2, InjectiveLength
  <1>6. IsFiniteSet(S) /\ Cardinality(S) <= Cardinality(ToSet(p)) /\ Cardinality(S) \in Nat
    BY <1>4, <1>5, FS_Subset, FS_CardinalityType
  <1> QED BY <1>1, <1>5, <1>6

LEMMA SelectPrefillsFacts ==
  ASSUME NEW s, IsSnapshot(s), NEW asked, IsRecipe(asked), NEW cap \in Int
  PROVE  /\ SelectPrefills(s, asked, cap) \in Seq(Requests)
         /\ IsInjective(SelectPrefills(s, asked, cap))
         /\ ToSet(SelectPrefills(s, asked, cap)) \subseteq Prefills(s)
         /\ SelectPrefills(s, asked, cap) # <<>> =>
               cap > 0 /\ Len(SelectPrefills(s, asked, cap)) <= cap
         /\ Cardinality(ToSet(SelectPrefills(s, asked, cap)) \cap ToSet(s.waiting)) <= NewSlots(s)
  <1> DEFINE order == PrefillOrder(s, asked)
             new == Keep(order, ToSet(s.waiting))
             slots == NewSlots(s)
             barred == ToSet(SubSeq(new, slots + 1, Len(new)))
             able == Keep(order, ToSet(order) \ barred)
             limit == IF Smaller(asked.prefills, cap) > 1
                      THEN Smaller(asked.prefills, cap) ELSE 1
             k == Smaller(Len(able), limit)
             result == SubSeq(able, 1, k)
  <1>1. order \in Seq(Requests) /\ IsInjective(order) /\ ToSet(order) = Prefills(s)
    BY PrefillOrderFacts
  <1>2. SelectPrefills(s, asked, cap) = IF cap <= 0 THEN <<>> ELSE result
    BY DEF SelectPrefills
  <1>3. slots \in Nat
    BY BatchAssumption DEF NewSlots, IsSnapshot
  <1> HIDE DEF order, slots
  <1>4. new \in Seq(Requests) /\ IsInjective(new) /\ ToSet(new) = Prefills(s) \cap ToSet(s.waiting)
    BY <1>1, KeepFacts
  <1> HIDE DEF new, barred
  <1>5. able \in Seq(Requests) /\ IsInjective(able) /\ ToSet(able) = Prefills(s) \ barred
    BY <1>1, KeepFacts
  <1> HIDE DEF able
  <1>6. CASE cap <= 0
    <2>1. SelectPrefills(s, asked, cap) = <<>>
      BY <1>2, <1>6
    <2>2. ToSet(<<>>) = {} /\ IsInjective(<<>>) /\ <<>> \in Seq(Requests)
      BY DEF ToSet, IsInjective
    <2>3. Cardinality(ToSet(<<>>) \cap ToSet(s.waiting)) = 0
      BY <2>2, FS_EmptySet
    <2> QED BY <1>3, <2>1, <2>2, <2>3 DEF slots
  <1>7. CASE cap > 0
    <2>1. limit \in Nat /\ limit <= cap
      BY <1>7 DEF Smaller, IsRecipe
    <2> HIDE DEF limit
    <2>2. Len(able) \in Nat
      BY <1>5
    <2>3. k \in 0..Len(able) /\ k <= cap
      BY <2>1, <2>2 DEF Smaller
    <2> HIDE DEF k
    <2>4. /\ result \in Seq(Requests) /\ Len(result) = k /\ IsInjective(result)
          /\ ToSet(result) \subseteq ToSet(able)
      BY <1>5, <2>3, FrontFacts
    <2> HIDE DEF result
    <2>5. SelectPrefills(s, asked, cap) = result
      BY <1>2, <1>7
    <2> DEFINE both == ToSet(result) \cap ToSet(s.waiting)
    <2>6. both \subseteq ToSet(new) \ ToSet(SubSeq(new, slots + 1, Len(new)))
      BY <1>4, <1>5, <2>4 DEF barred
    <2>7. Cardinality(both) <= slots
      <3> HIDE DEF both
      <3> QED BY <1>3, <1>4, <2>6, BarredFacts
    <2> QED BY <1>5, <1>7, <2>3, <2>4, <2>5, <2>7 DEF slots
  <1> QED BY <1>6, <1>7

(* Of two requests kept, the one that comes first in the sequence comes first  *)
(* in what is kept of it.                                                    *)
LEMMA KeptBefore ==
  ASSUME NEW R, NEW q \in Seq(R), IsInjective(q), NEW S,
         NEW a \in 1..Len(q), NEW b \in 1..Len(q), a < b, q[a] \in S, NEW k \in DOMAIN Keep(q, S),
         Keep(q, S)[k] = q[b]
  PROVE  \E i \in DOMAIN Keep(q, S) : i < k /\ Keep(q, S)[i] = q[a]
  <1> DEFINE kept == Keep(q, S)
  <1>1. kept \in Seq(R) /\ ToSet(kept) = ToSet(q) \cap S
    BY KeepFacts
  <1>2. \A i, j \in DOMAIN kept, c, d \in 1..Len(q) :
           i < j /\ kept[i] = q[c] /\ kept[j] = q[d] => c < d
    BY KeepOrder
  <1>3. DOMAIN q = 1..Len(q) /\ Len(q) \in Nat /\ kept[k] = q[b] /\ k \in DOMAIN kept
    OBVIOUS
  <1> HIDE DEF kept
  <1>4. q[a] \in ToSet(kept)
    BY <1>1, <1>3 DEF ToSet
  <1>5. PICK i \in DOMAIN kept : kept[i] = q[a]
    BY <1>4 DEF ToSet
  <1>6. DOMAIN kept = 1..Len(kept) /\ Len(kept) \in Nat
    BY <1>1
  <1>7. i # k
    <2>1. SUFFICES ASSUME i = k PROVE FALSE
      OBVIOUS
    <2>2. q[a] = q[b]
      BY <1>3, <1>5, <2>1
    <2>3. a = b
      BY <1>3, <2>2 DEF IsInjective
    <2> QED BY <2>3
  <1>8. ~(k < i)
    <2>1. SUFFICES ASSUME k < i PROVE FALSE
      OBVIOUS
    <2>2. b < a
      BY <1>2, <1>3, <1>5, <2>1
    <2> QED BY <2>2
  <1>9. i < k
    BY <1>3, <1>6, <1>7, <1>8
  <1> QED BY <1>5, <1>9 DEF kept

(* A prompt of the preferred state is passed over only for want of a slot. *)
LEMMA SelectionOrder ==
  ASSUME NEW s, IsSnapshot(s), NEW asked, IsRecipe(asked), NEW cap \in Int,
         NEW chosen, chosen = ToSet(SelectPrefills(s, asked, cap)),
         NEW r \in Prefills(s) \ chosen, NEW x \in chosen,
         StateRank(s, asked, r) < StateRank(s, asked, x)
  PROVE  /\ r \in ToSet(s.waiting)
         /\ Cardinality(chosen \cap ToSet(s.waiting)) = NewSlots(s)
  <1> DEFINE order == PrefillOrder(s, asked)
             new == Keep(order, ToSet(s.waiting))
             slots == NewSlots(s)
             barred == ToSet(SubSeq(new, slots + 1, Len(new)))
             able == Keep(order, ToSet(order) \ barred)
             limit == IF Smaller(asked.prefills, cap) > 1
                      THEN Smaller(asked.prefills, cap) ELSE 1
             k == Smaller(Len(able), limit)
             result == SubSeq(able, 1, k)
             n == Len(order)
  <1>1. /\ order \in Seq(Requests) /\ IsInjective(order) /\ ToSet(order) = Prefills(s)
        /\ \A i, j \in 1..n :
              i < j => StateRank(s, asked, order[i]) <= StateRank(s, asked, order[j])
    BY PrefillOrderFacts
  <1>2. SelectPrefills(s, asked, cap) = IF cap <= 0 THEN <<>> ELSE result
    BY DEF SelectPrefills
  <1>3. slots \in Nat
    BY BatchAssumption DEF NewSlots, IsSnapshot
  <1>4. cap > 0
    <2>1. ToSet(<<>>) = {}
      BY DEF ToSet
    <2> QED BY <1>2, <2>1
  <1>5. limit \in Nat
    BY <1>4 DEF Smaller, IsRecipe
  <1>6. chosen = ToSet(result)
    BY <1>2, <1>4
  <1> HIDE DEF order, slots, limit
  <1>7. /\ new \in Seq(Requests) /\ IsInjective(new)
        /\ ToSet(new) = Prefills(s) \cap ToSet(s.waiting)
    BY <1>1, KeepFacts
  <1>8. \A i, j \in DOMAIN new, a, b \in 1..n :
           i < j /\ new[i] = order[a] /\ new[j] = order[b] => a < b
    BY <1>1, KeepOrder
  <1>9. barred = {new[i] : i \in (slots + 1)..Len(new)}
    BY <1>3, <1>7, TailEntries
  <1> HIDE DEF new, barred
  <1>10. /\ able \in Seq(Requests) /\ IsInjective(able)
         /\ ToSet(able) = Prefills(s) \ barred
    BY <1>1, KeepFacts
  <1>11. \A a, b \in 1..n, j \in DOMAIN able :
            a < b /\ order[a] \in ToSet(order) \ barred /\ able[j] = order[b]
               => \E i \in DOMAIN able : i < j /\ able[i] = order[a]
    <2> DEFINE S == ToSet(order) \ barred
    <2> HIDE DEF S
    <2>1. ASSUME NEW a \in 1..Len(order), NEW b \in 1..Len(order), NEW j \in DOMAIN Keep(order, S),
                 a < b, order[a] \in S, Keep(order, S)[j] = order[b]
          PROVE  \E i \in DOMAIN Keep(order, S) : i < j /\ Keep(order, S)[i] = order[a]
      BY <1>1, <2>1, KeptBefore
    <2> QED BY <2>1 DEF S
  <1> HIDE DEF able
  <1>12. DOMAIN able = 1..Len(able) /\ Len(able) \in Nat
    BY <1>10
  <1>13. k \in 0..Len(able)
    BY <1>5, <1>12 DEF Smaller
  <1> HIDE DEF k
  <1>14. DOMAIN result = 1..k /\ \A i \in 1..k : result[i] = able[i]
    <2>1. result \in Seq(Requests) /\ Len(result) = k
      BY <1>10, <1>13, FrontFacts
    <2>2. \A i \in 1..k : result[i] = able[i]
      BY <1>10, <1>13, FrontEntries
    <2> HIDE DEF result
    <2> QED BY <2>1, <2>2
  <1> HIDE DEF result
  <1>15. DOMAIN order = 1..n /\ n \in Nat
    BY <1>1
  <1>16. PICK j \in 1..k : able[j] = x
    BY <1>6, <1>14 DEF ToSet
  <1>17. x \in Prefills(s)
    <2>1. able[j] \in ToSet(able)
      BY <1>12, <1>13, <1>16 DEF ToSet
    <2> QED BY <1>10, <1>16, <2>1
  <1>18. PICK b \in 1..n : order[b] = x
    BY <1>1, <1>15, <1>17 DEF ToSet
  <1>19. PICK a \in 1..n : order[a] = r
    BY <1>1, <1>15 DEF ToSet
  <1>20. StateRank(s, asked, r) \in Int /\ StateRank(s, asked, x) \in Int
    BY DEF StateRank
  <1>21. a < b
    <2>1. ~(b < a)
      BY <1>1, <1>18, <1>19, <1>20
    <2>2. a # b
      BY <1>18, <1>19, <1>20
    <2> QED BY <2>1, <2>2
  <1>22. ASSUME NEW c \in 1..n, c < b, order[c] \notin barred PROVE order[c] \in chosen
    <2>1. order[c] \in ToSet(order) \ barred
      BY <1>15, <1>22 DEF ToSet
    <2>2. j \in DOMAIN able /\ able[j] = order[b]
      BY <1>12, <1>13, <1>16, <1>18
    <2>3. PICK i \in DOMAIN able : i < j /\ able[i] = order[c]
      BY <1>11, <1>22, <2>1, <2>2
    <2>4. i \in 1..k /\ result[i] = order[c]
      BY <1>12, <1>13, <1>14, <2>3
    <2> QED BY <1>6, <1>14, <2>4 DEF ToSet
  <1>23. r \in barred
    BY <1>19, <1>21, <1>22
  <1>24. PICK top \in (slots + 1)..Len(new) : r = new[top]
    BY <1>9, <1>23
  <1>25. DOMAIN new = 1..Len(new) /\ Len(new) \in Nat /\ top \in DOMAIN new
    BY <1>3, <1>7, <1>24
  <1>26. r \in ToSet(s.waiting)
    BY <1>7, <1>24, <1>25 DEF ToSet
  <1>27. ASSUME NEW i \in 1..slots PROVE new[i] \in chosen \cap ToSet(s.waiting)
    <2>1. i \in DOMAIN new /\ i < top
      BY <1>3, <1>24, <1>25
    <2>2. new[i] \in ToSet(new)
      BY <2>1 DEF ToSet
    <2>3. PICK c \in 1..n : order[c] = new[i]
      BY <1>1, <1>7, <1>15, <2>2 DEF ToSet
    <2>4. c < a
      BY <1>8, <1>19, <1>24, <1>25, <2>1, <2>3
    <2>5. new[i] \notin barred
      <3>1. SUFFICES ASSUME NEW e \in (slots + 1)..Len(new), new[i] = new[e] PROVE FALSE
        BY <1>9
      <3>2. i = e
        BY <1>3, <1>7, <1>25, <2>1, <3>1 DEF IsInjective
      <3> QED BY <1>3, <3>1, <3>2
    <2>6. order[c] \in chosen
      BY <1>21, <1>22, <2>3, <2>4, <2>5
    <2> QED BY <1>7, <2>2, <2>3, <2>6
  <1> DEFINE front == SubSeq(new, 1, slots)
             both == chosen \cap ToSet(s.waiting)
  <1>28. /\ front \in Seq(Requests) /\ Len(front) = slots /\ IsInjective(front)
         /\ \A i \in 1..slots : front[i] = new[i]
    <2>1. slots \in 0..Len(new)
      BY <1>3, <1>24, <1>25
    <2> QED BY <1>7, <2>1, FrontFacts, FrontEntries
  <1> HIDE DEF front
  <1>29. Cardinality(ToSet(front)) = slots /\ IsFiniteSet(ToSet(front))
    BY <1>28, InjectiveLength
  <1>30. ToSet(front) \subseteq both
    BY <1>27, <1>28 DEF ToSet
  <1>31. IsFiniteSet(both) /\ Cardinality(both) <= slots
    <2>1. Cardinality(both) <= slots
      BY SelectPrefillsFacts DEF slots
    <2>2. both \subseteq Requests /\ IsFiniteSet(Requests)
      BY BatchAssumption DEF IsSnapshot, ToSet
    <2> QED BY <2>1, <2>2, FS_Subset
  <1> HIDE DEF both
  <1>32. slots <= Cardinality(both) /\ Cardinality(both) \in Nat
    BY <1>29, <1>30, <1>31, FS_Subset, FS_CardinalityType
  <1>33. Cardinality(both) = slots
    BY <1>3, <1>31, <1>32
  <1> QED BY <1>26, <1>33 DEF both, slots

(* A sum over the entries of a sequence is one over what it holds. *)
LEMMA SumOverSequence ==
  ASSUME NEW R, NEW q \in Seq(R), IsInjective(q), NEW f, \A x \in ToSet(q) : f[x] \in Int,
         NEW g, \A i \in 1..Len(q) : g[i] = f[q[i]]
  PROVE  SumFunctionOnSet(g, 1..Len(q)) = SumFunctionOnSet(f, ToSet(q))
  <1> DEFINE n == Len(q)
             G(i) == SumFunctionOnSet(g, 1..i)
             F(i) == SumFunctionOnSet(f, First(q, i))
             T == {i \in Nat : i <= n => IsFiniteSet(First(q, i)) /\ First(q, i) \subseteq ToSet(q)
                                         /\ G(i) = F(i)}
  <1>1. n \in Nat /\ DOMAIN q = 1..n /\ \A i \in 1..n : q[i] \in ToSet(q)
    BY DEF ToSet
  <1>2. G(0) = 0 /\ \A i \in 1..n : G(i) = G(i - 1) + g[i]
    <2>1. \A i \in 1..n : g[i] \in Int
      BY <1>1
    <2> QED BY <1>1, <2>1, PrefixSums
  <1> HIDE DEF G
  <1>3. 0 \in T
    <2>1. First(q, 0) = {}
      BY FirstFacts
    <2> QED BY <1>2, <2>1, FS_EmptySet, SumOfNone
  <1>4. ASSUME NEW i \in Nat, i \in T PROVE i + 1 \in T
    <2>1. SUFFICES ASSUME i + 1 <= n
                   PROVE  /\ IsFiniteSet(First(q, i + 1)) /\ First(q, i + 1) \subseteq ToSet(q)
                          /\ G(i + 1) = F(i + 1)
      OBVIOUS
    <2> DEFINE D == First(q, i)
               x == q[i + 1]
    <2>2. /\ First(q, i + 1) = D \cup {x} /\ x \in ToSet(q) \ D
      BY <2>1, FirstFacts
    <2>3. i + 1 \in 1..n /\ (i + 1) - 1 = i
      BY <2>1
    <2>4. IsFiniteSet(D) /\ D \subseteq ToSet(q) /\ G(i) = F(i)
      BY <1>1, <1>4, <2>1
    <2>5. G(i + 1) = G(i) + g[i + 1] /\ g[i + 1] = f[x] /\ f[x] \in Int
      BY <1>2, <2>2, <2>3
    <2>6. IsFiniteSet(D \cup {x}) /\ \A y \in D \cup {x} : f[y] \in Int
      BY <2>2, <2>4, FS_AddElement
    <2> HIDE DEF D, x
    <2>7. SumFunctionOnSet(f, D \cup {x}) = f[x] + SumFunctionOnSet(f, D)
      BY <2>2, <2>4, <2>6, SumAdd
    <2>8. SumFunctionOnSet(f, D) \in Int
      BY <2>4, <2>6, SumType
    <2>9. F(i) = SumFunctionOnSet(f, D) /\ F(i + 1) = SumFunctionOnSet(f, D \cup {x})
      BY <2>2 DEF D
    <2>10. G(i + 1) = F(i + 1)
      <3> HIDE DEF F
      <3> QED BY <2>4, <2>5, <2>7, <2>8, <2>9
    <2> QED BY <2>2, <2>4, <2>6, <2>10
  <1>5. n \in T
    <2>1. Nat \subseteq T
      <3> HIDE DEF T
      <3> QED BY <1>3, <1>4, InductionOnNat
    <2> QED BY <1>1, <2>1
  <1>6. First(q, n) = ToSet(q)
    BY FirstFacts
  <1> QED BY <1>1, <1>5, <1>6 DEF G


(* The tokens of a list of items, summed over the items. *)
Second == [x \in Requests \X Nat |-> x[2]]

LEMMA ItemTokens ==
  ASSUME NEW items \in Seq(Requests \X Nat), NEW d
  PROVE  /\ PrefillTokens(Work(items, d)) \in Nat
         /\ IsInjective(items) =>
               PrefillTokens(Work(items, d)) = SumFunctionOnSet(Second, ToSet(items))
  <1> DEFINE n == Len(items)
             g == [i \in DOMAIN items |-> items[i][2]]
  <1>1. n \in Nat /\ DOMAIN items = 1..n /\ \A i \in 1..n : items[i] \in Requests \X Nat
    OBVIOUS
  <1>2. PrefillTokens(Work(items, d)) = SumFunction(g)
    BY DEF PrefillTokens, Work
  <1>3. g \in [1..n -> Nat] /\ \A i \in 1..n : g[i] = Second[items[i]]
    BY <1>1 DEF Second
  <1>4. \A x \in ToSet(items) : Second[x] \in Int
    BY <1>1 DEF ToSet, Second
  <1> HIDE DEF g, n
  <1>5. SumFunction(g) \in Nat /\ SumFunction(g) = SumFunctionOnSet(g, 1..n)
    BY <1>1, <1>3, ShareSum
  <1>6. IsInjective(items) => SumFunctionOnSet(g, 1..n) = SumFunctionOnSet(Second, ToSet(items))
    BY <1>3, <1>4, SumOverSequence DEF n
  <1> QED BY <1>2, <1>5, <1>6

(* Items for prompts of a set, each once and for tokens it lacks. *)
IsServed(s, items, ids) ==
  /\ items \in Seq(Items)
  /\ \A i, k \in DOMAIN items : items[i][1] = items[k][1] => i = k
  /\ \A i \in DOMAIN items : items[i][1] \in ids /\ items[i][2] <= Remaining(s, items[i][1])

LEMMA RoomForAll ==
  ASSUME NEW n \in Nat, NEW room \in [1..n -> Nat \ {0}]
  PROVE  room \in [1..n -> Nat] /\ SumFunction(room) \in Nat /\ n <= SumFunction(room)
  <1> DEFINE one == [i \in 1..n |-> 1]
             S == 1..n
  <1>1. room \in [1..n -> Nat] /\ one \in [1..n -> Nat] /\ \A i \in 1..n : one[i] = 1
    OBVIOUS
  <1>2. SumFunction(one) = n
    <2> HIDE DEF one
    <2> QED BY <1>1, OnesSum
  <1>3. /\ SumFunction(one) = SumFunctionOnSet(one, S)
        /\ SumFunction(room) = SumFunctionOnSet(room, S) /\ SumFunction(room) \in Nat
    BY <1>1, ShareSum
  <1>4. IsFiniteSet(S)
    BY Intervals
  <1>5. \A x \in S : one[x] \in Int /\ room[x] \in Int /\ one[x] <= room[x]
    OBVIOUS
  <1> HIDE DEF S, one
  <1>6. SumFunctionOnSet(one, S) <= SumFunctionOnSet(room, S)
    BY <1>4, <1>5, SumMonotone
  <1> QED BY <1>1, <1>2, <1>3, <1>6

(* The first of a sequence that is kept is the first of what is kept. *)
LEMMA KeepFirst ==
  ASSUME NEW R, NEW q \in Seq(R), q # <<>>, NEW S, q[1] \in S
  PROVE  Keep(q, S) # <<>> /\ Keep(q, S)[1] = q[1]
  <1> DEFINE n == Len(q)
  <1>1. n \in Nat \ {0} /\ DOMAIN q = 1..n /\ \A i \in 1..n : q[i] \in R
    OBVIOUS
  <1>2. PICK t : /\ t[0] = <<>> /\ t[n] = Keep(q, S)
                 /\ \A i \in 1..n : t[i] = KeepTurn(t[i - 1], q[i], S)
    BY KeepTrace
  <1> DEFINE Good(kept) == kept \in Seq(R) /\ Len(kept) > 0 /\ kept[1] = q[1]
             T == {i \in Nat : i + 1 <= n => Good(t[i + 1])}
  <1> HIDE DEF n
  <1>3. 0 \in T
    <2>0. 1 \in 1..n /\ 1 - 1 = 0
      BY <1>1
    <2>1. t[1] = KeepTurn(t[0], q[1], S) /\ q[1] \in R
      BY <1>1, <1>2, <2>0
    <2>2. t[1] = Append(<<>>, q[1])
      BY <1>2, <2>1, Zenon DEF KeepTurn
    <2>3. Good(t[1])
      BY <2>1, <2>2
    <2> HIDE DEF Good
    <2> QED BY <2>3
  <1>4. ASSUME NEW i \in Nat, i \in T PROVE i + 1 \in T
    <2>1. SUFFICES ASSUME (i + 1) + 1 <= n PROVE Good(t[(i + 1) + 1])
      OBVIOUS
    <2>2. i + 2 \in 1..n /\ (i + 2) - 1 = i + 1 /\ (i + 1) + 1 = i + 2 /\ i + 1 <= n
      BY <1>1, <2>1
    <2>3. t[i + 2] = KeepTurn(t[i + 1], q[i + 2], S) /\ q[i + 2] \in R
      BY <1>1, <1>2, <2>2
    <2>4. Good(t[i + 1])
      BY <1>4, <2>2
    <2>5. t[i + 2] = t[i + 1] \/ t[i + 2] = Append(t[i + 1], q[i + 2])
      BY <2>3 DEF KeepTurn
    <2> DEFINE kept == t[i + 1]
               r == q[i + 2]
    <2>6. Good(Append(kept, r))
      <3>1. kept \in Seq(R) /\ r \in R /\ Len(kept) > 0 /\ kept[1] = q[1]
        BY <2>3, <2>4
      <3> HIDE DEF kept, r
      <3>2. /\ Append(kept, r) \in Seq(R) /\ Len(Append(kept, r)) = Len(kept) + 1
            /\ \A j \in 1..Len(kept) : Append(kept, r)[j] = kept[j]
        BY <3>1, AppendProperties
      <3>3. Len(kept) \in Nat /\ 1 \in 1..Len(kept)
        BY <3>1
      <3> QED BY <3>1, <3>2, <3>3
    <2>7. Good(t[i + 2])
      <3> HIDE DEF Good
      <3> QED BY <2>4, <2>5, <2>6
    <2> HIDE DEF Good
    <2> QED BY <2>2, <2>7
  <1>5. n - 1 \in T
    <2> HIDE DEF T
    <2>1. Nat \subseteq T
      BY <1>3, <1>4, InductionOnNat
    <2>2. n - 1 \in Nat
      BY <1>1
    <2> QED BY <2>1, <2>2
  <1>6. Good(t[n])
    <2>1. (n - 1) + 1 = n /\ n <= n
      BY <1>1
    <2> HIDE DEF Good
    <2> QED BY <1>5, <2>1
  <1> QED BY <1>2, <1>6

LEMMA AllocateFacts ==
  ASSUME NEW s, IsSnapshot(s), NEW requests \in Seq(Requests), IsInjective(requests),
         ToSet(requests) \subseteq Prefills(s), NEW cap \in Nat, requests # <<>>,
         Len(requests) <= cap, NEW distribution
  PROVE  LET items == AllocatePrefillTokens(s, requests, cap, distribution)
             needed == SumFunction([r \in ToSet(requests) |-> Remaining(s, r)])
         IN /\ IsServed(s, items, ToSet(requests))
            /\ PrefillTokens(Work(items, {})) <= cap
            /\ PrefillTokens(Work(items, {})) = Smaller(cap, needed)
            /\ distribution = "skewed" =>
                  \/ items[1][2] = Remaining(s, items[1][1])
                  \/ \A i \in DOMAIN items : items[1][2] >= items[i][2]
  <1> DEFINE n == Len(requests)
             room == [i \in DOMAIN requests |-> Remaining(s, requests[i])]
             total == Smaller(cap, SumFunction(room))
             given == IF distribution = "balanced" \/ n = 1
                      THEN BalancedCapacities(room, total) ELSE Skewed(room, total)
             list == [i \in DOMAIN requests |-> <<requests[i], given[i]>>]
             some == {item \in ToSet(list) : item[2] > 0}
             items == Keep(list, some)
             needs == [r \in ToSet(requests) |-> Remaining(s, r)]
  <1>1. n \in Nat \ {0} /\ DOMAIN requests = 1..n /\ \A i \in 1..n : requests[i] \in ToSet(requests)
    BY DEF ToSet
  <1>2. \A i \in 1..n : requests[i] \in Requests /\ Remaining(s, requests[i]) \in Nat \ {0}
    BY <1>1, SnapshotFacts
  <1>3. room \in [1..n -> Nat \ {0}] /\ \A i \in 1..n : room[i] = Remaining(s, requests[i])
    BY <1>1, <1>2
  <1>4. AllocatePrefillTokens(s, requests, cap, distribution) = items
    BY DEF AllocatePrefillTokens
  <1> HIDE DEF n, room
  <1>5. /\ n \in Nat /\ room \in [1..n -> Nat] /\ SumFunction(room) \in Nat
        /\ n <= SumFunction(room)
    BY <1>1, <1>3, RoomForAll
  <1>60. SumFunction(room) = SumFunction(needs)
    <2> DEFINE D == ToSet(requests)
    <2>1. needs = [r \in D |-> Remaining(s, r)] /\ DOMAIN needs = D
      OBVIOUS
    <2>2. \A i \in 1..Len(requests) : room[i] = needs[requests[i]]
      BY <1>1, <1>3 DEF n
    <2>3. \A x \in ToSet(requests) : needs[x] \in Int
      BY SnapshotFacts
    <2> HIDE DEF needs
    <2>4. SumFunctionOnSet(room, 1..Len(requests)) = SumFunctionOnSet(needs, ToSet(requests))
      BY <2>2, <2>3, SumOverSequence
    <2>5. SumFunction(room) = SumFunctionOnSet(room, 1..n)
      BY <1>5, ShareSum
    <2>6. SumFunction(needs) = SumFunctionOnSet(needs, D)
      BY <2>1 DEF SumFunction
    <2> QED BY <2>4, <2>5, <2>6 DEF n
  <1> HIDE DEF needs
  <1>6. total \in Nat /\ total <= cap /\ n <= total /\ total <= SumFunction(room)
    BY <1>5 DEF Smaller, n
  <1>61. total = Smaller(cap, SumFunction(needs))
    BY <1>60
  <1> HIDE DEF total
  <1>7. IsShare(given, room, total, n) /\ SumFunction(given) = total
    <2>1. /\ IsShare(BalancedCapacities(room, total), room, total, n)
          /\ SumFunction(BalancedCapacities(room, total)) = total
      <3>1. /\ IsShare(BalancedCapacities(room, total), room, total, n)
            /\ SumFunction(BalancedCapacities(room, total)) = Smaller(total, SumFunction(room))
        BY <1>5, <1>6, BalancedFacts
      <3> QED BY <1>6, <3>1 DEF Smaller
    <2>2. /\ IsShare(Skewed(room, total), room, total, n)
          /\ SumFunction(Skewed(room, total)) = total
      BY <1>1, <1>3, <1>6, SkewedFacts
    <2> QED BY <2>1, <2>2
  <1>70. ASSUME distribution = "skewed"
         PROVE  \/ n = 1
                \/ /\ given[1] = room[1] \/ \A i \in 1..n : given[1] >= given[i]
                   /\ given[1] > 0
    BY <1>1, <1>3, <1>6, <1>70, SkewedFacts
  <1> HIDE DEF given
  <1>8. /\ given \in [1..n -> Nat] /\ SumFunction(given) <= total
        /\ \A i \in 1..n : given[i] <= room[i]
    BY <1>7 DEF IsShare
  <1>9. /\ list \in Seq(Requests \X Nat) /\ Len(list) = n /\ DOMAIN list = 1..n
        /\ \A i \in 1..n : list[i] = <<requests[i], given[i]>>
    BY <1>1, <1>2, <1>8
  <1> HIDE DEF list
  <1>10. \A i, k \in 1..n : requests[i] = requests[k] => i = k
    BY <1>1 DEF IsInjective
  <1>11. IsInjective(list)
    <2>1. SUFFICES ASSUME NEW a \in 1..n, NEW b \in 1..n, list[a] = list[b] PROVE a = b
      BY <1>9 DEF IsInjective
    <2>2. requests[a] = requests[b]
      BY <1>9, <2>1
    <2> QED BY <1>10, <2>2
  <1>12. /\ items \in Seq(Requests \X Nat) /\ IsInjective(items)
         /\ ToSet(items) = ToSet(list) \cap some
    <2> HIDE DEF some
    <2> QED BY <1>9, <1>11, KeepFacts
  <1> HIDE DEF items
  <1>13. ASSUME NEW i \in DOMAIN items
         PROVE  /\ items[i][2] \in Nat \ {0}
                /\ \E k \in 1..n : items[i] = <<requests[k], given[k]>>
    <2>1. items[i] \in ToSet(items) /\ items[i] \in Requests \X Nat
      BY <1>12 DEF ToSet
    <2>2. items[i] \in ToSet(list) /\ items[i][2] > 0
      BY <1>12, <2>1
    <2> QED BY <1>9, <2>1, <2>2 DEF ToSet
  <1>14. ASSUME NEW i \in DOMAIN items
         PROVE  /\ items[i] \in Items /\ items[i][1] \in ToSet(requests)
                /\ items[i][2] <= Remaining(s, items[i][1])
    <2>1. PICK k \in 1..n : items[i] = <<requests[k], given[k]>>
      BY <1>13
    <2>2. requests[k] \in ToSet(requests) /\ requests[k] \in Requests
          /\ given[k] <= Remaining(s, requests[k])
      BY <1>1, <1>2, <1>3, <1>8
    <2>3. given[k] \in Nat \ {0}
      BY <1>13, <2>1
    <2> QED BY <2>1, <2>2, <2>3 DEF Items
  <1>15. items \in Seq(Items)
    <2>1. Len(items) \in Nat /\ DOMAIN items = 1..Len(items)
          /\ items = [i \in 1..Len(items) |-> items[i]]
      BY <1>12
    <2>2. \A i \in 1..Len(items) : items[i] \in Items
      BY <1>14, <2>1
    <2> QED BY <2>1, <2>2
  <1>16. ASSUME NEW i \in DOMAIN items, NEW k \in DOMAIN items, items[i][1] = items[k][1]
         PROVE  i = k
    <2>1. PICK a \in 1..n : items[i] = <<requests[a], given[a]>>
      BY <1>13
    <2>2. PICK b \in 1..n : items[k] = <<requests[b], given[b]>>
      BY <1>13
    <2>3. a = b
      BY <1>10, <1>16, <2>1, <2>2
    <2>4. items[i] = items[k]
      BY <2>1, <2>2, <2>3
    <2> QED BY <1>12, <2>4 DEF IsInjective
  <1>17. PrefillTokens(Work(items, {})) = SumFunctionOnSet(Second, ToSet(items))
    BY <1>12, ItemTokens
  <1>18. SumFunctionOnSet(Second, ToSet(items)) = SumFunctionOnSet(Second, ToSet(list))
    <2> DEFINE D == ToSet(list)
               S == ToSet(items)
    <2>1. \A x \in D : x \in Requests \X Nat
      BY <1>9 DEF ToSet
    <2>2. \A x \in D : Second[x] = x[2] /\ x[2] \in Nat
      BY <2>1 DEF Second
    <2>3. IsFiniteSet(D)
      BY <1>9, <1>11, InjectiveLength
    <2>4. S \in SUBSET D /\ \A x \in D \ S : Second[x] = 0
      BY <1>12, <2>2
    <2>5. \A x \in D : Second[x] \in Int
      BY <2>2
    <2> HIDE DEF D, S
    <2>6. SumFunctionOnSet(Second, D) = SumFunctionOnSet(Second, S)
      BY <2>3, <2>4, <2>5, SumZeros
    <2> QED BY <2>6 DEF D, S
  <1>19. SumFunctionOnSet(Second, ToSet(list)) = SumFunction(given)
    <2>1. \A i \in 1..Len(list) : given[i] = Second[list[i]]
      BY <1>2, <1>8, <1>9 DEF Second
    <2>2. \A x \in ToSet(list) : Second[x] \in Int
      <3>1. \A x \in ToSet(list) : x \in Requests \X Nat
        BY <1>9 DEF ToSet
      <3> QED BY <3>1 DEF Second
    <2>3. SumFunctionOnSet(given, 1..Len(list)) = SumFunctionOnSet(Second, ToSet(list))
      BY <1>9, <1>11, <2>1, <2>2, SumOverSequence
    <2>4. SumFunction(given) = SumFunctionOnSet(given, 1..n)
      BY <1>5, <1>8, ShareSum
    <2> QED BY <1>9, <2>3, <2>4
  <1>20. SumFunction(given) \in Nat
    BY <1>5, <1>8, ShareSum
  <1>21. PrefillTokens(Work(items, {})) <= cap
    BY <1>6, <1>8, <1>17, <1>18, <1>19, <1>20
  <1>22. IsServed(s, items, ToSet(requests))
    BY <1>14, <1>15, <1>16 DEF IsServed
  <1>23. PrefillTokens(Work(items, {})) = Smaller(cap, SumFunction(needs))
    BY <1>7, <1>17, <1>18, <1>19, <1>61
  <1>24. ASSUME distribution = "skewed"
         PROVE  \/ items[1][2] = Remaining(s, items[1][1])
                \/ \A i \in DOMAIN items : items[1][2] >= items[i][2]
    <2>1. CASE n = 1
      <3>1. ASSUME NEW i \in DOMAIN items PROVE items[1][2] >= items[i][2]
        <4>1. 1 \in DOMAIN items
          BY <1>12
        <4>2. PICK a \in 1..n : items[i] = <<requests[a], given[a]>>
          BY <1>13
        <4>3. PICK b \in 1..n : items[1] = <<requests[b], given[b]>>
          BY <1>13, <4>1
        <4>4. a = 1 /\ b = 1
          BY <2>1
        <4>5. items[i][2] = items[1][2] /\ items[i][2] \in Nat
          BY <1>13, <4>2, <4>3, <4>4
        <4> QED BY <4>5
      <3> QED BY <3>1
    <2>2. CASE n # 1
      <3>1. /\ given[1] = room[1] \/ \A i \in 1..n : given[1] >= given[i]
            /\ given[1] > 0
        BY <1>24, <1>70, <2>2
      <3>2. list # <<>> /\ list[1] \in some
        <4>1. 1 \in 1..n /\ list[1] = <<requests[1], given[1]>>
          BY <1>1, <1>9
        <4>2. list # <<>>
          BY <1>1, <1>9
        <4>3. list[1] \in ToSet(list)
          BY <1>9, <4>1 DEF ToSet
        <4> QED BY <3>1, <4>1, <4>2, <4>3
      <3>3. items # <<>> /\ items[1] = list[1]
        <4> HIDE DEF some
        <4>1. Keep(list, some) # <<>> /\ Keep(list, some)[1] = list[1]
          BY <1>9, <3>2, KeepFirst
        <4> QED BY <4>1 DEF items
      <3>4. items[1][1] = requests[1] /\ items[1][2] = given[1] /\ 1 \in 1..n
        BY <1>1, <1>9, <3>3
      <3>5. CASE given[1] = room[1]
        BY <1>3, <3>4, <3>5
      <3>6. CASE \A i \in 1..n : given[1] >= given[i]
        <4>1. ASSUME NEW i \in DOMAIN items PROVE items[1][2] >= items[i][2]
          <5>1. PICK a \in 1..n : items[i] = <<requests[a], given[a]>>
            BY <1>13
          <5> QED BY <3>4, <3>6, <5>1
        <4> QED BY <4>1
      <3> QED BY <3>1, <3>5, <3>6
    <2> QED BY <2>1, <2>2
  <1> QED BY <1>4, <1>21, <1>22, <1>23, <1>24 DEF needs


(* Decodes: as many as the recipe and the budget allow, in an order. *)
LEMMA MembersAtMost ==
  ASSUME NEW R, NEW q \in Seq(R)
  PROVE  IsFiniteSet(ToSet(q)) /\ Cardinality(ToSet(q)) \in Nat /\ Cardinality(ToSet(q)) <= Len(q)
  <1> DEFINE S == 1..Len(q)
             T == ToSet(q)
  <1>1. Len(q) \in Nat /\ DOMAIN q = S
    OBVIOUS
  <1>2. q \in Surjection(S, T)
    <2>1. q \in [S -> T]
      BY DEF ToSet
    <2> QED BY <2>1 DEF Surjection, ToSet
  <1>3. IsFiniteSet(S) /\ Cardinality(S) = Len(q)
    BY <1>1, FS_Interval
  <1> HIDE DEF S, T
  <1>4. IsFiniteSet(T) /\ Cardinality(T) <= Cardinality(S)
    BY <1>2, <1>3, FS_Surjection
  <1> QED BY <1>3, <1>4, FS_CardinalityType DEF T

LEMMA DecodeOrderFacts ==
  ASSUME NEW s, IsSnapshot(s), NEW asked
  PROVE  /\ Cardinality(Decodes(s)) \in Nat
         /\ DecodeOrder(s, asked) \in Seq(Decodes(s))
         /\ Len(DecodeOrder(s, asked)) = Cardinality(Decodes(s))
  <1> DEFINE short == SortBy(s, Decodes(s), s.computed)
             n == Len(short)
             both == [i \in 1..n |-> IF i % 2 = 1 THEN short[(i + 1) \div 2]
                                     ELSE short[n + 1 - i \div 2]]
  <1>1. Decodes(s) \in SUBSET Workload(s) /\ \A r \in Decodes(s) : s.computed[r] \in Int
    <2>1. Decodes(s) \subseteq Requests
      BY SnapshotFacts
    <2>2. \A r \in Requests : s.computed[r] \in Int
      BY DEF IsSnapshot
    <2>3. Decodes(s) \in SUBSET Workload(s)
      BY DEF Workload
    <2> QED BY <2>1, <2>2, <2>3
  <1>2. short \in Seq(Requests) /\ IsInjective(short) /\ ToSet(short) = Decodes(s)
    BY <1>1, SortByFacts
  <1>3. DecodeOrder(s, asked) = CASE asked.context = "long" -> Reverse(short)
                                  [] asked.context = "mixed" -> both
                                  [] OTHER -> short
    BY DEF DecodeOrder
  <1> HIDE DEF short
  <1>4. n \in Nat /\ Cardinality(Decodes(s)) = n
    BY <1>2, InjectiveLength
  <1>5. \A i \in 1..n : short[i] \in Decodes(s)
    BY <1>2 DEF ToSet
  <1>6. short \in Seq(Decodes(s)) /\ Len(short) = n
    BY <1>2, <1>4, <1>5
  <1>7. Reverse(short) \in Seq(Decodes(s)) /\ Len(Reverse(short)) = n
    <2>1. Reverse(short) = [i \in 1..n |-> short[(n - i) + 1]]
      BY DEF Reverse
    <2>2. \A i \in 1..n : short[(n - i) + 1] \in Decodes(s)
      <3>1. \A i \in 1..n : (n - i) + 1 \in 1..n
        BY <1>4
      <3> QED BY <1>5, <3>1
    <2> HIDE DEF n
    <2> QED BY <1>4, <2>1, <2>2
  <1>8. both \in Seq(Decodes(s)) /\ Len(both) = n
    <2>1. ASSUME NEW i \in 1..n PROVE both[i] \in Decodes(s)
      <3>1. CASE i % 2 = 1
        <4>1. (i + 1) \div 2 \in 1..n
          BY <1>4, <3>1
        <4> QED BY <1>5, <3>1, <4>1
      <3>2. CASE i % 2 # 1
        <4>1. i % 2 = 0
          BY <1>4, <3>2
        <4>2. n + 1 - i \div 2 \in 1..n
          BY <1>4, <4>1
        <4> QED BY <1>5, <3>2, <4>2
      <3> QED BY <3>1, <3>2
    <2>2. both = [i \in 1..n |-> both[i]]
      OBVIOUS
    <2> HIDE DEF both, n
    <2> QED BY <1>4, <2>1, <2>2
  <1> HIDE DEF both, n
  <1> QED BY <1>3, <1>4, <1>6, <1>7, <1>8

LEMMA DecodeLimitFacts ==
  ASSUME NEW s, IsSnapshot(s), NEW asked, IsRecipe(asked)
  PROVE  /\ DecodeLimit(s, asked) \in 0..Cardinality(Decodes(s))
         /\ DecodeLimit(s, asked) <= TokenBudget
         /\ asked.kind = "prefill_only" => DecodeLimit(s, asked) = 0
         /\ PrefillBudget(s, asked) \in Int
         /\ PrefillBudget(s, asked) + DecodeLimit(s, asked) <= TokenBudget
  <1>1. Cardinality(Decodes(s)) \in Nat /\ asked.decodes \in Nat /\ asked.tokens \in Nat
    BY DecodeOrderFacts DEF IsRecipe
  <1>2. TokenBudget \in Nat \ {0}
    BY BatchAssumption
  <1>3. DecodeLimit(s, asked) \in 0..Cardinality(Decodes(s)) /\ DecodeLimit(s, asked) <= TokenBudget
    BY <1>1, <1>2 DEF DecodeLimit, Smaller
  <1> QED BY <1>1, <1>2, <1>3 DEF DecodeLimit, PrefillBudget, Smaller

LEMMA FirstDecodes ==
  ASSUME NEW s, IsSnapshot(s), NEW asked, IsRecipe(asked)
  PROVE  LET chosen == SubSeq(DecodeOrder(s, asked), 1, DecodeLimit(s, asked))
         IN chosen \in Seq(Decodes(s)) /\ Len(chosen) = DecodeLimit(s, asked)
  <1> DEFINE q == DecodeOrder(s, asked)
             k == DecodeLimit(s, asked)
  <1>1. q \in Seq(Decodes(s)) /\ Len(q) \in Nat /\ k \in 0..Len(q)
    BY DecodeOrderFacts, DecodeLimitFacts
  <1> HIDE DEF q, k
  <1>2. \A i \in 1..k : q[i] \in Decodes(s)
    BY <1>1
  <1>3. /\ SubSeq(q, 1, k) \in Seq(Decodes(s))
        /\ Len(SubSeq(q, 1, k)) = IF 1 <= k THEN k - 1 + 1 ELSE 0
    BY <1>1, <1>2, SubSeqProperties
  <1>4. (IF 1 <= k THEN k - 1 + 1 ELSE 0) = k
    BY <1>1
  <1> QED BY <1>3, <1>4 DEF q, k

-----------------------------------------------------------------------------
(* The KV fit.  Every reduction takes a token at least off a plan that is    *)
(* not empty, and leaves a plan.                                             *)
LEMMA LargestItemFacts ==
  ASSUME NEW items \in Seq(Items), items # <<>>
  PROVE  LargestItem(items) \in DOMAIN items
  <1> DEFINE n == Len(items)
             tokens == [i \in 1..n |-> items[i][2]]
             Leads(i, k) == tokens[k] < tokens[i] \/ (tokens[k] = tokens[i] /\ i <= k)
             T == {m \in Nat : m + 1 <= n => \E i \in 1..(m + 1) : \A k \in 1..(m + 1) : Leads(i, k)}
  <1>1. n \in Nat \ {0} /\ DOMAIN items = 1..n /\ \A i \in 1..n : items[i] \in Items
    OBVIOUS
  <1>2. \A i \in 1..n : tokens[i] \in Nat /\ tokens[i] = items[i][2]
    BY <1>1 DEF Items
  <1> HIDE DEF tokens, n
  <1>3. 0 \in T
    <2>1. 1..(0 + 1) = {1}
      OBVIOUS
    <2> QED BY <1>1, <1>2, <2>1
  <1>4. ASSUME NEW m \in Nat, m \in T PROVE m + 1 \in T
    <2>1. SUFFICES ASSUME (m + 1) + 1 <= n
                   PROVE  \E i \in 1..((m + 1) + 1) : \A k \in 1..((m + 1) + 1) : Leads(i, k)
      OBVIOUS
    <2>2. PICK i \in 1..(m + 1) : \A k \in 1..(m + 1) : Leads(i, k)
      BY <1>1, <1>4, <2>1
    <2> DEFINE j == (m + 1) + 1
    <2>3. /\ 1..j = (1..(m + 1)) \cup {j} /\ j \in 1..n /\ i \in 1..n /\ i \in 1..j /\ i < j
          /\ \A k \in 1..(m + 1) : k \in 1..n
      BY <1>1, <2>1
    <2>4. CASE tokens[i] < tokens[j]
      <3>1. ASSUME NEW k \in 1..(m + 1) PROVE tokens[k] < tokens[j]
        <4>1. /\ tokens[k] \in Nat /\ tokens[i] \in Nat /\ tokens[j] \in Nat
              /\ Leads(i, k)
          BY <1>2, <2>2, <2>3
        <4> QED BY <2>4, <4>1
      <3>2. j <= j /\ tokens[j] = tokens[j]
        BY <2>1
      <3>3. ASSUME NEW k \in 1..j PROVE Leads(j, k)
        BY <2>3, <3>1, <3>2, <3>3
      <3>4. j \in 1..j
        BY <2>3
      <3> HIDE DEF Leads, j
      <3>5. \E h \in 1..j : \A k \in 1..j : Leads(h, k)
        BY <3>3, <3>4
      <3> QED BY <3>5 DEF j
    <2>5. CASE ~(tokens[i] < tokens[j])
      <3>1. Leads(i, j)
        BY <1>2, <2>3, <2>5
      <3> QED BY <2>2, <2>3, <3>1
    <2> QED BY <2>4, <2>5
  <1>5. n - 1 \in T
    <2>1. Nat \subseteq T
      <3> HIDE DEF T
      <3> QED BY <1>3, <1>4, InductionOnNat
    <2>2. n - 1 \in Nat
      BY <1>1
    <2> HIDE DEF T
    <2> QED BY <2>1, <2>2
  <1>6. PICK i \in 1..n : \A k \in 1..n : Leads(i, k)
    <2>1. (n - 1) + 1 = n
      BY <1>1
    <2> QED BY <1>1, <1>5, <2>1
  <1>7. \A k \in DOMAIN items : items[k][2] < items[i][2] \/ (items[k][2] = items[i][2] /\ i <= k)
    BY <1>1, <1>2, <1>6
  <1> QED BY <1>1, <1>7 DEF LargestItem

LEMMA ServedFacts ==
  ASSUME NEW s, NEW ids, NEW items, IsServed(s, items, ids)
  PROVE  /\ items \in Seq(Requests \X Nat) /\ IsInjective(items)
         /\ \A i \in DOMAIN items : items[i] \in Items
         /\ \A d : PrefillTokens(Work(items, d)) = SumFunctionOnSet(Second, ToSet(items))
         /\ \A kept \in Seq(Items) :
               IsInjective(kept) /\ ToSet(kept) \subseteq ToSet(items) => IsServed(s, kept, ids)
  <1>1. items \in Seq(Items)
    BY DEF IsServed
  <1>2. items \in Seq(Requests \X Nat) /\ \A i \in DOMAIN items : items[i] \in Items
    BY <1>1 DEF Items
  <1>3. IsInjective(items)
    BY DEF IsServed, IsInjective
  <1>4. ASSUME NEW kept \in Seq(Items), IsInjective(kept), ToSet(kept) \subseteq ToSet(items)
        PROVE  IsServed(s, kept, ids)
    <2>1. \A i \in DOMAIN kept : \E k \in DOMAIN items : kept[i] = items[k]
      BY <1>4 DEF ToSet
    <2>2. ASSUME NEW i \in DOMAIN kept, NEW j \in DOMAIN kept, kept[i][1] = kept[j][1]
          PROVE  i = j
      <3>1. PICK a \in DOMAIN items : kept[i] = items[a]
        BY <2>1
      <3>2. PICK b \in DOMAIN items : kept[j] = items[b]
        BY <2>1
      <3>3. a = b
        BY <2>2, <3>1, <3>2 DEF IsServed
      <3>4. kept[i] = kept[j]
        BY <3>1, <3>2, <3>3
      <3> QED BY <1>4, <3>4 DEF IsInjective
    <2> QED BY <2>1, <2>2 DEF IsServed
  <1>5. ASSUME NEW d PROVE PrefillTokens(Work(items, d)) = SumFunctionOnSet(Second, ToSet(items))
    BY <1>2, <1>3, ItemTokens
  <1> QED BY <1>2, <1>3, <1>4, <1>5


(* A plan in the making: items for prompts of a set, and decodes of a set in *)
(* order.                                                                    *)
IsShape(s, p, ids, D) ==
  /\ p = [items |-> p.items, decodes |-> p.decodes]
  /\ IsServed(s, p.items, ids)
  /\ p.decodes \in Seq(D)

Weight(p) == PrefillTokens(Work(p.items, {})) + Len(p.decodes)

LEMMA WeightFacts ==
  ASSUME NEW s, NEW ids, NEW D, NEW p, IsShape(s, p, ids, D)
  PROVE  /\ Len(p.decodes) \in Nat /\ PrefillTokens(Work(p.items, {})) \in Nat
         /\ Weight(p) \in Nat
         /\ Weight(p) = 0 => p.items = <<>> /\ p.decodes = <<>>
  <1>1. p.items \in Seq(Requests \X Nat) /\ IsServed(s, p.items, ids) /\ p.decodes \in Seq(D)
    BY ServedFacts DEF IsShape
  <1>2. Len(p.decodes) \in Nat /\ PrefillTokens(Work(p.items, {})) \in Nat
    <2>1. Len(p.decodes) \in Nat
      BY <1>1
    <2>2. PrefillTokens(Work(p.items, {})) \in Nat
      BY <1>1, ItemTokens
    <2> QED BY <2>1, <2>2
  <1>3. ASSUME p.items # <<>> PROVE PrefillTokens(Work(p.items, {})) > 0
    <2> DEFINE items == p.items
               w == Work(items, {})
    <2>1. items \in Seq(Items) /\ items # <<>>
      BY <1>1, <1>3 DEF IsServed
    <2>2. w \in Plans /\ w.prefill = items /\ w.decode = {}
      BY <2>1 DEF Plans, Work
    <2>3. w # NoWork
      BY <2>1, <2>2 DEF NoWork, Work
    <2>4. Tokens(w) > 0 /\ PrefillTokens(w) \in Nat
      BY <2>2, <2>3, TokensFacts
    <2>5. Tokens(w) = PrefillTokens(w) + 0
      BY <2>2, FS_EmptySet DEF Tokens
    <2> QED BY <2>4, <2>5
  <1>4. p.decodes # <<>> => Len(p.decodes) > 0
    BY <1>1
  <1> QED BY <1>2, <1>3, <1>4 DEF Weight

(* A slice off one item. *)
LEMMA SmallerItem ==
  ASSUME NEW s, NEW ids \in SUBSET Requests, s.computed \in [Requests -> Nat],
         NEW items, IsServed(s, items, ids), NEW i \in DOMAIN items,
         items[i][2] > BlockSize,
         NEW new, new = [items EXCEPT ![i] = <<@[1], @[2] - BlockSize>>]
  PROVE  /\ IsServed(s, new, ids)
         /\ PrefillTokens(Work(new, {})) <= PrefillTokens(Work(items, {})) - 1
  <1> DEFINE D == DOMAIN items
             f == [k \in D |-> items[k][2]]
             g == [k \in DOMAIN new |-> new[k][2]]
  <1>1. BlockSize \in Nat \ {0}
    BY BatchAssumption
  <1>2. /\ items \in Seq(Items) /\ D = 1..Len(items) /\ Len(items) \in Nat
        /\ \A k \in D : items[k][1] \in Requests /\ items[k][2] \in Nat \ {0}
                        /\ items[k] = <<items[k][1], items[k][2]>>
    BY DEF IsServed, Items
  <1>3. /\ DOMAIN new = D /\ new[i] = <<items[i][1], items[i][2] - BlockSize>>
        /\ \A k \in D : k # i => new[k] = items[k]
    OBVIOUS
  <1>4. items[i][2] - BlockSize \in Nat \ {0} /\ items[i][2] - BlockSize <= items[i][2]
    BY <1>1, <1>2
  <1>5. \A k \in D : /\ new[k] \in Items /\ new[k][1] = items[k][1] /\ new[k][2] <= items[k][2]
                     /\ new[k][2] \in Nat
    BY <1>2, <1>3, <1>4 DEF Items
  <1>6. new \in Seq(Items)
    <2>1. new = [k \in D |-> new[k]]
      BY <1>3
    <2>2. \A k \in 1..Len(items) : new[k] \in Items
      BY <1>2, <1>5
    <2>3. new = [k \in 1..Len(items) |-> new[k]]
      BY <1>2, <2>1
    <2> QED BY ONLY <1>2, <2>2, <2>3
  <1>7. IsServed(s, new, ids)
    <2>1. ASSUME NEW k \in D
          PROVE  new[k][1] \in ids /\ new[k][2] <= Remaining(s, new[k][1])
      <3>1. /\ items[k][1] \in ids /\ items[k][2] <= Remaining(s, items[k][1])
            /\ items[k][1] \in Requests
        BY <1>2 DEF IsServed
      <3>2. Remaining(s, items[k][1]) \in Int
        BY <3>1, BatchAssumption DEF Remaining
      <3> DEFINE m == Remaining(s, items[k][1])
      <3>3. m \in Int /\ items[k][2] <= m /\ new[k][2] <= items[k][2]
            /\ new[k][2] \in Nat /\ items[k][2] \in Nat
        BY <1>2, <1>5, <3>1, <3>2
      <3>4. new[k][1] = items[k][1]
        BY <1>5
      <3> HIDE DEF m
      <3>5. new[k][2] <= m
        BY <3>3
      <3> QED BY <3>1, <3>4, <3>5 DEF m
    <2>2. \A a, b \in D : new[a][1] = new[b][1] => a = b
      BY <1>5 DEF IsServed
    <2> QED BY <1>3, <1>6, <2>1, <2>2 DEF IsServed
  <1>8. /\ PrefillTokens(Work(items, {})) = SumFunctionOnSet(f, D)
        /\ PrefillTokens(Work(new, {})) = SumFunctionOnSet(g, D)
    BY <1>3 DEF PrefillTokens, Work, SumFunction
  <1>9. IsFiniteSet(D) /\ IsFiniteSet(D \ {i})
    BY <1>2, Intervals, FS_Subset
  <1>10. /\ \A k \in D : f[k] \in Int /\ g[k] \in Int
         /\ g[i] = f[i] - BlockSize /\ f[i] \in Int
    BY <1>2, <1>3, <1>4, <1>5
  <1>11. \A k \in D \ {i} : f[k] \in Int /\ g[k] = f[k]
    BY <1>3, <1>10
  <1> HIDE DEF f, g, D
  <1>12. i \in D
    BY DEF D
  <1>13. SumFunctionOnSet(f, D) = f[i] + SumFunctionOnSet(f, D \ {i})
    BY <1>9, <1>10, <1>12, SumRemove
  <1>14. SumFunctionOnSet(g, D) = g[i] + SumFunctionOnSet(g, D \ {i})
    BY <1>9, <1>10, <1>12, SumRemove
  <1>15. SumFunctionOnSet(g, D \ {i}) = SumFunctionOnSet(f, D \ {i})
    BY <1>9, <1>11, SumEqual
  <1>16. SumFunctionOnSet(f, D \ {i}) \in Int
    BY <1>9, <1>11, SumType
  <1> QED BY <1>1, <1>7, <1>8, <1>10, <1>13, <1>14, <1>15, <1>16

(* One item less. *)
LEMMA FewerItems ==
  ASSUME NEW s, NEW ids, NEW items, IsServed(s, items, ids), NEW i \in DOMAIN items,
         NEW new, new = Keep(items, ToSet(items) \ {items[i]})
  PROVE  /\ IsServed(s, new, ids)
         /\ PrefillTokens(Work(new, {})) <= PrefillTokens(Work(items, {})) - 1
  <1> DEFINE S == ToSet(items)
             x == items[i]
  <1>1. /\ items \in Seq(Items) /\ items \in Seq(Requests \X Nat) /\ IsInjective(items)
        /\ x \in Items /\ x \in S
    BY ServedFacts DEF IsServed, ToSet
  <1>2. new \in Seq(Items) /\ IsInjective(new) /\ ToSet(new) = S \ {x}
    <2> DEFINE rest == S \ {x}
    <2>1. Keep(items, rest) \in Seq(Items) /\ IsInjective(Keep(items, rest))
          /\ ToSet(Keep(items, rest)) = S \cap rest
      <3> HIDE DEF rest, S
      <3> QED BY <1>1, KeepFacts DEF S
    <2>2. S \cap rest = S \ {x}
      OBVIOUS
    <2>3. new = Keep(items, rest)
      OBVIOUS
    <2> HIDE DEF rest, S
    <2> QED BY <2>1, <2>2, <2>3
  <1>3. IsServed(s, new, ids)
    BY <1>2, ServedFacts
  <1>4. /\ PrefillTokens(Work(items, {})) = SumFunctionOnSet(Second, S)
        /\ PrefillTokens(Work(new, {})) = SumFunctionOnSet(Second, ToSet(new))
    BY <1>3, ServedFacts
  <1>5. IsFiniteSet(S)
    BY <1>1, InjectiveLength
  <1>6. \A y \in S : Second[y] \in Int
    <2>1. \A y \in S : y \in Requests \X Nat
      BY <1>1 DEF ToSet
    <2> QED BY <2>1 DEF Second
  <1>7. Second[x] \in Nat \ {0}
    BY <1>1 DEF Second, Items
  <1> HIDE DEF S, x
  <1>8. SumFunctionOnSet(Second, S) = Second[x] + SumFunctionOnSet(Second, S \ {x})
    BY <1>1, <1>5, <1>6, SumRemove
  <1>9. SumFunctionOnSet(Second, S \ {x}) \in Int
    BY <1>5, <1>6, FS_Subset, SumType
  <1> DEFINE a == PrefillTokens(Work(items, {}))
             b == PrefillTokens(Work(new, {}))
             c == Second[x]
             rest == SumFunctionOnSet(Second, S \ {x})
  <1>10. a = c + rest /\ b = rest /\ rest \in Int /\ c \in Nat \ {0}
    BY <1>2, <1>4, <1>7, <1>8, <1>9
  <1> HIDE DEF a, b, c, rest
  <1>11. b <= a - 1
    BY <1>10
  <1> QED BY <1>3, <1>11 DEF a, b

LEMMA ReduceFacts ==
  ASSUME NEW s, IsSnapshot(s), NEW ids \in SUBSET Requests, NEW D, NEW p, IsShape(s, p, ids, D),
         p.items \o p.decodes # <<>>
  PROVE  /\ IsShape(s, ReduceOnce(p.items, p.decodes), ids, D)
         /\ Weight(ReduceOnce(p.items, p.decodes)) <= Weight(p) - 1
  <1> DEFINE items == p.items
             decodes == p.decodes
             i == LargestItem(items)
             n == Len(decodes)
  <1>1. /\ IsServed(s, items, ids) /\ items \in Seq(Items) /\ decodes \in Seq(D)
        /\ s.computed \in [Requests -> Nat] /\ n \in Nat
        /\ PrefillTokens(Work(items, {})) \in Nat
    BY WeightFacts DEF IsShape, IsServed, IsSnapshot
  <1>2. CASE items = <<>>
    <2>1. decodes # <<>>
      BY <1>2
    <2> DEFINE front == Front(decodes)
               new == [items |-> items, decodes |-> front]
    <2>2. ReduceOnce(items, decodes) = new
      BY <1>2 DEF ReduceOnce
    <2>3. front \in Seq(D) /\ Len(front) = n - 1
      <3>1. n \in Nat \ {0} /\ \A k \in 1..(n - 1) : decodes[k] \in D
        BY <1>1, <2>1
      <3>2. front = SubSeq(decodes, 1, n - 1)
        BY DEF Front
      <3>3. /\ SubSeq(decodes, 1, n - 1) \in Seq(D)
            /\ Len(SubSeq(decodes, 1, n - 1)) = IF 1 <= n - 1 THEN (n - 1) - 1 + 1 ELSE 0
        BY <1>1, <3>1, SubSeqProperties
      <3>4. (IF 1 <= n - 1 THEN (n - 1) - 1 + 1 ELSE 0) = n - 1
        BY <3>1
      <3> QED BY <3>2, <3>3, <3>4
    <2> HIDE DEF front
    <2>4. IsShape(s, new, ids, D)
      BY <1>1, <2>3 DEF IsShape
    <2>5. Weight(new) <= Weight(p) - 1
      BY <1>1, <2>3 DEF Weight
    <2> QED BY <2>2, <2>4, <2>5
  <1>3. ASSUME items # <<>>, NEW less, IsServed(s, less, ids),
               PrefillTokens(Work(less, {})) <= PrefillTokens(Work(items, {})) - 1,
               ReduceOnce(items, decodes) = [items |-> less, decodes |-> decodes]
        PROVE  /\ IsShape(s, ReduceOnce(p.items, p.decodes), ids, D)
               /\ Weight(ReduceOnce(p.items, p.decodes)) <= Weight(p) - 1
    <2> DEFINE new == [items |-> less, decodes |-> decodes]
    <2>1. IsShape(s, new, ids, D)
      BY <1>1, <1>3 DEF IsShape
    <2>2. PrefillTokens(Work(less, {})) \in Nat
      BY <1>3, ServedFacts, ItemTokens
    <2>3. Weight(new) <= Weight(p) - 1
      BY <1>1, <1>3, <2>2 DEF Weight
    <2> QED BY <1>3, <2>1, <2>3
  <1>4. CASE items # <<>>
    <2>1. i \in DOMAIN items
      BY <1>1, <1>4, LargestItemFacts
    <2>2. /\ items[i][2] \in Nat /\ BlockSize \in Nat
      <3>1. items[i] \in Items
        BY <1>1, <2>1, ServedFacts
      <3> QED BY <3>1, BatchAssumption DEF Items
    <2>3. CASE items[i][2] <= BlockSize
      <3> DEFINE less == Keep(items, ToSet(items) \ {items[i]})
      <3>1. ReduceOnce(items, decodes) = [items |-> less, decodes |-> decodes]
        BY <1>4, <2>3 DEF ReduceOnce
      <3>2. /\ IsServed(s, less, ids)
            /\ PrefillTokens(Work(less, {})) <= PrefillTokens(Work(items, {})) - 1
        BY <1>1, <2>1, FewerItems
      <3> HIDE DEF less
      <3> QED BY <1>3, <1>4, <3>1, <3>2
    <2>4. CASE ~(items[i][2] <= BlockSize)
      <3> DEFINE less == [items EXCEPT ![i] = <<@[1], @[2] - BlockSize>>]
      <3>1. ReduceOnce(items, decodes) = [items |-> less, decodes |-> decodes]
        BY <1>4, <2>4 DEF ReduceOnce
      <3>2. items[i][2] > BlockSize
        BY <2>2, <2>4
      <3>3. /\ IsServed(s, less, ids)
            /\ PrefillTokens(Work(less, {})) <= PrefillTokens(Work(items, {})) - 1
        BY <1>1, <2>1, <3>2, SmallerItem
      <3> HIDE DEF less
      <3> QED BY <1>3, <1>4, <3>1, <3>3
    <2> QED BY <2>3, <2>4
  <1> QED BY <1>2, <1>4


(* The loop of the KV fit. *)
FitTurn(s, p) ==
  IF \/ p.items \o p.decodes = <<>>
     \/ ProjectKv(s, Work(p.items, ToSet(p.decodes))) <= TotalBlocks
  THEN p ELSE ReduceOnce(p.items, p.decodes)

LEMMA FitTurnFacts ==
  ASSUME NEW s, IsSnapshot(s), NEW ids \in SUBSET Requests, NEW D, NEW p, IsShape(s, p, ids, D)
  PROVE  IsShape(s, FitTurn(s, p), ids, D)
  BY ReduceFacts DEF FitTurn

LEMMA FitTrace ==
  ASSUME NEW s, IsSnapshot(s), NEW ids \in SUBSET Requests, NEW D,
         NEW base, IsShape(s, base, ids, D)
  PROVE  \E t : /\ t[0] = base /\ t[Weight(base)] = FitKvCapacity(s, base.items, base.decodes)
                /\ \A i \in 1..Weight(base) : t[i] = FitTurn(s, t[i - 1])
  <1> DEFINE n == Weight(base)
             queue == [i \in 1..n |-> i]
             A == {p \in [items : Seq(Items), decodes : Seq(D)] : IsShape(s, p, ids, D)}
             step == [p \in A \X (1..n) |-> FitTurn(s, p[1])]
             Body(iter) == [d \in SUBSET (1..n) |->
                              IF d = {} THEN base ELSE FitTurn(s, iter[d \ {Max(d)}])]
             it == CHOOSE iter : iter = Body(iter)
  <1>1. n \in Nat
    BY WeightFacts
  <1>2. \A p : IsShape(s, p, ids, D) => p \in A
    BY DEF IsShape, IsServed
  <1>3. base \in A
    BY <1>2
  <1>4. \A a \in A : FitTurn(s, a) \in A
    BY <1>2, FitTurnFacts
  <1>5. DOMAIN queue = 1..n /\ Len(queue) = n
    <2> HIDE DEF n
    <2> QED BY <1>1
  <1> HIDE DEF A
  <1>6. \A a \in A, i \in 1..n : step[<<a, i>>] = FitTurn(s, a) /\ step[<<a, i>>] \in A
    <2> HIDE DEF n
    <2> QED BY <1>4
  <1> HIDE DEF step
  <1>7. PICK g \in [SUBSET (1..n) -> A] : Unfolds(g, 1..n, base, Largest(n), step)
    <2> HIDE DEF n
    <2> QED BY <1>1, <1>3, <1>6, LoopExists
  <1>8. g = Body(g)
    <2> HIDE DEF n
    <2>1. ASSUME NEW d \in SUBSET (1..n) PROVE g[d] = Body(g)[d]
      <3>1. Largest(n)[d] = Max(d) /\ (d # {} => Max(d) \in d)
        BY <1>1, Intervals DEF Largest
      <3> QED BY <1>6, <1>7, <3>1 DEF Unfolds, UnfoldsAt
    <2>2. Body(g) = [d \in SUBSET (1..n) |-> Body(g)[d]] /\ g = [d \in SUBSET (1..n) |-> g[d]]
      BY <1>7
    <2> HIDE DEF Body
    <2> QED BY <2>1, <2>2
  <1>9. it = Body(it)
    <2> HIDE DEF Body
    <2> QED BY <1>8
  <1>10. FitKvCapacity(s, base.items, base.decodes) = it[1..n]
    <2>1. base = [items |-> base.items, decodes |-> base.decodes]
      BY DEF IsShape
    <2> HIDE DEF n
    <2>2. FitKvCapacity(s, base.items, base.decodes) =
            FoldLeft(LAMBDA p, i : FitTurn(s, p), base, queue)
      BY <2>1 DEF FitKvCapacity, FitTurn, Weight, n
    <2> QED BY <1>5, <2>2 DEF FoldLeft, MapThenFoldSet
  <1> DEFINE t == [i \in 0..n |-> it[1..i]]
  <1>11. /\ t[0] = base /\ t[n] = it[1..n]
         /\ \A i \in 1..n : t[i] = FitTurn(s, t[i - 1])
    <2> HIDE DEF it, n
    <2>1. t[0] = base
      <3>1. t[0] = it[{}]
        BY <1>1, Intervals
      <3> QED BY <1>9, <3>1
    <2>2. ASSUME NEW i \in 1..n PROVE t[i] = FitTurn(s, t[i - 1])
      <3>1. t[i] = it[1..i] /\ t[i - 1] = it[1..(i - 1)]
        BY <1>1
      <3>2. /\ 1..i \in SUBSET (1..n) /\ 1..i # {}
            /\ Max(1..i) = i /\ (1..i) \ {i} = 1..(i - 1)
        BY <1>1, Intervals
      <3>3. it[1..i] = FitTurn(s, it[(1..i) \ {Max(1..i)}])
        BY <1>9, <3>2
      <3> HIDE DEF t
      <3> QED BY <3>1, <3>2, <3>3
    <2>3. t[n] = it[1..n]
      BY <1>1
    <2> QED BY <2>1, <2>2, <2>3
  <1> QED BY <1>10, <1>11

(* The fitted plan is a plan no larger, and it fits unless it is empty. *)
LEMMA FitFacts ==
  ASSUME NEW s, IsSnapshot(s), NEW ids \in SUBSET Requests, NEW D,
         NEW base, IsShape(s, base, ids, D)
  PROVE  LET fitted == FitKvCapacity(s, base.items, base.decodes)
         IN /\ IsShape(s, fitted, ids, D)
            /\ Weight(fitted) <= Weight(base)
            /\ \/ fitted.items = <<>> /\ fitted.decodes = <<>>
               \/ ProjectKv(s, Work(fitted.items, ToSet(fitted.decodes))) <= TotalBlocks
  <1> DEFINE n == Weight(base)
             fitted == FitKvCapacity(s, base.items, base.decodes)
             Done(p) == \/ p.items \o p.decodes = <<>>
                        \/ ProjectKv(s, Work(p.items, ToSet(p.decodes))) <= TotalBlocks
  <1>1. n \in Nat
    BY WeightFacts
  <1>2. PICK t : /\ t[0] = base /\ t[n] = fitted
                 /\ \A i \in 1..n : t[i] = FitTurn(s, t[i - 1])
    BY FitTrace
  <1> DEFINE T == {i \in Nat : i <= n => /\ IsShape(s, t[i], ids, D)
                                         /\ Weight(t[i]) <= n
                                         /\ Done(t[i]) \/ Weight(t[i]) <= n - i}
  <1>3. 0 \in T
    BY <1>1, <1>2
  <1> HIDE DEF n, fitted
  <1>4. ASSUME NEW i \in Nat, i \in T PROVE i + 1 \in T
    <2>1. SUFFICES ASSUME i + 1 <= n
                   PROVE  /\ IsShape(s, t[i + 1], ids, D)
                          /\ Weight(t[i + 1]) <= n
                          /\ Done(t[i + 1]) \/ Weight(t[i + 1]) <= n - (i + 1)
      OBVIOUS
    <2> DEFINE p == t[i]
               new == t[i + 1]
    <2>2. i + 1 \in 1..n /\ (i + 1) - 1 = i
      BY <1>1, <2>1
    <2>3. new = FitTurn(s, p)
      BY <1>2, <2>2
    <2>4. IsShape(s, p, ids, D) /\ Weight(p) <= n /\ (Done(p) \/ Weight(p) <= n - i)
      BY <1>1, <1>4, <2>1
    <2> HIDE DEF p, new
    <2>5. IsShape(s, new, ids, D)
      BY <2>3, <2>4, FitTurnFacts
    <2>6. CASE Done(p)
      <3>1. new = p
        BY <2>3, <2>6 DEF FitTurn
      <3> QED BY <2>4, <2>5, <2>6, <3>1 DEF new
    <2>7. CASE ~Done(p)
      <3>1. new = ReduceOnce(p.items, p.decodes) /\ p.items \o p.decodes # <<>>
        BY <2>3, <2>7 DEF FitTurn
      <3>2. Weight(new) <= Weight(p) - 1
        BY <2>4, <3>1, ReduceFacts
      <3>3. Weight(new) \in Nat /\ Weight(p) \in Nat
        BY <2>4, <2>5, WeightFacts
      <3>4. Weight(p) <= n /\ Weight(p) <= n - i
        BY <2>4, <2>7
      <3> DEFINE a == Weight(new)
                 b == Weight(p)
      <3>5. a \in Nat /\ b \in Nat /\ a <= b - 1 /\ b <= n /\ b <= n - i
        BY <3>2, <3>3, <3>4
      <3> HIDE DEF a, b
      <3>6. a <= n /\ a <= n - (i + 1)
        BY <1>1, <3>5
      <3> QED BY <2>5, <3>6 DEF a, new
    <2> QED BY <2>6, <2>7
  <1>5. n \in T
    <2>1. Nat \subseteq T
      <3> HIDE DEF T
      <3> QED BY <1>3, <1>4, InductionOnNat
    <2> QED BY <1>1, <2>1
  <1>6. IsShape(s, fitted, ids, D) /\ Weight(fitted) <= n /\ (Done(fitted) \/ Weight(fitted) <= n - n)
    BY <1>1, <1>2, <1>5
  <1>7. Weight(fitted) \in Nat
    BY <1>6, WeightFacts
  <1>8. CASE Weight(fitted) <= n - n
    <2>1. Weight(fitted) = 0
      BY <1>1, <1>7, <1>8
    <2>2. fitted.items = <<>> /\ fitted.decodes = <<>>
      BY <1>6, <2>1, WeightFacts
    <2> QED BY <1>6, <2>2 DEF n, fitted
  <1>9. CASE Done(fitted)
    <2>1. fitted.items \in Seq(Items) /\ fitted.decodes \in Seq(D)
      BY <1>6 DEF IsShape, IsServed
    <2>2. fitted.items \o fitted.decodes = <<>> => fitted.items = <<>> /\ fitted.decodes = <<>>
      BY <2>1
    <2> QED BY <1>6, <1>9, <2>2 DEF n, fitted
  <1> QED BY <1>6, <1>8, <1>9


LEMMA ShapeIsPlan ==
  ASSUME NEW s, IsSnapshot(s), NEW ids \in SUBSET Prefills(s), NEW D \in SUBSET Decodes(s),
         NEW p, IsShape(s, p, ids, D), NEW w, w = Work(p.items, ToSet(p.decodes))
  PROVE  /\ IsPlan(s, w) /\ Tokens(w) <= Weight(p)
         /\ PrefillIds(w) \subseteq ids /\ w.decode \subseteq D
  <1>1. /\ w.prefill = p.items /\ w.decode = ToSet(p.decodes)
    BY DEF Work
  <1>2. IsServed(s, p.items, ids) /\ p.decodes \in Seq(D)
    BY DEF IsShape
  <1>3. w.decode \subseteq D
    BY <1>1, <1>2 DEF ToSet
  <1>4. w \in Plans
    BY <1>2, <1>3, SnapshotFacts DEF IsServed, Plans, Work
  <1>5. PrefillIds(w) \subseteq ids
    BY <1>1, <1>2 DEF IsServed, PrefillIds
  <1>6. IsPlan(s, w)
    BY <1>1, <1>2, <1>3, <1>4 DEF IsServed, IsPlan
  <1>7. Tokens(w) <= Weight(p)
    <2>1. PrefillTokens(w) = PrefillTokens(Work(p.items, {}))
      BY DEF PrefillTokens, Work
    <2>2. PrefillTokens(Work(p.items, {})) \in Nat /\ Len(p.decodes) \in Nat
      BY WeightFacts
    <2>3. Cardinality(w.decode) \in Nat /\ Cardinality(w.decode) <= Len(p.decodes)
      BY <1>1, <1>2, MembersAtMost
    <2> QED BY <2>1, <2>2, <2>3 DEF Tokens, Weight
  <1> QED BY <1>3, <1>5, <1>6, <1>7

(* The plan asked for, before its KV fit. *)
PromptsAsked(s, asked) ==
  IF asked.kind = "decode_only" THEN {}
  ELSE ToSet(SelectPrefills(s, asked, PrefillBudget(s, asked)))

DecodesAsked(s, asked) == IF asked.kind = "prefill_only" THEN {} ELSE Decodes(s)

LEMMA ShapeFacts ==
  ASSUME NEW s, IsSnapshot(s), NEW asked, IsRecipe(asked), Offers(s, asked)
  PROVE  /\ PromptsAsked(s, asked) \subseteq Prefills(s)
         /\ Cardinality(PromptsAsked(s, asked) \cap ToSet(s.waiting)) <= NewSlots(s)
         /\ IsShape(s, Shape(s, asked), PromptsAsked(s, asked), DecodesAsked(s, asked))
         /\ Weight(Shape(s, asked)) <= TokenBudget
  <1> DEFINE budget == PrefillBudget(s, asked)
             prompts == SelectPrefills(s, asked, budget)
             base == Shape(s, asked)
             limit == DecodeLimit(s, asked)
             ids == PromptsAsked(s, asked)
             D == DecodesAsked(s, asked)
  <1>1. budget \in Int /\ budget + limit <= TokenBudget /\ limit \in Nat /\ limit <= TokenBudget
        /\ (asked.kind = "prefill_only" => limit = 0)
    <2>1. Cardinality(Decodes(s)) \in Nat /\ limit \in 0..Cardinality(Decodes(s))
      BY DecodeOrderFacts, DecodeLimitFacts
    <2> QED BY <2>1, DecodeLimitFacts
  <1>2. TokenBudget \in Nat
    BY BatchAssumption
  <1>3. /\ prompts \in Seq(Requests) /\ IsInjective(prompts) /\ ToSet(prompts) \subseteq Prefills(s)
        /\ prompts # <<>> => budget > 0 /\ Len(prompts) <= budget
        /\ Cardinality(ToSet(prompts) \cap ToSet(s.waiting)) <= NewSlots(s)
    <2> HIDE DEF budget
    <2> QED BY <1>1, SelectPrefillsFacts
  <1>4. ids \subseteq Prefills(s) /\ Cardinality(ids \cap ToSet(s.waiting)) <= NewSlots(s)
    <2>1. CASE asked.kind = "decode_only"
      <3>1. ids = {} /\ ids \cap ToSet(s.waiting) = {}
        BY <2>1 DEF PromptsAsked
      <3>2. Cardinality({}) = 0 /\ NewSlots(s) \in Nat
        BY FS_EmptySet, BatchAssumption DEF NewSlots, IsSnapshot
      <3> QED BY <3>1, <3>2
    <2>2. CASE asked.kind # "decode_only"
      BY <1>3, <2>2 DEF PromptsAsked
    <2> QED BY <2>1, <2>2
  <1>5. /\ base.items = IF asked.kind = "decode_only" THEN <<>>
                        ELSE AllocatePrefillTokens(s, prompts, budget, asked.distribution)
        /\ base.decodes = SubSeq(DecodeOrder(s, asked), 1, limit)
        /\ base = [items |-> base.items, decodes |-> base.decodes]
    BY DEF Shape
  <1>6. base.decodes \in Seq(Decodes(s)) /\ Len(base.decodes) = limit
    BY <1>5, FirstDecodes
  <1>7. base.decodes \in Seq(D)
    <2>1. CASE asked.kind = "prefill_only"
      <3>1. base.decodes = <<>>
        BY <1>1, <1>6, <2>1
      <3> QED BY <3>1
    <2>2. CASE asked.kind # "prefill_only"
      BY <1>6, <2>2 DEF DecodesAsked
    <2> QED BY <2>1, <2>2
  <1>8. /\ IsServed(s, base.items, ids)
        /\ PrefillTokens(Work(base.items, {})) \in Nat
        /\ PrefillTokens(Work(base.items, {})) + limit <= TokenBudget
    <2>1. CASE asked.kind = "decode_only"
      <3>1. base.items = <<>>
        BY <1>5, <2>1
      <3>2. IsServed(s, base.items, ids)
        BY <3>1 DEF IsServed
      <3>3. PrefillTokens(Work(<<>>, {})) = 0
        BY NoWorkFacts DEF NoWork
      <3> QED BY <1>1, <1>2, <3>1, <3>2, <3>3
    <2>2. CASE asked.kind # "decode_only"
      <3>1. prompts # <<>>
        BY <2>2 DEF Offers
      <3>2. budget \in Nat /\ Len(prompts) <= budget
        BY <1>1, <1>3, <3>1
      <3>3. base.items = AllocatePrefillTokens(s, prompts, budget, asked.distribution)
        BY <1>5, <2>2
      <3>4. ids = ToSet(prompts)
        BY <2>2 DEF PromptsAsked
      <3> HIDE DEF prompts, budget, base, ids
      <3>5. IsServed(s, base.items, ToSet(prompts)) /\ PrefillTokens(Work(base.items, {})) <= budget
        BY <1>3, <3>1, <3>2, <3>3, AllocateFacts
      <3>6. PrefillTokens(Work(base.items, {})) \in Nat
        BY <3>5, ServedFacts, ItemTokens
      <3> QED BY <1>1, <1>2, <3>2, <3>4, <3>5, <3>6
    <2> QED BY <2>1, <2>2
  <1>9. IsShape(s, base, ids, D)
    BY <1>5, <1>7, <1>8 DEF IsShape
  <1>10. Weight(base) <= TokenBudget
    BY <1>6, <1>8 DEF Weight
  <1> QED BY <1>4, <1>9, <1>10

(* A plan that build_target_plan returns is a plan of the snapshot, of the   *)
(* kind asked for, and within all three budgets.                             *)
THEOREM TargetPlansFit ==
  ASSUME NEW s, IsSnapshot(s), Len(s.running) <= SequenceBudget,
         NEW asked, IsRecipe(asked),
         NEW w, w = BuildTargetPlan(s, asked), w # NoWork
  PROVE  /\ IsPlan(s, w)
         /\ Tokens(w) <= TokenBudget
         /\ ProjectSequences(s, w) <= SequenceBudget
         /\ ProjectKv(s, w) <= TotalBlocks
         /\ asked.kind = "decode_only" => w.prefill = <<>> /\ w.decode # {}
         /\ asked.kind = "prefill_only" => w.prefill # <<>> /\ w.decode = {}
         /\ asked.kind = "mixed" => w.prefill # <<>> /\ w.decode # {}
  <1> DEFINE base == Shape(s, asked)
             fitted == FitKvCapacity(s, base.items, base.decodes)
             ids == PromptsAsked(s, asked)
             D == DecodesAsked(s, asked)
  <1>1. /\ Offers(s, asked)
        /\ asked.kind # "decode_only" => fitted.items # <<>>
        /\ asked.kind # "prefill_only" => fitted.decodes # <<>>
        /\ w = Work(fitted.items, ToSet(fitted.decodes))
    BY DEF BuildTargetPlan
  <1>2. /\ ids \in SUBSET Prefills(s) /\ Cardinality(ids \cap ToSet(s.waiting)) <= NewSlots(s)
        /\ IsShape(s, base, ids, D) /\ Weight(base) <= TokenBudget
    BY <1>1, ShapeFacts
  <1>3. ids \in SUBSET Requests /\ D \in SUBSET Decodes(s) /\ Decodes(s) \in SUBSET Requests
    BY <1>2, SnapshotFacts DEF DecodesAsked
  <1> HIDE DEF base, ids, D
  <1>4. /\ IsShape(s, fitted, ids, D) /\ Weight(fitted) <= Weight(base)
        /\ \/ fitted.items = <<>> /\ fitted.decodes = <<>>
           \/ ProjectKv(s, Work(fitted.items, ToSet(fitted.decodes))) <= TotalBlocks
    BY <1>2, <1>3, FitFacts
  <1> HIDE DEF fitted
  <1>5. ProjectKv(s, w) <= TotalBlocks
    BY <1>1, <1>4 DEF IsRecipe
  <1>6. /\ IsPlan(s, w) /\ Tokens(w) <= Weight(fitted)
        /\ PrefillIds(w) \subseteq ids /\ w.decode \subseteq D
    BY <1>1, <1>2, <1>3, <1>4, ShapeIsPlan
  <1>7. Tokens(w) <= TokenBudget
    <2>1. Tokens(w) \in Nat /\ Weight(fitted) \in Nat /\ Weight(base) \in Nat /\ TokenBudget \in Nat
      BY <1>2, <1>4, <1>6, TokensFacts, WeightFacts, BatchAssumption DEF IsPlan
    <2> DEFINE a == Tokens(w)
               b == Weight(fitted)
               c == Weight(base)
    <2>2. a \in Nat /\ b \in Nat /\ c \in Nat /\ TokenBudget \in Nat
          /\ a <= b /\ b <= c /\ c <= TokenBudget
      BY <1>2, <1>4, <1>6, <2>1
    <2> HIDE DEF a, b, c
    <2>3. a <= TokenBudget
      BY <2>2
    <2> QED BY <2>3 DEF a
  <1>8. ProjectSequences(s, w) <= SequenceBudget
    <2> DEFINE new == Scheduled(w) \cap ToSet(s.waiting)
               most == ids \cap ToSet(s.waiting)
    <2>1. Decodes(s) \cap ToSet(s.waiting) = {}
      BY DEF Decodes, RunningSet, IsSnapshot
    <2>2. new \subseteq most
      BY <1>3, <1>6, <2>1 DEF Scheduled
    <2>3. IsFiniteSet(most)
      <3>1. most \subseteq Requests
        BY <1>3
      <3> HIDE DEF most
      <3> QED BY <3>1, FS_Subset, BatchAssumption
    <2>4. IsFiniteSet(new) /\ Cardinality(new) <= Cardinality(most)
          /\ Cardinality(new) \in Nat /\ Cardinality(most) \in Nat
      <3> HIDE DEF new, most
      <3> QED BY <2>2, <2>3, FS_Subset, FS_CardinalityType
    <2>5. Len(s.running) \in Nat /\ SequenceBudget \in Nat
      BY BatchAssumption DEF IsSnapshot
    <2>6. NewSlots(s) = SequenceBudget - Len(s.running)
      <3> DEFINE a == Len(s.running)
      <3>1. a \in Nat /\ SequenceBudget \in Nat /\ a <= SequenceBudget
        BY <2>5
      <3>2. NewSlots(s) = IF a < SequenceBudget THEN SequenceBudget - a ELSE 0
        BY DEF NewSlots
      <3> HIDE DEF a
      <3>3. NewSlots(s) = SequenceBudget - a
        BY <3>1, <3>2
      <3> QED BY <3>3 DEF a
    <2>7. ProjectSequences(s, w) = Len(s.running) + Cardinality(new)
      BY DEF ProjectSequences
    <2>8. Cardinality(most) <= NewSlots(s)
      BY <1>2
    <2> HIDE DEF new, most
    <2> QED BY <2>4, <2>5, <2>6, <2>7, <2>8
  <1>9. /\ w.prefill = fitted.items /\ w.decode = ToSet(fitted.decodes)
        /\ fitted.items \in Seq(Items) /\ fitted.decodes \in Seq(D)
    BY <1>1, <1>4 DEF Work, IsShape, IsServed
  <1>10. fitted.decodes # <<>> => w.decode # {}
    <2> DEFINE q == fitted.decodes
    <2>1. q \in Seq(D) /\ w.decode = {q[i] : i \in DOMAIN q}
      BY <1>9 DEF ToSet
    <2> HIDE DEF q
    <2>2. q # <<>> => 1 \in DOMAIN q
      BY <2>1
    <2>3. q # <<>> => w.decode # {}
      BY <2>1, <2>2
    <2> QED BY <2>3 DEF q
  <1>11. ASSUME asked.kind = "decode_only" PROVE w.prefill = <<>>
    <2>1. ids = {}
      BY <1>11 DEF ids, PromptsAsked
    <2>2. \A i \in DOMAIN w.prefill : w.prefill[i][1] \in PrefillIds(w)
      BY DEF PrefillIds
    <2>3. DOMAIN w.prefill = {}
      BY <1>6, <2>1, <2>2
    <2> DEFINE q == w.prefill
    <2>4. q \in Seq(Items) /\ DOMAIN q = {}
      BY <1>9, <2>3
    <2> HIDE DEF q
    <2>5. q = <<>>
      BY <2>4
    <2> QED BY <2>5 DEF q
  <1>12. ASSUME asked.kind = "prefill_only" PROVE w.decode = {}
    BY <1>6, <1>12 DEF D, DecodesAsked
  <1> QED BY <1>1, <1>5, <1>6, <1>7, <1>8, <1>9, <1>10, <1>11, <1>12

-----------------------------------------------------------------------------
(* The queries of PlanQueries: what is asked and answered belongs to a        *)
(* snapshot a scheduler can hold.                                            *)
LEMMA HoldableIsSnapshot ==
  ASSUME NEW s, Holdable(s)
  PROVE  IsSnapshot(s) /\ Len(s.running) <= SequenceBudget
  BY ConcatFacts DEF Holdable, IsSnapshot

AskedInv ==
  /\ Holdable(snap)
  /\ \/ wanted = NoRecipe
     \/ wanted \in AskedRecipes /\ planned = BuildTargetPlan(snap, wanted)

LEMMA AskedInit == QueryInit => AskedInv
  BY DEF QueryInit, AskedInv

LEMMA AskedNext == ASSUME AskedInv, [QueryNext]_qvars PROVE AskedInv'
  <1>1. Holdable(snap) /\ snap' = snap
    BY DEF AskedInv, QueryNext, Ask, Frame, qvars
  <1>2. Holdable(snap)'
    BY <1>1 DEF Holdable, Decodes, Prefilling
  <1>3. CASE Ask
    <2>1. wanted' \in AskedRecipes /\ planned' = BuildTargetPlan(snap, wanted')
      BY <1>3 DEF Ask
    <2>2. BuildTargetPlan(snap, wanted)' = BuildTargetPlan(snap', wanted')
      OBVIOUS
    <2> QED BY <1>1, <1>2, <2>1, <2>2 DEF AskedInv
  <1>4. CASE Frame \/ UNCHANGED qvars
    <2>1. wanted' = wanted /\ planned' = planned
      BY <1>4 DEF Frame, qvars
    <2>2. BuildTargetPlan(snap, wanted)' = BuildTargetPlan(snap', wanted')
      OBVIOUS
    <2> QED BY <1>1, <1>2, <2>1, <2>2 DEF AskedInv
  <1> QED BY <1>3, <1>4 DEF QueryNext

LEMMA TargetFits == ASSUME AskedInv PROVE TargetsFit
  <1>1. SUFFICES ASSUME wanted # NoRecipe
                 PROVE  /\ Tokens(planned) <= TokenBudget
                        /\ ProjectSequences(snap, planned) <= SequenceBudget
                        /\ planned # NoWork => ProjectKv(snap, planned) <= TotalBlocks
                        /\ \A i \in DOMAIN planned.prefill :
                              planned.prefill[i][2] \in 1..Remaining(snap, planned.prefill[i][1])
                        /\ planned.decode \subseteq Decodes(snap)
    BY DEF TargetsFit
  <1>2. IsSnapshot(snap) /\ Len(snap.running) <= SequenceBudget
    BY HoldableIsSnapshot DEF AskedInv
  <1>3. IsRecipe(wanted) /\ planned = BuildTargetPlan(snap, wanted)
    BY <1>1, QueriesAssumption DEF AskedInv
  <1>4. IsPlan(snap, planned)
    <2>1. IsPlan(snap, NoWork)
      BY <1>2, NoWorkFacts
    <2> QED BY <1>2, <1>3, <2>1, TargetPlansFit
  <1>5. /\ Tokens(planned) <= TokenBudget
        /\ ProjectSequences(snap, planned) <= SequenceBudget
        /\ planned # NoWork => ProjectKv(snap, planned) <= TotalBlocks
    <2>1. CASE planned = NoWork
      <3>1. Tokens(NoWork) = 0 /\ Scheduled(NoWork) = {} /\ TokenBudget \in Nat
        BY <1>2, NoWorkFacts, BatchAssumption
      <3>2. ProjectSequences(snap, NoWork) = Len(snap.running) + Cardinality({})
        <4>1. Scheduled(NoWork) \cap ToSet(snap.waiting) = {}
          BY <3>1
        <4> QED BY <4>1 DEF ProjectSequences
      <3>3. Cardinality({}) = 0 /\ Len(snap.running) \in Nat
        BY <1>2, FS_EmptySet DEF IsSnapshot
      <3> QED BY <1>2, <2>1, <3>1, <3>2, <3>3
    <2>2. CASE planned # NoWork
      BY <1>2, <1>3, <2>2, TargetPlansFit
    <2> QED BY <2>1, <2>2
  <1>6. ASSUME NEW i \in DOMAIN planned.prefill
        PROVE  planned.prefill[i][2] \in 1..Remaining(snap, planned.prefill[i][1])
    <2>1. /\ planned.prefill[i][1] \in Prefills(snap)
          /\ planned.prefill[i][2] <= Remaining(snap, planned.prefill[i][1])
      BY <1>4 DEF IsPlan
    <2>2. planned.prefill[i][2] \in Nat \ {0}
      BY <1>4, PlanFacts DEF IsPlan
    <2>3. Remaining(snap, planned.prefill[i][1]) \in Nat
      BY <1>2, <2>1, SnapshotFacts
    <2> DEFINE a == planned.prefill[i][2]
               b == Remaining(snap, planned.prefill[i][1])
    <2>4. a \in Nat \ {0} /\ b \in Nat /\ a <= b
      BY <2>1, <2>2, <2>3
    <2> HIDE DEF a, b
    <2>5. a \in 1..b
      BY <2>4
    <2> QED BY <2>5 DEF a, b
  <1> QED BY <1>4, <1>5, <1>6 DEF IsPlan

LEMMA TargetIsExact == ASSUME AskedInv PROVE TargetsAreExact
  <1> DEFINE budget == PrefillBudget(snap, wanted)
             requests == SelectPrefills(snap, wanted, budget)
             prompts == ToSet(requests)
             needed == SumFunction([r \in prompts |-> Remaining(snap, r)])
             items == Shape(snap, wanted).items
             Exact == /\ PrefillTokens(Work(items, {})) = Smaller(budget, needed)
                      /\ \A i \in DOMAIN items : items[i][2] \in 1..Remaining(snap, items[i][1])
                      /\ wanted.distribution = "skewed" =>
                            \A i \in DOMAIN items :
                               \/ items[1][2] = Remaining(snap, items[1][1])
                               \/ items[1][2] >= items[i][2]
  <1>1. SUFFICES ASSUME wanted # NoRecipe, wanted.kind # "decode_only", Offers(snap, wanted)
                 PROVE  Exact
    BY DEF TargetsAreExact
  <1>2. IsSnapshot(snap)
    BY HoldableIsSnapshot DEF AskedInv
  <1>3. IsRecipe(wanted)
    BY <1>1, QueriesAssumption DEF AskedInv
  <1>4. budget \in Int
    BY <1>2, <1>3, DecodeLimitFacts
  <1>5. requests # <<>>
    BY <1>1 DEF Offers
  <1>6. items = AllocatePrefillTokens(snap, requests, budget, wanted.distribution)
    BY <1>1 DEF Shape
  <1> HIDE DEF budget
  <1>7. /\ requests \in Seq(Requests) /\ IsInjective(requests)
        /\ prompts \subseteq Prefills(snap) /\ budget > 0 /\ Len(requests) <= budget
    BY <1>2, <1>3, <1>4, <1>5, SelectPrefillsFacts
  <1> HIDE DEF requests, items
  <1>8. budget \in Nat
    BY <1>4, <1>7
  <1>9. /\ IsServed(snap, items, prompts)
        /\ PrefillTokens(Work(items, {})) = Smaller(budget, needed)
        /\ wanted.distribution = "skewed" =>
              \/ items[1][2] = Remaining(snap, items[1][1])
              \/ \A i \in DOMAIN items : items[1][2] >= items[i][2]
    BY <1>2, <1>5, <1>6, <1>7, <1>8, AllocateFacts
  <1>10. ASSUME NEW i \in DOMAIN items PROVE items[i][2] \in 1..Remaining(snap, items[i][1])
    <2> DEFINE a == items[i][2]
               b == Remaining(snap, items[i][1])
    <2>1. items[i] \in Items /\ items[i][1] \in Prefills(snap) /\ a <= b
      BY <1>7, <1>9, ServedFacts DEF IsServed
    <2>2. a \in Nat \ {0} /\ b \in Nat
      BY <1>2, <2>1, SnapshotFacts DEF Items
    <2> HIDE DEF a, b
    <2>3. a \in 1..b
      BY <2>1, <2>2
    <2> QED BY <2>3 DEF a, b
  <1> HIDE DEF needed, prompts
  <1> QED BY <1>9, <1>10

LEMMA TargetPrefers == ASSUME AskedInv PROVE PreferredFirst
  <1> DEFINE budget == PrefillBudget(snap, wanted)
             chosen == ToSet(SelectPrefills(snap, wanted, budget))
             NotBefore(r, x) == \/ StateRank(snap, wanted, r) >= StateRank(snap, wanted, x)
                            \/ /\ r \in ToSet(snap.waiting)
                               /\ Cardinality(chosen \cap ToSet(snap.waiting)) = NewSlots(snap)
  <1>1. SUFFICES ASSUME wanted # NoRecipe, NEW r \in Prefills(snap) \ chosen, NEW x \in chosen
                 PROVE  NotBefore(r, x)
    BY DEF PreferredFirst
  <1>2. IsSnapshot(snap)
    BY HoldableIsSnapshot DEF AskedInv
  <1>3. IsRecipe(wanted)
    BY <1>1, QueriesAssumption DEF AskedInv
  <1>4. budget \in Int
    BY <1>2, <1>3, DecodeLimitFacts
  <1>5. StateRank(snap, wanted, r) \in Int /\ StateRank(snap, wanted, x) \in Int
    BY DEF StateRank
  <1> HIDE DEF budget
  <1>6. CASE StateRank(snap, wanted, r) < StateRank(snap, wanted, x)
    BY <1>1, <1>2, <1>3, <1>4, <1>6, SelectionOrder
  <1> QED BY <1>5, <1>6

(* What build_target_plan answers is the recipe's batch: it fits all three    *)
(* budgets, has exactly the tokens asked for before its KV fit, and passes    *)
(* over a prompt of the preferred state only for want of a sequence slot.    *)
THEOREM TargetPlansAreRight == QuerySpec => []TargetsAreRight
  <1>1. AskedInv => TargetsAreRight
    BY TargetFits, TargetIsExact, TargetPrefers DEF TargetsAreRight
  <1> QED BY <1>1, AskedInit, AskedNext, PTL DEF QuerySpec

-----------------------------------------------------------------------------
(* The queues: a request has one place in them, what is not running has      *)
(* nothing computed, and only a preempted one waits with output.             *)
QueuesAreRight ==
  /\ running \in Seq(Requests) /\ waiting \in Seq(Requests)
  /\ IsInjective(running) /\ IsInjective(waiting)
  /\ ToSet(running) \cap ToSet(waiting) = {}
  /\ Len(running) <= SequenceBudget
  /\ ended \cap Live = {} /\ preempted \subseteq ToSet(waiting)

ProgressIsRight ==
  /\ computed \in [Requests -> Nat] /\ outputs \in [Requests -> Nat]
  /\ \A r \in Requests \ (ToSet(running) \cup ended) :
        /\ computed[r] = 0
        /\ r \notin preempted => outputs[r] = 0

QueueInv == QueuesAreRight /\ ProgressIsRight

LEMMA SnapshotIsRight ==
  ASSUME QueueInv
  PROVE  /\ IsSnapshot(Snapshot) /\ Len(Snapshot.running) <= SequenceBudget
         /\ Snapshot.running = running /\ Snapshot.waiting = waiting /\ Snapshot.computed = computed
  <1> DEFINE S == ToSet(running)
             f == [r \in S |-> Blocks(computed[r])]
  <1>1. /\ Snapshot.running = running /\ Snapshot.waiting = waiting
        /\ Snapshot.computed = computed /\ Snapshot.used = UsedBlocks
    BY DEF Snapshot
  <1>2. /\ S \subseteq Requests /\ ToSet(waiting) \subseteq Requests
        /\ IsFiniteSet(S)
    <2>1. S \subseteq Requests /\ ToSet(waiting) \subseteq Requests
      BY DEF QueueInv, QueuesAreRight, ToSet
    <2> HIDE DEF S
    <2> QED BY <2>1, FS_Subset, BatchAssumption
  <1>3. computed \in [Requests -> Nat]
    BY DEF QueueInv, ProgressIsRight
  <1>4. \A r \in S : f[r] \in Nat
    <2>1. \A r \in S : computed[r] \in Nat
      BY <1>2, <1>3
    <2> HIDE DEF S
    <2> QED BY <2>1, BlocksFacts
  <1>5. UsedBlocks = SumFunctionOnSet(f, S)
    BY DEF UsedBlocks, SumFunction
  <1>6. UsedBlocks \in Nat
    <2> HIDE DEF f, S
    <2> QED BY <1>2, <1>4, <1>5, SumNat
  <1>7. \A r \in ToSet(waiting) : computed[r] = 0
    BY <1>2 DEF QueueInv, QueuesAreRight, ProgressIsRight, Live
  <1>8. IsSnapshot(Snapshot)
    BY <1>1, <1>3, <1>6, <1>7 DEF IsSnapshot, QueueInv, QueuesAreRight
  <1> QED BY <1>1, <1>8 DEF QueueInv, QueuesAreRight

(* What the stock scheduler gives goes to requests of its queue. *)
LEMMA GrantsFacts ==
  ASSUME computed \in [Requests -> Nat], outputs \in [Requests -> Nat],
         NEW queue \in Seq(Requests), IsInjective(queue)
  PROVE  /\ DOMAIN Grants(queue) \subseteq ToSet(queue)
         /\ \A r \in DOMAIN Grants(queue) : Grants(queue)[r] \in Nat
  <1> DEFINE n == Len(queue)
             wants == [i \in DOMAIN queue |-> Lacks(queue[i])]
             given == InTurn(wants, TokenBudget)
             served == {i \in DOMAIN queue : given[i] > 0}
  <1>1. n \in Nat /\ DOMAIN queue = 1..n /\ \A i \in 1..n : queue[i] \in Requests
    OBVIOUS
  <1>2. \A r \in Requests : Lacks(r) \in Int
    BY BatchAssumption DEF Lacks
  <1>3. wants \in [1..n -> Int]
    BY <1>1, <1>2
  <1> HIDE DEF wants
  <1>4. ASSUME NEW i \in 1..n PROVE given[i] \in Int
    <2> DEFINE S == 1..(i - 1)
               ahead == [k \in S |-> wants[k]]
               a == SumFunction(ahead)
    <2>1. i - 1 \in Nat /\ i \in DOMAIN wants /\ wants[i] \in Int
      <3> HIDE DEF n
      <3>1. i - 1 \in Nat
        BY <1>1
      <3>2. DOMAIN wants = 1..n /\ wants[i] \in Int
        BY <1>3
      <3> QED BY <3>1, <3>2
    <2>2. \A k \in S : ahead[k] \in Int
      <3> HIDE DEF n
      <3>1. \A k \in S : k \in 1..n
        BY <1>1
      <3> QED BY <1>3, <3>1
    <2>3. a = SumFunctionOnSet(ahead, S) /\ IsFiniteSet(S)
      BY <2>1, Intervals DEF SumFunction
    <2>4. given[i] = IF a < TokenBudget THEN Smaller(wants[i], TokenBudget - a) ELSE 0
      BY <2>1 DEF InTurn
    <2> HIDE DEF S, ahead
    <2>5. a \in Int
      BY <2>2, <2>3, SumType
    <2> HIDE DEF a
    <2> QED BY <2>1, <2>4, <2>5, BatchAssumption DEF Smaller
  <1>5. Grants(queue) = [r \in {queue[i] : i \in served} |-> given[Position(queue, r)]]
    BY DEF Grants, wants
  <1>6. DOMAIN Grants(queue) \subseteq ToSet(queue)
    BY <1>5 DEF ToSet
  <1>7. ASSUME NEW r \in DOMAIN Grants(queue) PROVE Grants(queue)[r] \in Nat
    <2>1. PICK i \in served : r = queue[i]
      BY <1>5
    <2>2. r \in ToSet(queue)
      BY <1>6
    <2>3. Position(queue, r) \in 1..n /\ queue[Position(queue, r)] = r
      BY <2>2, PositionFacts
    <2>4. Position(queue, r) = i
      BY <1>1, <2>1, <2>3 DEF IsInjective
    <2>5. Grants(queue)[r] = given[i] /\ given[i] > 0 /\ i \in 1..n
      BY <1>1, <1>5, <2>1, <2>4
    <2> HIDE DEF given
    <2> QED BY <1>4, <2>5
  <1> QED BY <1>6, <1>7

LEMMA KeptFacts ==
  ASSUME QueueInv
  PROVE  /\ Kept \in Seq(Requests) /\ IsInjective(Kept)
         /\ ToSet(Kept) \subseteq ToSet(running) /\ Len(Kept) <= Len(running)
  <1> DEFINE n == Len(running)
             Ahead(k) == SubSeq(running, 1, k)
             fits == {k \in 0..n : Holding(Ahead(k)) <= TotalBlocks}
  <1>1. running \in Seq(Requests) /\ IsInjective(running) /\ n \in Nat
    BY DEF QueueInv, QueuesAreRight
  <1>2. Kept = Ahead(Max(fits))
    BY DEF Kept
  <1>3. 0 \in fits
    <2>1. Ahead(0) = <<>>
      BY <1>1
    <2>2. Holding(<<>>) = 0
      <3> DEFINE g == Grants(<<>>)
                 f == [r \in {} |-> Blocks(computed[r] + IF r \in DOMAIN g THEN g[r] ELSE 0)]
      <3>1. ToSet(<<>>) = {}
        BY DEF ToSet
      <3>2. Holding(<<>>) = SumFunction(f)
        BY <3>1 DEF Holding
      <3>3. SumFunction(f) = SumFunctionOnSet(f, {})
        BY DEF SumFunction
      <3> HIDE DEF f
      <3> QED BY <3>2, <3>3, SumOfNone
    <2>3. TotalBlocks \in Nat
      BY BatchAssumption
    <2> HIDE DEF Ahead
    <2> QED BY <1>1, <2>1, <2>2, <2>3
  <1>4. Max(fits) \in 0..n
    <2>1. fits \in SUBSET (0..n) /\ fits # {}
      BY <1>3
    <2> HIDE DEF fits, n
    <2> QED BY <1>1, <2>1, MaxOfIndices
  <1> DEFINE m == Max(fits)
  <1> HIDE DEF m, fits
  <1>5. m \in 0..n /\ Kept = SubSeq(running, 1, m)
    BY <1>2, <1>4 DEF m
  <1> QED BY <1>1, <1>5, FrontFacts

LEMMA AdmittedFacts ==
  ASSUME QueueInv
  PROVE  /\ Admitted \in Seq(Requests) /\ IsInjective(Admitted)
         /\ ToSet(Admitted) \subseteq ToSet(waiting)
         /\ Len(running) + Len(Admitted) <= SequenceBudget
  <1> DEFINE n == Len(waiting)
             Queue(k) == running \o SubSeq(waiting, 1, k)
             fits == {k \in 1..n :
                        /\ SumFunction(Grants(Queue(k - 1))) < TokenBudget
                        /\ Len(running) + k <= SequenceBudget
                        /\ Holding(Queue(k)) <= TotalBlocks}
             all == {0} \cup fits
             m == Max(all)
  <1>1. waiting \in Seq(Requests) /\ IsInjective(waiting) /\ n \in Nat
        /\ Len(running) \in Nat /\ Len(running) <= SequenceBudget
    BY DEF QueueInv, QueuesAreRight
  <1>2. Admitted = SubSeq(waiting, 1, m)
    BY DEF Admitted
  <1>3. \A k \in all : Len(running) + k <= SequenceBudget
    BY <1>1
  <1>4. all \in SUBSET (0..n) /\ all # {}
    BY <1>1
  <1> HIDE DEF all, n
  <1>5. m \in 0..n /\ m \in all
    BY <1>1, <1>4, MaxOfIndices
  <1> HIDE DEF m
  <1>6. /\ SubSeq(waiting, 1, m) \in Seq(Requests) /\ Len(SubSeq(waiting, 1, m)) = m
        /\ IsInjective(SubSeq(waiting, 1, m)) /\ ToSet(SubSeq(waiting, 1, m)) \subseteq ToSet(waiting)
    BY <1>1, <1>5, FrontFacts DEF n
  <1> QED BY <1>2, <1>3, <1>5, <1>6

LEMMA StockQueueFacts ==
  ASSUME QueueInv
  PROVE  /\ StockQueue \in Seq(Requests) /\ IsInjective(StockQueue)
         /\ ToSet(StockQueue) \subseteq Live /\ Len(StockQueue) <= SequenceBudget
  <1>1. /\ running \in Seq(Requests) /\ IsInjective(running)
        /\ ToSet(running) \cap ToSet(waiting) = {} /\ Len(running) <= SequenceBudget
    BY DEF QueueInv, QueuesAreRight
  <1>2. CASE Kept = running
    <2> DEFINE q == running \o Admitted
    <2>1. StockQueue = q
      BY <1>2 DEF StockQueue
    <2>2. ToSet(running) \cap ToSet(Admitted) = {}
      BY <1>1, AdmittedFacts
    <2>3. /\ q \in Seq(Requests) /\ IsInjective(q)
          /\ ToSet(q) = ToSet(running) \cup ToSet(Admitted)
      BY <1>1, <2>2, AdmittedFacts, ConcatFacts
    <2>4. Len(q) = Len(running) + Len(Admitted)
      BY <1>1, AdmittedFacts
    <2> QED BY <2>1, <2>3, <2>4, AdmittedFacts DEF Live
  <1>3. CASE Kept # running
    <2>1. StockQueue = Kept
      BY <1>3 DEF StockQueue
    <2>2. /\ Kept \in Seq(Requests) /\ IsInjective(Kept)
          /\ ToSet(Kept) \subseteq ToSet(running) /\ Len(Kept) <= Len(running)
      BY KeptFacts
    <2>3. SequenceBudget \in Nat /\ Len(running) \in Nat /\ Len(Kept) \in Nat
      BY <1>1, <2>2, BatchAssumption
    <2> QED BY <1>1, <2>1, <2>2, <2>3 DEF Live
  <1> QED BY <1>2, <1>3


LEMMA DropFacts ==
  ASSUME NEW queue \in Seq(Requests), IsInjective(queue), NEW S
  PROVE  /\ Drop(queue, S) \in Seq(Requests) /\ IsInjective(Drop(queue, S))
         /\ ToSet(Drop(queue, S)) = ToSet(queue) \ S
         /\ Len(Drop(queue, S)) <= Len(queue)
  <1> DEFINE rest == ToSet(queue) \ S
             q == Keep(queue, rest)
  <1>1. q \in Seq(Requests) /\ IsInjective(q) /\ ToSet(q) = ToSet(queue) \cap rest
    <2> HIDE DEF rest
    <2> QED BY KeepFacts
  <1>2. Drop(queue, S) = q
    BY DEF Drop
  <1>3. ToSet(q) = ToSet(queue) \ S
    BY <1>1
  <1> HIDE DEF q
  <1>4. /\ IsFiniteSet(ToSet(queue)) /\ Cardinality(ToSet(queue)) = Len(queue)
        /\ Cardinality(ToSet(q)) = Len(q)
    BY <1>1, InjectiveLength
  <1>5. Cardinality(ToSet(q)) <= Cardinality(ToSet(queue))
    BY <1>3, <1>4, FS_Subset
  <1> QED BY <1>1, <1>2, <1>3, <1>4, <1>5

LEMMA QueueStock == ASSUME QueueInv, ExecuteStock PROVE QueueInv'
  <1> DEFINE queue == StockQueue
             granted == StockGrant
             victims == ToSet(running) \ ToSet(queue)
             old == Keep(running, victims)
             rest == Drop(waiting, ToSet(queue))
  <1>1. /\ running' = queue
        /\ waiting' = old \o rest
        /\ preempted' = (preempted \ ToSet(queue)) \cup victims
        /\ computed' = [r \in Requests |-> IF r \in victims THEN 0
                                           ELSE IF r \in DOMAIN granted THEN computed[r] + granted[r]
                                           ELSE computed[r]]
        /\ outputs' = outputs /\ ended' = ended
    BY DEF ExecuteStock
  <1>2. /\ queue \in Seq(Requests) /\ IsInjective(queue)
        /\ ToSet(queue) \subseteq Live /\ Len(queue) <= SequenceBudget
    BY StockQueueFacts
  <1>3. /\ DOMAIN granted \subseteq ToSet(queue)
        /\ \A r \in DOMAIN granted : granted[r] \in Nat
    BY <1>2, GrantsFacts DEF StockGrant, QueueInv, ProgressIsRight
  <1> HIDE DEF queue, granted
  <1>4. /\ running \in Seq(Requests) /\ waiting \in Seq(Requests)
        /\ IsInjective(running) /\ IsInjective(waiting)
        /\ ToSet(running) \cap ToSet(waiting) = {}
        /\ ended \cap Live = {} /\ preempted \subseteq ToSet(waiting)
        /\ Live = ToSet(waiting) \cup ToSet(running)
    BY DEF QueueInv, QueuesAreRight, Live
  <1>5. /\ old \in Seq(Requests) /\ IsInjective(old) /\ ToSet(old) = victims
    <2>1. /\ old \in Seq(Requests) /\ IsInjective(old) /\ ToSet(old) = ToSet(running) \cap victims
      <3> HIDE DEF victims
      <3> QED BY <1>4, KeepFacts
    <2> HIDE DEF old
    <2> QED BY <2>1
  <1>6. /\ rest \in Seq(Requests) /\ IsInjective(rest)
        /\ ToSet(rest) = ToSet(waiting) \ ToSet(queue)
    BY <1>4, DropFacts
  <1> HIDE DEF old, rest
  <1>7. /\ waiting' \in Seq(Requests) /\ IsInjective(waiting')
        /\ ToSet(waiting') = victims \cup (ToSet(waiting) \ ToSet(queue))
    <2>1. ToSet(old) \cap ToSet(rest) = {}
      BY <1>4, <1>5, <1>6
    <2>2. /\ old \o rest \in Seq(Requests) /\ IsInjective(old \o rest)
          /\ ToSet(old \o rest) = ToSet(old) \cup ToSet(rest)
      BY <1>5, <1>6, <2>1, ConcatFacts
    <2> QED BY <1>1, <1>5, <1>6, <2>2
  <1>8. ToSet(running') = ToSet(queue)
    BY <1>1
  <1>9. ToSet(running') \cap ToSet(waiting') = {} /\ Live' = Live
    <2>1. Live' = ToSet(waiting') \cup ToSet(running')
      BY DEF Live
    <2> QED BY <1>2, <1>4, <1>7, <1>8, <2>1
  <1>10. preempted' \subseteq ToSet(waiting')
    BY <1>1, <1>4, <1>7
  <1>11. QueuesAreRight'
    BY <1>1, <1>2, <1>4, <1>7, <1>9, <1>10 DEF QueuesAreRight
  <1>12. computed \in [Requests -> Nat] /\ outputs \in [Requests -> Nat]
    BY DEF QueueInv, ProgressIsRight
  <1>13. computed' \in [Requests -> Nat]
    <2>1. \A r \in Requests : computed[r] \in Nat
      BY <1>12
    <2> HIDE DEF victims
    <2> QED BY <1>1, <1>3, <2>1
  <1>14. ASSUME NEW r \in Requests \ (ToSet(running') \cup ended')
         PROVE  computed'[r] = 0 /\ (r \notin preempted' => outputs'[r] = 0)
    <2>1. r \in Requests /\ r \notin ToSet(queue) /\ r \notin ended
      BY <1>1, <1>8
    <2>2. CASE r \in victims
      BY <1>1, <2>1, <2>2
    <2>3. CASE r \notin victims
      <3>1. r \notin ToSet(running) /\ r \notin DOMAIN granted
        BY <1>3, <2>1, <2>3
      <3>2. computed[r] = 0 /\ (r \notin preempted => outputs[r] = 0)
        BY <2>1, <3>1 DEF QueueInv, ProgressIsRight
      <3>3. r \in preempted => r \in preempted'
        BY <1>1, <2>1
      <3> QED BY <1>1, <2>1, <2>3, <3>1, <3>2, <3>3
    <2> QED BY <2>2, <2>3
  <1>15. ProgressIsRight'
    BY <1>1, <1>12, <1>13, <1>14 DEF ProgressIsRight
  <1> QED BY <1>11, <1>15 DEF QueueInv

LEMMA QueueExact ==
  ASSUME QueueInv, preempted = {}, NEW w, IsPlan(Snapshot, w), ExecuteExact(Snapshot, w)
  PROVE  QueueInv'
  <1> DEFINE ids == [i \in DOMAIN w.prefill |-> w.prefill[i][1]]
             admitted == Keep(ids, ToSet(waiting))
             rest == Drop(waiting, ToSet(admitted))
  <1>1. CASE UNCHANGED queues
    BY <1>1 DEF queues, QueueInv, QueuesAreRight, ProgressIsRight, Live
  <1>2. CASE /\ ~(ProjectSequences(Snapshot, w) > SequenceBudget)
             /\ running' = running \o admitted
             /\ waiting' = rest
             /\ computed' = [r \in Requests |-> computed[r] + TokensOf(w, r)]
             /\ UNCHANGED <<outputs, preempted, ended>>
    <2>1. /\ running \in Seq(Requests) /\ waiting \in Seq(Requests)
          /\ IsInjective(running) /\ IsInjective(waiting)
          /\ ToSet(running) \cap ToSet(waiting) = {}
          /\ ended \cap Live = {} /\ Live = ToSet(waiting) \cup ToSet(running)
      BY DEF QueueInv, QueuesAreRight, Live
    <2>2. /\ IsSnapshot(Snapshot) /\ Snapshot.running = running /\ Snapshot.waiting = waiting
      BY SnapshotIsRight
    <2>3. /\ w \in Plans /\ w.prefill \in Seq(Items)
          /\ \A i \in DOMAIN w.prefill : w.prefill[i][1] \in Requests
      BY PlanFacts DEF IsPlan
    <2>4. ids \in Seq(Requests) /\ IsInjective(ids) /\ ToSet(ids) = PrefillIds(w)
      <3>1. DOMAIN w.prefill = 1..Len(w.prefill) /\ Len(w.prefill) \in Nat
        BY <2>3
      <3>2. ids \in Seq(Requests)
        BY <2>3, <3>1
      <3>3. IsInjective(ids)
        BY DEF IsInjective, IsPlan
      <3>4. ToSet(ids) = PrefillIds(w)
        BY DEF ToSet, PrefillIds
      <3> QED BY <3>2, <3>3, <3>4
    <2> HIDE DEF ids
    <2>5. /\ admitted \in Seq(Requests) /\ IsInjective(admitted)
          /\ ToSet(admitted) = PrefillIds(w) \cap ToSet(waiting)
      BY <2>4, KeepFacts
    <2> HIDE DEF admitted
    <2>6. /\ rest \in Seq(Requests) /\ IsInjective(rest)
          /\ ToSet(rest) = ToSet(waiting) \ ToSet(admitted)
      BY <2>1, DropFacts
    <2> HIDE DEF rest
    <2>7. /\ running' \in Seq(Requests) /\ IsInjective(running')
          /\ ToSet(running') = ToSet(running) \cup ToSet(admitted)
          /\ Len(running') = Len(running) + Len(admitted)
      <3>1. ToSet(running) \cap ToSet(admitted) = {}
        BY <2>1, <2>5
      <3>2. /\ running \o admitted \in Seq(Requests) /\ IsInjective(running \o admitted)
            /\ ToSet(running \o admitted) = ToSet(running) \cup ToSet(admitted)
        BY <2>1, <2>5, <3>1, ConcatFacts
      <3>3. Len(running \o admitted) = Len(running) + Len(admitted)
        BY <2>1, <2>5
      <3> QED BY <1>2, <3>2, <3>3
    <2>8. Len(running') <= SequenceBudget
      <3>1. Scheduled(w) \cap ToSet(waiting) = ToSet(admitted)
        <4>1. Decodes(Snapshot) \cap ToSet(waiting) = {}
          BY <2>1, <2>2 DEF Decodes, RunningSet
        <4>2. w.decode \cap ToSet(waiting) = {}
          BY <4>1 DEF IsPlan
        <4> QED BY <2>5, <4>2 DEF Scheduled
      <3>2. ProjectSequences(Snapshot, w) = Len(running) + Len(admitted)
        BY <2>2, <2>5, <3>1, InjectiveLength DEF ProjectSequences
      <3>3. Len(running) \in Nat /\ Len(admitted) \in Nat /\ SequenceBudget \in Nat
        BY <2>1, <2>5, BatchAssumption
      <3> QED BY <1>2, <2>7, <3>2, <3>3
    <2>9. ToSet(waiting') = ToSet(waiting) \ ToSet(admitted)
      BY <1>2, <2>6
    <2>10. Live' = Live /\ ToSet(running') \cap ToSet(waiting') = {}
      <3>1. Live' = ToSet(waiting') \cup ToSet(running')
        BY DEF Live
      <3> QED BY <2>1, <2>5, <2>7, <2>9, <3>1
    <2>11. QueuesAreRight'
      BY <1>2, <2>1, <2>6, <2>7, <2>8, <2>10 DEF QueuesAreRight
    <2>12. computed \in [Requests -> Nat] /\ outputs \in [Requests -> Nat]
      BY DEF QueueInv, ProgressIsRight
    <2>13. /\ \A r : TokensOf(w, r) \in Nat
           /\ \A r : r \notin Scheduled(w) => TokensOf(w, r) = 0
      BY <2>2, TokensOfFacts
    <2>14. computed' \in [Requests -> Nat]
      <3>1. \A r \in Requests : computed[r] \in Nat
        BY <2>12
      <3> QED BY <1>2, <2>13, <3>1
    <2>15. ASSUME NEW r \in Requests \ (ToSet(running') \cup ended')
           PROVE  computed'[r] = 0 /\ (r \notin preempted' => outputs'[r] = 0)
      <3>1. r \notin ToSet(running) /\ r \notin ended /\ r \notin ToSet(admitted)
        BY <1>2, <2>7
      <3>2. r \notin Scheduled(w)
        <4>1. Scheduled(w) \subseteq Workload(Snapshot)
          BY <2>2, TokensOfFacts
        <4>2. Workload(Snapshot) = ToSet(running) \cup ToSet(waiting)
          BY <2>2, SnapshotFacts
        <4>3. r \notin w.decode
          BY <2>2, <3>1 DEF IsPlan, Decodes, RunningSet
        <4> QED BY <2>5, <3>1, <4>1, <4>2, <4>3 DEF Scheduled
      <3>3. computed[r] = 0 /\ (r \notin preempted => outputs[r] = 0)
        BY <3>1 DEF QueueInv, ProgressIsRight
      <3>4. computed'[r] = computed[r] + TokensOf(w, r)
        BY <1>2
      <3>5. TokensOf(w, r) = 0
        BY <2>13, <3>2
      <3>6. computed'[r] = 0
        BY <3>3, <3>4, <3>5
      <3>7. preempted' = preempted /\ outputs' = outputs
        BY <1>2
      <3> QED BY <3>3, <3>6, <3>7
    <2>16. ProgressIsRight'
      BY <1>2, <2>12, <2>14, <2>15 DEF ProgressIsRight
    <2> QED BY <2>11, <2>16 DEF QueueInv
  <1> QED BY <1>1, <1>2 DEF ExecuteExact, Raise


(* Requests leave the queues; they may have got one more token. *)
LEMMA QueueRelease ==
  ASSUME QueueInv, NEW S \in SUBSET Live, Release(S), computed' = computed,
         outputs' \in [Requests -> Nat],
         \A r \in Requests \ ToSet(running) : outputs'[r] = outputs[r]
  PROVE  QueueInv'
  <1>1. /\ running \in Seq(Requests) /\ waiting \in Seq(Requests)
        /\ IsInjective(running) /\ IsInjective(waiting)
        /\ ToSet(running) \cap ToSet(waiting) = {} /\ Len(running) <= SequenceBudget
        /\ ended \cap Live = {} /\ Live = ToSet(waiting) \cup ToSet(running)
        /\ preempted \subseteq ToSet(waiting)
    BY DEF QueueInv, QueuesAreRight, Live
  <1>2. /\ waiting' \in Seq(Requests) /\ IsInjective(waiting')
        /\ ToSet(waiting') = ToSet(waiting) \ S
    BY <1>1, DropFacts DEF Release
  <1>3. /\ running' \in Seq(Requests) /\ IsInjective(running')
        /\ ToSet(running') = ToSet(running) \ S /\ Len(running') <= Len(running)
    BY <1>1, DropFacts DEF Release
  <1>4. Len(running') <= SequenceBudget
    <2>1. Len(running') \in Nat /\ Len(running) \in Nat /\ SequenceBudget \in Nat
      BY <1>1, <1>3, BatchAssumption
    <2> QED BY <1>1, <1>3, <2>1
  <1>5. Live' = Live \ S
    BY <1>1, <1>2, <1>3 DEF Live
  <1>6. preempted' = preempted \ S /\ ended' = ended \cup S
    BY DEF Release
  <1>7. QueuesAreRight'
    BY <1>1, <1>2, <1>3, <1>4, <1>5, <1>6 DEF QueuesAreRight
  <1>8. ASSUME NEW r \in Requests \ (ToSet(running') \cup ended')
        PROVE  computed'[r] = 0 /\ (r \notin preempted' => outputs'[r] = 0)
    <2>1. r \in Requests \ (ToSet(running) \cup ended) /\ r \notin S
      BY <1>3, <1>6
    <2>2. computed[r] = 0 /\ (r \notin preempted => outputs[r] = 0)
      BY <2>1 DEF QueueInv, ProgressIsRight
    <2>3. outputs'[r] = outputs[r] /\ (r \in preempted => r \in preempted')
      BY <1>6, <2>1
    <2> QED BY <2>2, <2>3
  <1>9. ProgressIsRight'
    BY <1>8 DEF QueueInv, ProgressIsRight
  <1> QED BY <1>7, <1>9 DEF QueueInv

LEMMA QueueUpdated == ASSUME QueueInv, UpdateFromOutput PROVE QueueInv'
  <1>1. PICK stops \in SUBSET Returning :
           /\ Release(stops)
           /\ outputs' = [r \in Requests |-> IF r \in Returning THEN outputs[r] + 1 ELSE outputs[r]]
           /\ UNCHANGED computed
    BY DEF UpdateFromOutput, ReturnTokens
  <1>2. computed \in [Requests -> Nat] /\ outputs \in [Requests -> Nat]
    BY DEF QueueInv, ProgressIsRight
  <1>3. outputs' \in [Requests -> Nat]
    BY <1>1, <1>2
  <1>4. ToSet(waiting) \subseteq Requests /\ ToSet(running) \subseteq Requests
        /\ ended \cap ToSet(waiting) = {} /\ ToSet(running) \cap ToSet(waiting) = {}
    BY DEF QueueInv, QueuesAreRight, ToSet, Live
  <1>5. ASSUME NEW r \in Returning PROVE r \in ToSet(running)
    <2>1. r \in Live /\ computed[r] = Prompt[r] + outputs[r]
      BY DEF Returning
    <2>2. CASE r \in ToSet(waiting)
      <3>1. r \in Requests /\ r \notin ToSet(running) \cup ended
        BY <1>4, <2>2
      <3>2. computed[r] = 0
        BY <3>1 DEF QueueInv, ProgressIsRight
      <3>3. Prompt[r] \in Nat \ {0} /\ outputs[r] \in Nat
        BY <1>2, <3>1, BatchAssumption
      <3> QED BY <2>1, <3>2, <3>3
    <2> QED BY <2>1, <2>2 DEF Live
  <1>6. \A r \in Requests \ ToSet(running) : outputs'[r] = outputs[r]
    BY <1>1, <1>5
  <1>7. stops \in SUBSET Live
    BY DEF Returning
  <1> QED BY <1>1, <1>3, <1>6, <1>7, QueueRelease

LEMMA QueueAborted == ASSUME QueueInv, NEW r \in Requests, Abort(r) PROVE QueueInv'
  <1>1. /\ {r} \in SUBSET Live /\ Release({r})
        /\ computed' = computed /\ outputs' = outputs
    BY DEF Abort
  <1>2. outputs \in [Requests -> Nat]
    BY DEF QueueInv, ProgressIsRight
  <1> QED BY <1>1, <1>2, QueueRelease

LEMMA QueueAdded == ASSUME QueueInv, NEW r \in Requests, AddRequest(r) PROVE QueueInv'
  <1>1. /\ r \notin Live \cup ended /\ waiting' = Append(waiting, r)
        /\ UNCHANGED <<running, computed, outputs, preempted, ended>>
    BY DEF AddRequest
  <1>2. /\ running \in Seq(Requests) /\ waiting \in Seq(Requests)
        /\ IsInjective(running) /\ IsInjective(waiting)
        /\ ToSet(running) \cap ToSet(waiting) = {} /\ Len(running) <= SequenceBudget
        /\ ended \cap Live = {} /\ Live = ToSet(waiting) \cup ToSet(running)
        /\ preempted \subseteq ToSet(waiting)
    BY DEF QueueInv, QueuesAreRight, Live
  <1>3. /\ waiting' \in Seq(Requests) /\ IsInjective(waiting')
        /\ ToSet(waiting') = ToSet(waiting) \cup {r}
    BY <1>1, <1>2, AppendFacts
  <1>4. Live' = Live \cup {r} /\ running' = running
    BY <1>1, <1>2, <1>3 DEF Live
  <1>5. ToSet(running') \cap ToSet(waiting') = {} /\ ended' \cap Live' = {}
    BY <1>1, <1>2, <1>3, <1>4
  <1>6. QueuesAreRight'
    BY <1>1, <1>2, <1>3, <1>5 DEF QueuesAreRight
  <1>7. ProgressIsRight'
    BY <1>1 DEF QueueInv, ProgressIsRight
  <1> QED BY <1>6, <1>7 DEF QueueInv

(* Which scheduler runs, and how far it is in its recipes. *)
PositionInv == scheduler \in Schedulers /\ recipe \in Nat

(* The target of a schedule() is a plan of its snapshot, and fits. *)
LEMMA TargetIsPlan ==
  ASSUME QueueInv, PositionInv, Target # NoWork
  PROVE  /\ scheduler # "stock" /\ NeedsSnapshot /\ recipe < Len(Recipes)
         /\ recipe + 1 \in DOMAIN Recipes
         /\ IsPlan(Snapshot, Target)
         /\ Tokens(Target) <= TokenBudget
         /\ ProjectSequences(Snapshot, Target) <= SequenceBudget
         /\ ProjectKv(Snapshot, Target) <= TotalBlocks
         /\ LET asked == Recipes[recipe + 1] IN
               /\ asked.kind = "decode_only" => Target.prefill = <<>> /\ Target.decode # {}
               /\ asked.kind = "prefill_only" => Target.prefill # <<>> /\ Target.decode = {}
               /\ asked.kind = "mixed" => Target.prefill # <<>> /\ Target.decode # {}
  <1> DEFINE asked == Recipes[recipe + 1]
             S == {Recipes[i] : i \in DOMAIN Recipes}
  <1>1. scheduler # "stock" /\ ~Complete /\ Target = BuildTargetPlan(Snapshot, asked)
    BY DEF Target
  <1>2. NeedsSnapshot
    BY <1>1, ProfilingAssumption DEF NeedsSnapshot, PositionInv
  <1>3. Recipes \in Seq(S) /\ \A i \in DOMAIN Recipes : IsRecipe(Recipes[i])
    BY ProfilingAssumption
  <1> HIDE DEF S
  <1>4. Len(Recipes) \in Nat /\ DOMAIN Recipes = 1..Len(Recipes)
    BY <1>3
  <1>5. recipe < Len(Recipes) /\ recipe + 1 \in DOMAIN Recipes
    BY <1>1, <1>4 DEF Complete, PositionInv
  <1>6. IsRecipe(asked)
    BY <1>3, <1>5
  <1> HIDE DEF asked
  <1>7. IsSnapshot(Snapshot) /\ Len(Snapshot.running) <= SequenceBudget
    BY SnapshotIsRight
  <1>8. /\ IsPlan(Snapshot, Target)
        /\ Tokens(Target) <= TokenBudget
        /\ ProjectSequences(Snapshot, Target) <= SequenceBudget
        /\ ProjectKv(Snapshot, Target) <= TotalBlocks
        /\ asked.kind = "decode_only" => Target.prefill = <<>> /\ Target.decode # {}
        /\ asked.kind = "prefill_only" => Target.prefill # <<>> /\ Target.decode = {}
        /\ asked.kind = "mixed" => Target.prefill # <<>> /\ Target.decode # {}
    BY <1>1, <1>6, <1>7, TargetPlansFit
  <1> QED BY <1>1, <1>2, <1>5, <1>8 DEF asked

LEMMA QueueScheduled == ASSUME QueueInv, PositionInv, Schedule PROVE QueueInv' /\ fault' # "plan_rejected"
  <1>1. fault = "none"
    BY DEF Schedule
  <1>2. CASE NeedsSnapshot /\ preempted # {}
    <2>1. fault' = "preempted_request" /\ UNCHANGED queues
      BY <1>2 DEF Schedule, Raise
    <2> QED BY <2>1 DEF queues, QueueInv, QueuesAreRight, ProgressIsRight, Live
  <1>3. CASE ~(NeedsSnapshot /\ preempted # {}) /\ Target # NoWork
    <2>1. /\ IsPlan(Snapshot, Target) /\ NeedsSnapshot
          /\ Tokens(Target) <= TokenBudget
          /\ ProjectSequences(Snapshot, Target) <= SequenceBudget
          /\ ProjectKv(Snapshot, Target) <= TotalBlocks
      BY <1>3, TargetIsPlan
    <2>2. ExecuteExact(Snapshot, Target)
      BY <1>3 DEF Schedule
    <2>3. QueueInv'
      BY <1>3, <2>1, <2>2, QueueExact
    <2>4. /\ Tokens(Target) \in Int /\ ProjectSequences(Snapshot, Target) \in Int
          /\ ProjectKv(Snapshot, Target) \in Int
          /\ {TokenBudget, SequenceBudget, TotalBlocks} \subseteq Int
      <3>1. Tokens(Target) \in Int /\ ProjectKv(Snapshot, Target) \in Int
        BY <2>1, SnapshotIsRight, TokensFacts, ProjectionType DEF IsPlan
      <3>2. ProjectSequences(Snapshot, Target) \in Int
        <4> DEFINE new == Scheduled(Target) \cap ToSet(waiting)
        <4>1. new \subseteq Requests
          BY DEF QueueInv, QueuesAreRight, ToSet
        <4> HIDE DEF new
        <4>2. Cardinality(new) \in Nat
          BY <4>1, FS_Subset, FS_CardinalityType, BatchAssumption
        <4>3. Len(running) \in Nat
          BY DEF QueueInv, QueuesAreRight
        <4>4. ProjectSequences(Snapshot, Target) = Len(running) + Cardinality(new)
          BY SnapshotIsRight DEF ProjectSequences, new
        <4> QED BY <4>2, <4>3, <4>4
      <3>3. {TokenBudget, SequenceBudget, TotalBlocks} \subseteq Int
        BY BatchAssumption
      <3> QED BY <3>1, <3>2, <3>3
    <2>5. ~(\/ Tokens(Target) > TokenBudget
            \/ ProjectSequences(Snapshot, Target) > SequenceBudget
            \/ ProjectKv(Snapshot, Target) > TotalBlocks)
      BY <2>1, <2>4
    <2>6. fault' = fault
      BY <2>2, <2>5 DEF ExecuteExact
    <2> QED BY <1>1, <2>3, <2>6
  <1>4. CASE ~(NeedsSnapshot /\ preempted # {}) /\ Target = NoWork
    <2>1. ExecuteStock
      BY <1>4 DEF Schedule
    <2>2. fault' = fault
      BY <2>1 DEF ExecuteStock
    <2> QED BY <1>1, <2>1, <2>2, QueueStock
  <1> QED BY <1>2, <1>3, <1>4

LEMMA PositionNext == ASSUME PositionInv, [Next]_vars PROVE PositionInv'
  <1>1. scheduler' = scheduler
    BY DEF Next, vars
  <1>2. recipe' \in {recipe, recipe + 1}
    BY DEF Next, vars, Schedule, Advance, EndIteration, RepeatTiming, UpdateFromOutput, AddRequest,
           Abort
  <1> QED BY <1>1, <1>2 DEF PositionInv

LEMMA QueueNext == ASSUME QueueInv, PositionInv, [Next]_vars PROVE QueueInv'
  <1>1. ASSUME UNCHANGED queues PROVE QueueInv'
    BY <1>1 DEF queues, QueueInv, QueuesAreRight, ProgressIsRight, Live
  <1>2. CASE EndIteration \/ RepeatTiming
    BY <1>1, <1>2 DEF EndIteration, RepeatTiming
  <1>3. CASE UNCHANGED vars
    BY <1>1, <1>3 DEF vars
  <1> QED BY <1>2, <1>3, QueueScheduled, QueueUpdated, QueueAdded, QueueAborted DEF Next

LEMMA QueueInit == Init => QueueInv /\ PositionInv
  <1> SUFFICES ASSUME Init PROVE QueueInv /\ PositionInv
    OBVIOUS
  <1>1. /\ waiting = <<>> /\ running = <<>> /\ preempted = {} /\ ended = {}
        /\ computed = [r \in Requests |-> 0] /\ outputs = [r \in Requests |-> 0]
        /\ scheduler \in Schedulers /\ recipe = 0
    BY DEF Init
  <1>2. /\ ToSet(<<>>) = {} /\ IsInjective(<<>>) /\ <<>> \in Seq(Requests) /\ Len(<<>>) = 0
    BY DEF ToSet, IsInjective
  <1>3. QueuesAreRight
    BY <1>1, <1>2, BatchAssumption DEF QueuesAreRight, Live
  <1> QED BY <1>1, <1>3 DEF QueueInv, ProgressIsRight, PositionInv

-----------------------------------------------------------------------------
(* Whatever is preempted, admitted or aborted, each request has one place in *)
(* the queues, and no more run than may.                                     *)
THEOREM QueuesInvariant == Spec => [](QueueInv /\ PositionInv)
  <1>1. Init => QueueInv /\ PositionInv
    BY QueueInit
  <1>2. QueueInv /\ PositionInv /\ [Next]_vars => (QueueInv /\ PositionInv)'
    BY QueueNext, PositionNext
  <1> QED BY <1>1, <1>2, PTL DEF Spec

(* The stock profiler's stages are the live scheduler's.                     *)
LEMMA StagesFollow == ASSUME QueueInv PROVE StagesAgree
  <1> DEFINE run == ToSet(running)
             wait == ToSet(waiting)
  <1>1. /\ run \cap wait = {} /\ Live = wait \cup run /\ ended \cap Live = {}
        /\ preempted \subseteq wait /\ run \subseteq Requests /\ wait \subseteq Requests
    BY DEF QueueInv, QueuesAreRight, Live, ToSet
  <1>2. \A r \in Requests : Prompt[r] \in Nat \ {0} /\ computed[r] \in Nat
    BY BatchAssumption DEF QueueInv, ProgressIsRight
  <1>3. \A r \in wait : computed[r] = 0 /\ (r \notin preempted => outputs[r] = 0)
    BY <1>1 DEF QueueInv, ProgressIsRight
  <1>4. /\ Decodes(Snapshot) = {r \in run : ~(computed[r] < Prompt[r])}
        /\ Prefills(Snapshot) = {r \in run : computed[r] < Prompt[r]} \cup wait
    BY SnapshotIsRight DEF Decodes, Prefills, RunningSet, Prefilling
  <1> HIDE DEF run, wait
  <1>5. ASSUME NEW r \in run
        PROVE  Stage(r) = IF computed[r] < Prompt[r] THEN "running_prefill" ELSE "running_decode"
    BY DEF Stage, run
  <1>6. ASSUME NEW r \in wait
        PROVE  Stage(r) = IF r \in preempted THEN "preempted" ELSE "waiting_prefill"
    <2>1. r \notin run
      BY <1>1
    <2>2. r \notin preempted => ~IsDecodePhase(r) /\ computed[r] = 0
      BY <1>1, <1>2, <1>3 DEF IsDecodePhase
    <2> QED BY <2>1, <2>2 DEF Stage, run
  <1>7. InStage({"running_decode"}) = Decodes(Snapshot)
    BY <1>1, <1>4, <1>5, <1>6 DEF InStage
  <1>8. InStage({"running_prefill", "waiting_prefill"}) = Prefills(Snapshot) \ preempted
    BY <1>1, <1>4, <1>5, <1>6 DEF InStage
  <1>9. InStage({"preempted"}) = preempted
    BY <1>1, <1>5, <1>6 DEF InStage
  <1>10. InStage({"waiting_decode", "other_waiting"}) = {}
    BY <1>1, <1>5, <1>6 DEF InStage
  <1> QED BY <1>7, <1>8, <1>9, <1>10 DEF StagesAgree

(* The concurrency a stock profile records is that of the live scheduler's   *)
(* stages, whatever vLLM preempts.                                           *)
THEOREM StockStagesAgree == Spec => []StagesAgree
  <1>1. QueueInv => StagesAgree
    BY StagesFollow
  <1> QED BY <1>1, QueuesInvariant, PTL


-----------------------------------------------------------------------------
(* The recipes.  Python's None is no prediction and no role either. *)
NoneIsNothing == NoneIsNoOutput /\ ~IsPending(None) /\ None # "target"

(* The target rows of a list, and how many there are up to one of them. *)
TargetsIn(list) == {i \in DOMAIN list : list[i].role = "target"}
UpTo(list, i) == Cardinality({k \in TargetsIn(list) : k <= i})

(* A recipe whose row is not written yet. *)
Owed == IF pending # None /\ pending.role = "target" THEN 1 ELSE 0

RowsFollow ==
    /\ Cardinality(TargetsIn(rows)) <= Len(Recipes)
    /\ \A i \in TargetsIn(rows) :
          /\ UpTo(rows, i) <= Len(Recipes)
          /\ KindOf(rows[i].selected) = Recipes[UpTo(rows, i)].kind
    /\ scheduler # "stock" => \A i \in DOMAIN rows :
          rows[i].role = "drain" <=> UpTo(rows, i) = Len(Recipes) /\ rows[i].role # "target"

PendingFollows ==
    /\ pending.role = "target" =>
          recipe > 0 /\ KindOf(pending.selected) = Recipes[recipe].kind
    /\ pending.role = "drain" <=> recipe = Len(Recipes) /\ pending.role # "target"

(* The targets in the profile are the recipes taken, but for one owed. *)
RecipeInv ==
    /\ fault # "plan_rejected"
    /\ recipe \in 0..Len(Recipes)
    /\ RowsFollow
    /\ fault = "none" => Cardinality(TargetsIn(rows)) = recipe - Owed
    /\ fault = "none" /\ pending # None => PendingFollows

LEMMA RecipesLength == Len(Recipes) \in Nat
  <1> DEFINE S == {Recipes[i] : i \in DOMAIN Recipes}
  <1>1. Recipes \in Seq(S)
    BY ProfilingAssumption
  <1> HIDE DEF S
  <1> QED BY <1>1

(* One more row: the others keep their counts. *)
LEMMA OneMoreTarget ==
    ASSUME RowsAreRight, NEW row, rows' = Append(rows, row)
    PROVE  LET n == Len(rows)
               new == IF row.role = "target" THEN 1 ELSE 0
           IN /\ Cardinality(TargetsIn(rows)) \in Nat
              /\ Cardinality(TargetsIn(rows')) = Cardinality(TargetsIn(rows)) + new
              /\ TargetsIn(rows') \subseteq TargetsIn(rows) \cup {n + 1}
              /\ \A i \in 1..n : UpTo(rows', i) = UpTo(rows, i)
              /\ UpTo(rows', n + 1) = Cardinality(TargetsIn(rows'))
  <1> DEFINE n == Len(rows)
             old == TargetsIn(rows)
             all == TargetsIn(rows')
             is == row.role = "target"
             last == n + 1
  <1>1. /\ n \in Nat /\ DOMAIN rows = 1..n /\ DOMAIN rows' = 1..last
        /\ \A i \in 1..n : rows'[i] = rows[i]
        /\ rows'[last] = row
    BY LongerRows
  <1>2. 1..last = (1..n) \cup {last} /\ last \notin 1..n /\ \A i \in 1..n : ~(last <= i) /\ i <= last
    BY <1>1
  <1>3. IsFiniteSet(1..n)
    BY <1>1, FS_Interval
  <1>4. last <= last
    BY <1>1
  <1> HIDE DEF n, last
  <1>5. old = {i \in 1..n : rows[i].role = "target"}
    BY <1>1 DEF TargetsIn
  <1>6. all = old \cup (IF is THEN {last} ELSE {})
    BY <1>1, <1>2, <1>5 DEF TargetsIn
  <1>7. old \subseteq 1..n
    BY <1>5
  <1> HIDE DEF old, all, is
  <1>8. IsFiniteSet(old) /\ Cardinality(old) \in Nat
    BY <1>3, <1>7, FS_Subset, FS_CardinalityType
  <1>9. Cardinality(all) = Cardinality(old) + (IF is THEN 1 ELSE 0)
    <2>1. CASE is
      BY <1>2, <1>6, <1>7, <1>8, <2>1, FS_AddElement
    <2>2. CASE ~is
      BY <1>6, <1>8, <2>2
    <2> QED BY <2>1, <2>2
  <1>10. ASSUME NEW i \in 1..n PROVE UpTo(rows', i) = UpTo(rows, i)
    <2>1. {k \in all : k <= i} = {k \in old : k <= i}
      BY <1>2, <1>6
    <2> QED BY <2>1 DEF UpTo, all, old
  <1>11. UpTo(rows', last) = Cardinality(all)
    <2>1. {k \in all : k <= last} = all
      BY <1>2, <1>4, <1>6, <1>7
    <2> QED BY <2>1 DEF UpTo, all
  <1>12. all \subseteq old \cup {last}
    BY <1>6
  <1> QED BY <1>8, <1>9, <1>10, <1>11, <1>12 DEF n, old, all, is, last

(* The row of the next recipe, or of a batch between recipes, follows. *)
LEMMA NextRowFollows ==
    ASSUME RowsAreRight, RowsFollow, scheduler' = scheduler,
           NEW row, rows' = Append(rows, row),
           NEW taken \in Nat, Cardinality(TargetsIn(rows)) = taken,
           row.role = "target" =>
              taken + 1 <= Len(Recipes) /\ KindOf(row.selected) = Recipes[taken + 1].kind,
           scheduler # "stock" =>
              (row.role = "drain" <=> taken = Len(Recipes) /\ row.role # "target")
    PROVE  /\ RowsFollow'
           /\ Cardinality(TargetsIn(rows')) = taken + (IF row.role = "target" THEN 1 ELSE 0)
  <1> DEFINE n == Len(rows)
             last == n + 1
             new == IF row.role = "target" THEN 1 ELSE 0
             count == Cardinality(TargetsIn(rows'))
  <1>1. /\ n \in Nat /\ DOMAIN rows = 1..n /\ DOMAIN rows' = 1..last
        /\ \A i \in 1..n : rows'[i] = rows[i]
        /\ rows'[last] = row
    BY LongerRows
  <1>2. /\ count = taken + new
        /\ TargetsIn(rows') \subseteq TargetsIn(rows) \cup {last}
        /\ \A i \in 1..n : UpTo(rows', i) = UpTo(rows, i)
        /\ UpTo(rows', last) = count
    BY OneMoreTarget
  <1>3. 1..last = (1..n) \cup {last} /\ last \notin 1..n
    BY <1>1
  <1>4. Len(Recipes) \in Nat
    BY RecipesLength
  <1> HIDE DEF n, last, count
  <1>5. count <= Len(Recipes)
    BY <1>2, <1>4 DEF RowsFollow
  <1>6. ASSUME NEW i \in TargetsIn(rows')
        PROVE  /\ UpTo(rows', i) <= Len(Recipes)
               /\ KindOf(rows'[i].selected) = Recipes[UpTo(rows', i)].kind
    <2>1. CASE i \in 1..n
      <3>1. i \in TargetsIn(rows) /\ rows'[i] = rows[i] /\ UpTo(rows', i) = UpTo(rows, i)
        BY <1>1, <1>2, <2>1 DEF TargetsIn
      <3> QED BY <3>1 DEF RowsFollow
    <2>2. CASE i = last
      <3>1. rows'[i] = row /\ row.role = "target"
        BY <1>1, <2>2 DEF TargetsIn
      <3>2. UpTo(rows', i) = taken + 1
        BY <1>2, <2>2, <3>1
      <3> QED BY <3>1, <3>2
    <2> QED BY <1>1, <1>3, <2>1, <2>2 DEF TargetsIn
  <1>7. ASSUME scheduler # "stock", NEW i \in DOMAIN rows'
        PROVE  rows'[i].role = "drain" <=> UpTo(rows', i) = Len(Recipes) /\ rows'[i].role # "target"
    <2>1. CASE i \in 1..n
      <3>1. rows'[i] = rows[i] /\ UpTo(rows', i) = UpTo(rows, i) /\ i \in DOMAIN rows
        BY <1>1, <1>2, <2>1
      <3> QED BY <1>7, <3>1 DEF RowsFollow
    <2>2. CASE i = last
      <3>1. rows'[i] = row /\ UpTo(rows', i) = count
        BY <1>1, <1>2, <2>2
      <3>2. row.role # "target" => count = taken
        BY <1>2
      <3> QED BY <1>7, <3>1, <3>2
    <2> QED BY <1>1, <1>3, <2>1, <2>2
  <1>8. RowsFollow'
    BY <1>5, <1>6, <1>7 DEF RowsFollow, count, KindOf
  <1> QED BY <1>2, <1>8 DEF count


(* The batch of a target is of the kind its recipe asks for. *)
LEMMA KindOfPhases ==
    ASSUME NEW t, NEW prompts, NEW decodes, DOMAIN t = prompts \cup decodes,
           \A r \in prompts : Prefilling(Snapshot, r),
           \A r \in decodes : ~Prefilling(Snapshot, r)
    PROVE  /\ prompts # {} /\ decodes # {} => KindOf(Selected(t, PlanPhase)) = "mixed"
           /\ prompts # {} /\ decodes = {} => KindOf(Selected(t, PlanPhase)) = "prefill_only"
           /\ prompts = {} /\ decodes # {} => KindOf(Selected(t, PlanPhase)) = "decode_only"
  <1> DEFINE f == [r \in DOMAIN t |-> SelectedRequest(r, PlanPhase(r), t[r])]
             selected == {f[r] : r \in DOMAIN t}
             phases == {x.phase : x \in selected}
  <1>1. \A r \in prompts : f[r].phase = "prefill"
    BY DEF SelectedRequest, PlanPhase
  <1>2. \A r \in decodes : f[r].phase = "decode"
    BY DEF SelectedRequest, PlanPhase
  <1>3. Selected(t, PlanPhase) = selected
    BY DEF Selected
  <1> HIDE DEF f
  <1>4. phases = {f[r].phase : r \in prompts \cup decodes}
    OBVIOUS
  <1>5. KindOf(Selected(t, PlanPhase)) =
            IF phases = {"prefill", "decode"} THEN "mixed"
            ELSE IF phases = {"prefill"} THEN "prefill_only" ELSE "decode_only"
    BY <1>3 DEF KindOf
  <1> HIDE DEF phases
  <1>6. ASSUME prompts # {}, decodes # {} PROVE phases = {"prefill", "decode"}
    BY <1>1, <1>2, <1>4, <1>6
  <1>7. ASSUME prompts # {}, decodes = {} PROVE phases = {"prefill"}
    BY <1>1, <1>4, <1>7
  <1>8. ASSUME prompts = {}, decodes # {} PROVE phases = {"decode"}
    BY <1>2, <1>4, <1>8
  <1>9. {"prefill"} # {"prefill", "decode"} /\ {"decode"} # {"prefill", "decode"}
        /\ {"decode"} # {"prefill"}
    OBVIOUS
  <1> QED BY <1>5, <1>6, <1>7, <1>8, <1>9

LEMMA TargetKind ==
    ASSUME QueueInv, PositionInv, Target # NoWork
    PROVE  /\ Selected(TokensIn(Target), PlanPhase) # {}
           /\ KindOf(Selected(TokensIn(Target), PlanPhase)) = Recipes[recipe + 1].kind
  <1> DEFINE t == TokensIn(Target)
             prompts == PrefillIds(Target)
             decodes == Target.decode
             asked == Recipes[recipe + 1]
  <1>1. /\ recipe + 1 \in DOMAIN Recipes /\ IsPlan(Snapshot, Target)
        /\ asked.kind = "decode_only" => Target.prefill = <<>> /\ decodes # {}
        /\ asked.kind = "prefill_only" => Target.prefill # <<>> /\ decodes = {}
        /\ asked.kind = "mixed" => Target.prefill # <<>> /\ decodes # {}
    BY TargetIsPlan
  <1>2. asked.kind \in {"prefill_only", "decode_only", "mixed"}
    BY <1>1, ProfilingAssumption DEF IsRecipe
  <1>3. DOMAIN t = prompts \cup decodes
    BY DEF TokensIn, Scheduled
  <1>4. (prompts = {}) <=> (Target.prefill = <<>>)
    <2>1. Target \in Plans
      BY <1>1 DEF IsPlan
    <2>2. Target.prefill = <<>> \/ 1 \in DOMAIN Target.prefill
      <3> DEFINE q == Target.prefill
      <3>1. q \in Seq(Items)
        BY <2>1, PlanFacts
      <3> HIDE DEF q
      <3>2. q = <<>> \/ 1 \in DOMAIN q
        BY <3>1
      <3> QED BY <3>2 DEF q
    <2>3. DOMAIN <<>> = {}
      OBVIOUS
    <2> QED BY <2>2, <2>3 DEF PrefillIds
  <1>5. \A r \in prompts : Prefilling(Snapshot, r)
    <2>1. prompts \subseteq Prefills(Snapshot)
      BY <1>1 DEF IsPlan, PrefillIds
    <2> QED BY <2>1, SnapshotIsRight, SnapshotFacts
  <1>6. \A r \in decodes : ~Prefilling(Snapshot, r)
    BY <1>1 DEF IsPlan, Decodes
  <1>7. Selected(t, PlanPhase) # {}
    <2>1. DOMAIN t # {}
      BY <1>1, <1>2, <1>3, <1>4
    <2> HIDE DEF t
    <2> QED BY <2>1 DEF Selected
  <1> HIDE DEF t, prompts, decodes, asked
  <1>8. KindOf(Selected(t, PlanPhase)) = asked.kind
    <2>1. /\ prompts # {} /\ decodes # {} => KindOf(Selected(t, PlanPhase)) = "mixed"
          /\ prompts # {} /\ decodes = {} => KindOf(Selected(t, PlanPhase)) = "prefill_only"
          /\ prompts = {} /\ decodes # {} => KindOf(Selected(t, PlanPhase)) = "decode_only"
      BY <1>3, <1>5, <1>6, KindOfPhases
    <2> QED BY <1>1, <1>2, <1>4, <2>1
  <1> QED BY <1>7, <1>8 DEF t, asked

LEMMA SameRowsFollow ==
    ASSUME RowsFollow, rows' = rows, scheduler' = scheduler
    PROVE  RowsFollow' /\ TargetsIn(rows') = TargetsIn(rows)
  BY DEF RowsFollow, KindOf

LEMMA RecipeInit == ASSUME NoneIsNothing PROVE Init => RecipeInv
  <1> SUFFICES ASSUME Init PROVE RecipeInv
    OBVIOUS
  <1>1. rows = <<>> /\ pending = None /\ recipe = 0 /\ fault = "none"
    BY DEF Init
  <1>2. TargetsIn(rows) = {} /\ DOMAIN rows = {}
    BY <1>1 DEF TargetsIn
  <1>3. Cardinality({}) = 0
    BY FS_EmptySet
  <1>4. RowsFollow
    BY <1>2, <1>3, RecipesLength DEF RowsFollow
  <1> QED BY <1>1, <1>2, <1>3, <1>4, RecipesLength DEF RecipeInv, Owed

(* What leaves the profile and the recipes alone, and of what is pending     *)
(* changes neither its role nor its batch.                                   *)
LEMMA RecipeStutters ==
    ASSUME RecipeInv, UNCHANGED <<scheduler, recipe, rows>>, fault' # "plan_rejected",
           fault' = "none" =>
              /\ fault = "none"
              /\ \/ pending' = pending
                 \/ /\ pending # None /\ pending' # None
                    /\ pending'.role = pending.role /\ pending'.selected = pending.selected
    PROVE  RecipeInv'
  <1>1. RowsFollow' /\ TargetsIn(rows') = TargetsIn(rows)
    BY SameRowsFollow DEF RecipeInv
  <1>2. ASSUME fault' = "none"
        PROVE  fault = "none" /\ Owed' = Owed /\ (pending' # None => PendingFollows')
    <2>1. CASE pending' = pending
      BY <1>2, <2>1 DEF RecipeInv, Owed, PendingFollows, KindOf
    <2>2. CASE /\ pending # None /\ pending' # None
               /\ pending'.role = pending.role /\ pending'.selected = pending.selected
      BY <1>2, <2>2 DEF RecipeInv, Owed, PendingFollows, KindOf
    <2> QED BY <1>2, <2>1, <2>2
  <1> QED BY <1>1, <1>2 DEF RecipeInv


(* schedule() leaves the row of a target, or that its row is pending. *)
LEMMA RecipeRecorded ==
    ASSUME NoneIsNothing, RowsInv, RecipeInv, fault = "none", output = None,
           scheduler' = scheduler, fault' = "none",
           NEW role, NEW selected, Record(role, selected),
           role = "target" => /\ selected # {} /\ recipe < Len(Recipes)
                              /\ recipe' = recipe + 1
                              /\ KindOf(selected) = Recipes[recipe'].kind,
           role # "target" => recipe' = recipe,
           scheduler # "stock" => (role = "drain" <=> recipe = Len(Recipes) /\ role # "target")
    PROVE  RecipeInv'
  <1>1. pending = None /\ RowsAreRight
    BY DEF RowsInv, RowsAreCounted
  <1>2. recipe \in 0..Len(Recipes) /\ RowsFollow /\ Len(Recipes) \in Nat
    BY RecipesLength DEF RecipeInv
  <1>3. Cardinality(TargetsIn(rows)) = recipe
    <2>1. Owed = 0
      BY <1>1 DEF Owed
    <2> QED BY <1>2, <2>1 DEF RecipeInv
  <1>4. recipe' = recipe + (IF role = "target" THEN 1 ELSE 0) /\ recipe' \in 0..Len(Recipes)
    BY <1>2
  <1>5. CASE scheduler = "evaluation"
    <2>1. rows' = rows /\ PreparePending(role, selected)
      BY <1>5 DEF Record
    <2>2. RowsFollow' /\ TargetsIn(rows') = TargetsIn(rows)
      BY <1>2, <2>1, SameRowsFollow
    <2>3. CASE selected = {}
      <3>1. pending' = None /\ role # "target"
        BY <1>1, <2>1, <2>3 DEF PreparePending
      <3>2. Owed' = 0
        BY <3>1 DEF Owed
      <3> QED BY <1>2, <1>3, <1>4, <2>2, <3>1, <3>2 DEF RecipeInv
    <2>4. CASE selected # {}
      <3>1. PICK in_support \in BOOLEAN :
               pending' = [role |-> role, about |-> official, selected |-> selected,
                           in_support |-> in_support, before |-> samples[KindOf(selected)],
                           index |-> None, measured |-> None]
        BY <2>1, <2>4 DEF PreparePending
      <3>2. pending'.role = role /\ pending'.selected = selected /\ IsPending(pending')
        BY <3>1 DEF IsPending
      <3>3. pending' # None
        BY <3>2 DEF NoneIsNothing, IsPending
      <3>4. Owed' = IF role = "target" THEN 1 ELSE 0
        BY <3>2, <3>3 DEF Owed
      <3>5. PendingFollows'
        <4>1. role = "target" => recipe' > 0 /\ KindOf(pending'.selected) = Recipes[recipe'].kind
          BY <1>2, <3>2
        <4>2. role = "drain" <=> recipe' = Len(Recipes) /\ role # "target"
          BY <1>2, <1>4, <1>5
        <4> QED BY <3>2, <4>1, <4>2 DEF PendingFollows, KindOf
      <3> QED BY <1>2, <1>3, <1>4, <2>2, <3>4, <3>5 DEF RecipeInv
    <2> QED BY <2>3, <2>4
  <1>6. CASE scheduler # "evaluation"
    <2>1. pending' = None /\ WriteRow(role, selected)
      BY <1>1, <1>6 DEF Record
    <2>2. Owed' = 0
      BY <2>1 DEF Owed
    <2>3. CASE selected = {}
      <3>1. rows' = rows /\ role # "target"
        BY <2>1, <2>3 DEF WriteRow
      <3>2. RowsFollow' /\ TargetsIn(rows') = TargetsIn(rows)
        BY <1>2, <3>1, SameRowsFollow
      <3> QED BY <1>2, <1>3, <1>4, <2>1, <2>2, <3>1, <3>2 DEF RecipeInv
    <2>4. CASE selected # {}
      <3> DEFINE row == Row(Len(rows), role, official, Len(rows), selected, 0, FALSE)
      <3>1. row.role = role /\ row.selected = selected /\ rows' = Append(rows, row)
        BY <2>1, <2>4 DEF WriteRow, Row
      <3> HIDE DEF row
      <3>2. row.role = "target" =>
               recipe + 1 <= Len(Recipes) /\ KindOf(row.selected) = Recipes[recipe + 1].kind
        BY <1>2, <3>1
      <3>3. scheduler # "stock" =>
               (row.role = "drain" <=> recipe = Len(Recipes) /\ row.role # "target")
        BY <3>1
      <3>4. recipe \in Nat
        BY <1>2
      <3>5. /\ RowsFollow'
            /\ Cardinality(TargetsIn(rows')) = recipe + (IF row.role = "target" THEN 1 ELSE 0)
        BY <1>1, <1>2, <1>3, <3>1, <3>2, <3>3, <3>4, NextRowFollows
      <3> QED BY <1>2, <1>4, <2>1, <2>2, <3>1, <3>5 DEF RecipeInv
    <2> QED BY <2>3, <2>4
  <1> QED BY <1>5, <1>6

LEMMA RecipeScheduled ==
    ASSUME NoneIsNothing, RowsInv, QueueInv, PositionInv, RecipeInv, Schedule,
           scheduler' = scheduler
    PROVE  RecipeInv'
  <1>1. fault = "none" /\ output = None /\ fault' # "plan_rejected"
    BY QueueScheduled DEF Schedule
  <1>2. recipe \in 0..Len(Recipes) /\ Len(Recipes) \in Nat
    BY RecipesLength DEF RecipeInv
  <1>3. CASE NeedsSnapshot /\ preempted # {}
    <2>1. fault' # "none" /\ UNCHANGED <<recipe, rows>>
      BY <1>3 DEF Schedule, Raise
    <2> QED BY <1>1, <2>1, RecipeStutters
  <1>4. CASE ~(NeedsSnapshot /\ preempted # {}) /\ Target # NoWork
    <2> DEFINE selected == Selected(TokensIn(Target), PlanPhase)
    <2>1. ExecuteExact(Snapshot, Target) /\ recipe' = recipe + 1 /\ Record("target", selected)
      BY <1>4 DEF Schedule, Advance
    <2>2. selected # {} /\ KindOf(selected) = Recipes[recipe + 1].kind
      BY <1>4, TargetKind
    <2>3. recipe < Len(Recipes)
      BY <1>4, TargetIsPlan
    <2>4. fault' = "none"
      BY <1>1, <2>1 DEF ExecuteExact, Raise
    <2> HIDE DEF selected
    <2>5. recipe # Len(Recipes) /\ KindOf(selected) = Recipes[recipe'].kind
      BY <1>2, <2>1, <2>2, <2>3
    <2>6. scheduler # "stock" => ("target" = "drain" <=> recipe = Len(Recipes) /\ "target" # "target")
      OBVIOUS
    <2> DEFINE role == "target"
    <2>7. /\ Record(role, selected)
          /\ role = "target" => /\ selected # {} /\ recipe < Len(Recipes)
                                /\ recipe' = recipe + 1
                                /\ KindOf(selected) = Recipes[recipe'].kind
          /\ role # "target" => recipe' = recipe
          /\ scheduler # "stock" => (role = "drain" <=> recipe = Len(Recipes) /\ role # "target")
      BY <2>1, <2>2, <2>3, <2>5, <2>6
    <2> HIDE DEF role
    <2> QED BY <1>1, <2>4, <2>7, RecipeRecorded
  <1>5. CASE ~(NeedsSnapshot /\ preempted # {}) /\ Target = NoWork
    <2> DEFINE selected == Selected(StockGrant, BatchPhase)
               role == SetupOrDrain
    <2>1. ExecuteStock /\ recipe' = recipe /\ Record(role, selected)
      BY <1>5 DEF Schedule
    <2>2. fault' = "none"
      BY <1>1, <2>1 DEF ExecuteStock
    <2>3. role # "target"
      BY DEF SetupOrDrain, NoneIsNothing
    <2>4. scheduler # "stock" => (role = "drain" <=> recipe = Len(Recipes))
      <3>1. Complete <=> recipe = Len(Recipes)
        BY <1>2 DEF Complete
      <3> QED BY <3>1 DEF SetupOrDrain
    <2> HIDE DEF selected, role
    <2> QED BY <1>1, <2>1, <2>2, <2>3, <2>4, RecipeRecorded
  <1> QED BY <1>3, <1>4, <1>5

(* A timing callback changes neither the role nor the batch. *)
LEMMA RecipeTimed ==
    ASSUME NoneIsNothing, RecipeInv, NEW number, NEW index, RecordDuration(number, index),
           UNCHANGED <<scheduler, recipe, rows>>, pending # None => IsPending(pending),
           fault = "none"
    PROVE  RecipeInv'
  <1>1. fault' # "plan_rejected"
    BY DEF RecordDuration
  <1>2. ASSUME fault' = "none"
        PROVE  /\ pending # None /\ pending' # None
               /\ pending'.role = pending.role /\ pending'.selected = pending.selected
    <2>1. /\ pending # None /\ IsPending(pending)
          /\ pending' = [pending EXCEPT !.index = index, !.measured = number]
      BY <1>2 DEF RecordDuration
    <2>2. pending' = [role |-> pending.role, about |-> pending.about,
                      selected |-> pending.selected, in_support |-> pending.in_support,
                      before |-> pending.before, index |-> index, measured |-> number]
      BY <2>1 DEF IsPending
    <2>3. /\ IsPending(pending')
          /\ pending'.role = pending.role /\ pending'.selected = pending.selected
      BY <2>2 DEF IsPending
    <2> QED BY <2>1, <2>3 DEF NoneIsNothing, IsPending
  <1> QED BY <1>1, <1>2, RecipeStutters

LEMMA RecipeEnds ==
    ASSUME NoneIsNothing, RowsInv, RecipeInv, EndIteration \/ RepeatTiming,
           scheduler' = scheduler
    PROVE  RecipeInv'
  <1>1. /\ fault = "none" /\ UNCHANGED <<scheduler, recipe, rows>>
        /\ output # None \/ pending # None
    BY DEF EndIteration, RepeatTiming
  <1>2. pending # None => IsPending(pending)
    BY <1>1 DEF RowsInv, RowsAreCounted, CountedAhead, CountedBehind
  <1>3. CASE UNCHANGED <<pending, fault>>
    BY <1>1, <1>3, RecipeStutters
  <1>4. ASSUME NEW number, NEW index, RecordDuration(number, index) PROVE RecipeInv'
    BY <1>1, <1>2, <1>4, RecipeTimed
  <1> QED BY <1>3, <1>4 DEF EndIteration, RepeatTiming

LEMMA RecipeUpdated ==
    ASSUME NoneIsNothing, RowsInv, RecipeInv, UpdateFromOutput, scheduler' = scheduler
    PROVE  RecipeInv'
  <1>1. fault = "none" /\ output # None /\ recipe' = recipe
    BY DEF UpdateFromOutput
  <1>2. /\ RowsAreRight /\ RowsFollow /\ recipe \in 0..Len(Recipes) /\ Len(Recipes) \in Nat
        /\ Cardinality(TargetsIn(rows)) = recipe - Owed
    BY <1>1, RecipesLength DEF RowsInv, RecipeInv
  <1>3. CASE ~(scheduler = "evaluation" /\ Refusal = "none" /\ pending # None)
    <2>1. /\ rows' = rows
          /\ \/ fault' = fault /\ pending' = pending
             \/ fault' = Refusal /\ Refusal # "none"
      BY <1>3 DEF UpdateFromOutput
    <2>2. Refusal # "plan_rejected"
      BY DEF Refusal
    <2> QED BY <1>1, <2>1, <2>2, RecipeStutters
  <1>4. CASE scheduler = "evaluation" /\ Refusal = "none" /\ pending # None
    <2>1. Evaluate /\ fault' = fault
      BY <1>4 DEF UpdateFromOutput
    <2> DEFINE row == Row(Len(rows), pending.role, pending.about, pending.measured,
                          pending.selected, pending.before, pending.in_support)
               taken == recipe - Owed
    <2>2. pending' = None /\ rows' = Append(rows, row)
      BY <2>1 DEF Evaluate
    <2>3. row.role = pending.role /\ row.selected = pending.selected
      BY DEF Row
    <2> HIDE DEF row
    <2>4. PendingFollows
      BY <1>1, <1>4 DEF RecipeInv
    <2>5. Owed = (IF row.role = "target" THEN 1 ELSE 0)
      BY <1>4, <2>3 DEF Owed
    <2>6. /\ taken \in Nat
          /\ row.role = "target" =>
                taken + 1 <= Len(Recipes) /\ KindOf(row.selected) = Recipes[taken + 1].kind
          /\ row.role = "drain" <=> taken = Len(Recipes) /\ row.role # "target"
      <3>1. CASE row.role = "target"
        <4>1. recipe > 0 /\ KindOf(row.selected) = Recipes[recipe].kind
          BY <2>3, <2>4, <3>1 DEF PendingFollows
        <4>2. taken = recipe - 1
          BY <2>5, <3>1
        <4>3. taken \in Nat /\ taken + 1 = recipe /\ recipe <= Len(Recipes)
          BY <1>2, <4>1, <4>2
        <4> HIDE DEF taken
        <4> QED BY <3>1, <4>1, <4>3
      <3>2. CASE row.role # "target"
        <4>1. taken = recipe /\ recipe \in Nat
          BY <1>2, <2>5, <3>2
        <4> HIDE DEF taken
        <4> QED BY <2>3, <2>4, <3>2, <4>1 DEF PendingFollows
      <3> QED BY <3>1, <3>2
    <2>7. Cardinality(TargetsIn(rows)) = taken
      BY <1>2
    <2>8. taken + (IF row.role = "target" THEN 1 ELSE 0) = recipe
      BY <1>2, <2>5
    <2> HIDE DEF taken
    <2>9. RowsFollow' /\ Cardinality(TargetsIn(rows')) = recipe
      BY <1>2, <2>2, <2>6, <2>7, <2>8, NextRowFollows
    <2>10. Owed' = 0
      BY <2>2 DEF Owed
    <2> QED BY <1>1, <1>2, <2>1, <2>2, <2>9, <2>10 DEF RecipeInv
  <1> QED BY <1>3, <1>4

LEMMA RecipeNext ==
    ASSUME NoneIsNothing, RowsInv, QueueInv, PositionInv, RecipeInv, [Next]_vars
    PROVE  RecipeInv'
  <1>1. ASSUME UNCHANGED <<scheduler, recipe, rows, pending, fault>> PROVE RecipeInv'
    BY <1>1, RecipeStutters DEF RecipeInv
  <1>2. ASSUME NEW r \in Requests, AddRequest(r) \/ Abort(r), UNCHANGED scheduler
        PROVE  RecipeInv'
    BY <1>1, <1>2 DEF AddRequest, Abort
  <1>3. CASE UNCHANGED vars
    BY <1>1, <1>3 DEF vars
  <1> QED BY <1>2, <1>3, RecipeScheduled, RecipeEnds, RecipeUpdated DEF Next

(* Counting up to a row tells whether all targets lie before it. *)
LEMMA RecipeOrder ==
    ASSUME NoneIsNothing, RowsInv, RecipeInv
    PROVE  RecipesInOrder
  <1> DEFINE T == TargetsIn(rows)
             n == Len(rows)
             N == Len(Recipes)
  <1>1. RowsAreRight /\ RowsFollow /\ N \in Nat
    BY RecipesLength DEF RowsInv, RecipeInv
  <1>2. n \in Nat /\ DOMAIN rows = 1..n
    <2> DEFINE S == {rows[i] : i \in DOMAIN rows}
    <2>1. rows \in Seq(S)
      BY <1>1 DEF RowsAreRight
    <2> HIDE DEF S
    <2> QED BY <2>1
  <1>3. T \subseteq 1..n /\ IsFiniteSet(1..n)
    BY <1>2, FS_Interval DEF TargetsIn
  <1> HIDE DEF T, n, N
  <1>4. IsFiniteSet(T) /\ Cardinality(T) \in Nat /\ Cardinality(T) <= N
    BY <1>1, <1>3, FS_Subset, FS_CardinalityType DEF RowsFollow, T, N
  <1>5. ASSUME NEW i \in DOMAIN rows, rows[i].role # "target"
        PROVE  UpTo(rows, i) = N <=> Cardinality(T) = N /\ \A k \in T : k < i
    <2> DEFINE U == {k \in T : k <= i}
    <2>1. i \notin T /\ i \in 1..n
      BY <1>2, <1>5 DEF T, TargetsIn
    <2>2. UpTo(rows, i) = Cardinality(U)
      BY DEF UpTo, T
    <2>3. U \subseteq T
      OBVIOUS
    <2>4. (\A k \in T : k < i) <=> U = T
      <3>1. ASSUME NEW k \in T PROVE k < i <=> k <= i
        <4>1. k \in 1..n /\ k # i /\ i \in 1..n
          BY <1>3, <2>1, <3>1
        <4> QED BY <1>2, <4>1
      <3> QED BY <3>1
    <2> HIDE DEF U
    <2>5. /\ IsFiniteSet(U) /\ Cardinality(U) \in Nat /\ Cardinality(U) <= Cardinality(T)
          /\ Cardinality(U) = Cardinality(T) => U = T
      BY <1>4, <2>3, FS_Subset, FS_CardinalityType
    <2>6. Cardinality(U) = N => Cardinality(T) = N /\ U = T
      BY <1>1, <1>4, <2>5
    <2> QED BY <2>2, <2>4, <2>6
  <1>6. ASSUME scheduler # "stock", NEW i \in DOMAIN rows
        PROVE  rows[i].role = "drain" <=> Cardinality(T) = N /\ \A k \in T : k < i
    <2>1. rows[i].role = "drain" <=> UpTo(rows, i) = N /\ rows[i].role # "target"
      BY <1>1, <1>6 DEF RowsFollow, N
    <2>2. CASE rows[i].role = "target"
      <3>1. i \in T /\ i \in 1..n
        BY <1>2, <2>2 DEF T, TargetsIn
      <3>2. ~(i < i)
        BY <1>2, <3>1
      <3> QED BY <2>1, <2>2, <3>1, <3>2
    <2>3. CASE rows[i].role # "target"
      BY <1>5, <2>1, <2>3
    <2> QED BY <2>2, <2>3
  <1>7. fault = "none" /\ pending = None => Cardinality(T) = recipe
    BY RecipesLength DEF RecipeInv, Owed, T
  <1>8. ASSUME NEW i \in T
        PROVE  /\ UpTo(rows, i) <= N
               /\ KindOf(rows[i].selected) = Recipes[UpTo(rows, i)].kind
    BY <1>1, <1>8 DEF RowsFollow, T, N
  <1>9. fault # "plan_rejected"
    BY DEF RecipeInv
  <1> QED BY <1>6, <1>7, <1>8, <1>9 DEF RecipesInOrder, UpTo, TargetsIn, T, N

(* A profile holds each recipe once, in the order of the list and of its     *)
(* kind, with setup rows before the last and drain rows after it, for every  *)
(* list of recipes; and no target plan is refused by the engine.             *)
THEOREM RecipesRunInOrder == ASSUME NoneIsNothing PROVE Spec => []RecipesInOrder
  <1> DEFINE Inv == RowsInv /\ QueueInv /\ PositionInv /\ RecipeInv
  <1>1. Init => Inv
    BY RowsInit, QueueInit, RecipeInit
  <1>2. Inv /\ [Next]_vars => Inv'
    BY RowsNext, QueueNext, PositionNext, RecipeNext DEF NoneIsNothing
  <1>3. Inv => RecipesInOrder
    BY RecipeOrder
  <1> QED BY <1>1, <1>2, <1>3, PTL DEF Spec
=============================================================================
