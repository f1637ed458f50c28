-------------------------- MODULE OnlinePredictor_proofs --------------------------
(***************************************************************************)
(* What the predictor learns, for every model, batch and window size: the    *)
(* feedback of an executed plan is never refused, a residual lands in the    *)
(* window of its own kind, and a kind that is warm stays warm.  And what the  *)
(* budget resolver makes of predictions, whatever they are.                  *)
(***************************************************************************)
EXTENDS OnlinePredictor, PlanQueries, BatchPlans_proofs

(* The record _dpp_predictor_pending holds. *)
Pending == [batch : Batches, base : Int \cup {None}, skip : BOOLEAN, actual : Int \cup {None}]

Types ==
    /\ windows \in [Kinds -> Seq(Int)]
    /\ \A k \in Kinds : Len(windows[k]) <= Calibration[k].window
    /\ ahead \in 0..MaxAhead
    /\ pending # None => pending \in Pending

(* A pending plan that will be learnt predicts now what it did when bound,   *)
(* and its frame is after the last one observed.                             *)
Learnable ==
    pending # None /\ ~pending.skip =>
        /\ Predict(windows, pending.batch).in_support
        /\ Predict(windows, pending.batch).base = pending.base
        /\ ahead >= 1

(* A measured duration is one the batch can take. *)
Measured ==
    pending # None /\ pending.actual # None => pending.actual \in Durations(pending.batch)

(* The residuals a window of kind k may hold. *)
IsResidual(k, n) ==
    \E b \in Batches : \E m \in ModelsOf(b) :
        /\ InSupport(m, b)
        /\ (k = "mixed") <=> (b.tokens > 0 /\ b.decodes > 0)
        /\ (k = "decode_only") <=> b.tokens = 0
        /\ n + Base(m, b) \in Durations(b)

PredictorInv ==
    Types /\ Learnable /\ Measured /\ FeedbackIsLearned /\ ResidualsAreOfTheirKind

-----------------------------------------------------------------------------
(* A model's base duration is an integer. *)
LEMMA BaseIsInteger ==
    ASSUME NEW b \in Batches, NEW m \in ModelsOf(b) PROVE Base(m, b) \in Int
  <1>1. IsRidge(m)
    <2>1. CASE b.tokens > 0 /\ b.decodes > 0
      BY <2>1, ArtifactAssumption DEF ModelsOf, IsSegmented
    <2>2. CASE ~(b.tokens > 0 /\ b.decodes > 0)
      BY <2>2, ArtifactAssumption DEF ModelsOf
    <2> QED BY <2>1, <2>2
  <1>2. b \in [decodes : Nat, tokens : Nat]
    BY PredictorAssumption DEF IsBatch
  <1>3. ASSUME NEW f \in Features PROVE Term(m, b, f) \in Int
    <2>1. /\ m.weight[f] \in Int /\ m.low[f] \in Nat /\ m.high[f] \in Nat
      BY <1>1 DEF IsRidge
    <2>2. b[f] \in Nat
      BY <1>2 DEF Features
    <2>3. Clip(m, b, f) \in Int /\ Above(m, b, f) \in Int /\ Slope(m, f) \in Int
      BY <2>1, <2>2 DEF Clip, Above, Slope
    <2>4. \A x, y \in Int : x * y \in Int
      OBVIOUS
    <2> QED BY <2>1, <2>3, <2>4 DEF Term
  <1>4. m.intercept \in Int
    BY <1>1 DEF IsRidge
  <1> QED BY <1>3, <1>4 DEF Base, Features

(* A prediction that is not invalid is by a model of the batch. *)
LEMMA SupportedPrediction ==
    ASSUME NEW w, NEW b \in Batches,
           IsValid(Predict(w, b)) \/ Predict(w, b).in_support
    PROVE  \E m \in ModelsOf(b) :
              /\ Predict(w, b).base = Base(m, b)
              /\ Predict(w, b).in_support = InSupport(m, b)
  <1>1. Predict(w, b) # Invalid
    BY DEF IsValid, Invalid
  <1>2. ModelsOf(b) # {}
    BY <1>1 DEF Predict
  <1> DEFINE m == CHOOSE m \in ModelsOf(b) : TRUE
             k == ClassifyBatch(b)
  <1>3. m \in ModelsOf(b)
    BY <1>2
  <1>4. Predict(w, b) = PredictBy(m, k, w[k], b)
    BY <1>2 DEF Predict
  <1> HIDE DEF m, k
  <1>5. PredictBy(m, k, w[k], b).base = Base(m, b)
        /\ PredictBy(m, k, w[k], b).in_support = InSupport(m, b)
    BY <1>1, <1>4 DEF PredictBy
  <1> QED BY <1>3, <1>4, <1>5

(* The kind of a batch that has a model. *)
LEMMA KindIsClassified ==
    ASSUME NEW b \in Batches, ModelsOf(b) # {}
    PROVE  /\ ClassifyBatch(b) \in Kinds
           /\ ClassifyBatch(b) = "mixed" <=> (b.tokens > 0 /\ b.decodes > 0)
           /\ ClassifyBatch(b) = "decode_only" <=> b.tokens = 0
  <1>1. b.tokens \in Nat /\ b.decodes \in Nat
    BY PredictorAssumption DEF IsBatch
  <1>2. ~(b.tokens = 0 /\ b.decodes = 0)
    BY <1>1 DEF ModelsOf
  <1>3. CASE b.tokens > 0 /\ b.decodes > 0
    BY <1>1, <1>3 DEF ClassifyBatch, Kinds
  <1>4. CASE b.tokens > 0 /\ b.decodes = 0
    BY <1>1, <1>4 DEF ClassifyBatch, Kinds
  <1>5. CASE b.tokens = 0 /\ b.decodes > 0
    BY <1>1, <1>5 DEF ClassifyBatch, Kinds
  <1> QED BY <1>1, <1>2, <1>3, <1>4, <1>5

(* deque(maxlen).append: the window keeps its bound and loses no length. *)
LEMMA RememberedWindow ==
    ASSUME Types, NEW k \in Kinds, NEW n \in Int
    PROVE  /\ Remember(k, n) \in Seq(Int)
           /\ Len(Remember(k, n)) <= Calibration[k].window
           /\ Len(Remember(k, n)) >= Len(windows[k])
           /\ \A i \in DOMAIN Remember(k, n) :
                 Remember(k, n)[i] = n
                    \/ \E j \in DOMAIN windows[k] : Remember(k, n)[i] = windows[k][j]
  <1> DEFINE window == windows[k]
             size == Calibration[k].window
  <1>1. window \in Seq(Int) /\ Len(window) <= size /\ size \in Nat \ {0}
    BY ArtifactAssumption DEF Types, IsCalibration
  <1>2. CASE Len(window) = size
    <2>1. window # <<>>
      BY <1>1, <1>2
    <2>2. Remember(k, n) = Append(Tail(window), n)
      BY <1>2 DEF Remember
    <2> HIDE DEF window, size
    <2>3. Tail(window) \in Seq(Int) /\ Len(Tail(window)) = Len(window) - 1
          /\ \A j \in 1..Len(window) - 1 : Tail(window)[j] = window[j + 1]
      BY <1>1, <2>1
    <2> DEFINE rest == Tail(window)
               after == Append(rest, n)
    <2> HIDE DEF rest
    <2>4. Len(window) \in Nat /\ Len(window) >= 1
      BY <1>1, <2>1
    <2>5. rest \in Seq(Int) /\ Len(rest) = Len(window) - 1
          /\ \A j \in 1..Len(rest) : j + 1 \in 1..Len(window) /\ rest[j] = window[j + 1]
      BY <2>3, <2>4 DEF rest
    <2>6. after \in Seq(Int) /\ Len(after) = Len(rest) + 1 /\ after[Len(rest) + 1] = n
          /\ \A j \in 1..Len(rest) : after[j] = rest[j]
      BY <2>5
    <2>7. DOMAIN after = 1..Len(rest) + 1 /\ DOMAIN window = 1..Len(window)
      BY <1>1, <2>6
    <2>8. \A i \in DOMAIN after : after[i] = n \/ \E j \in DOMAIN window : after[i] = window[j]
      <3>1. SUFFICES ASSUME NEW i \in 1..Len(rest) + 1, i # Len(rest) + 1
                     PROVE  \E j \in DOMAIN window : after[i] = window[j]
        BY <2>6, <2>7
      <3>2. i \in 1..Len(rest)
        BY <2>5, <3>1
      <3> QED BY <2>5, <2>6, <2>7, <3>2
    <2>9. Len(after) = Len(window)
      BY <2>4, <2>5, <2>6
    <2>10. Remember(k, n) = after
      BY <2>2 DEF rest
    <2> HIDE DEF after
    <2> QED BY <1>1, <2>4, <2>6, <2>8, <2>9, <2>10 DEF window, size
  <1>3. CASE Len(window) # size
    <2>1. Remember(k, n) = Append(window, n)
      BY <1>3 DEF Remember
    <2> HIDE DEF window, size
    <2>2. /\ Append(window, n) \in Seq(Int)
          /\ Len(Append(window, n)) = Len(window) + 1
          /\ \A j \in 1..Len(window) + 1 : Append(window, n)[j] =
                IF j = Len(window) + 1 THEN n ELSE window[j]
      BY <1>1
    <2> QED BY <1>1, <1>3, <2>1, <2>2 DEF window, size
  <1> QED BY <1>2, <1>3

-----------------------------------------------------------------------------
LEMMA PredictorInit == Init => PredictorInv
  <1> SUFFICES ASSUME Init PROVE PredictorInv
    OBVIOUS
  <1>1. \A k \in Kinds : windows[k] = <<>>
    BY DEF Init
  <1>2. \A k \in Kinds : Calibration[k].window \in Nat
    BY ArtifactAssumption DEF IsCalibration
  <1>3. windows \in [Kinds -> Seq(Int)]
    BY DEF Init
  <1>4. Types
    BY <1>1, <1>2, <1>3, PredictorAssumption DEF Init, Types
  <1>5. Learnable /\ Measured /\ FeedbackIsLearned
    BY DEF Init, Learnable, Measured, FeedbackIsLearned
  <1>6. ResidualsAreOfTheirKind
    BY <1>1 DEF ResidualsAreOfTheirKind
  <1> QED BY <1>4, <1>5, <1>6 DEF PredictorInv

(* A bound plan can be learnt, whether or not it was predicted. *)
LEMMA ScheduleKeeps ==
    ASSUME PredictorInv, NEW b \in Batches, NEW predicted \in BOOLEAN, Schedule(b, predicted)
    PROVE  PredictorInv'
  <1> DEFINE prediction == IF predicted THEN Predict(windows, b) ELSE Invalid
  <1>1. /\ pending' = [batch |-> b,
                       base |-> IF predicted THEN prediction.base ELSE None,
                       skip |-> Skips(prediction),
                       actual |-> None]
        /\ ahead' = NextFrame /\ UNCHANGED <<windows, fault>>
        /\ predicted => IsValid(Predict(windows, b))
    BY DEF Schedule
  <1>2. ahead' \in 0..MaxAhead /\ ahead' >= 1
    BY <1>1, PredictorAssumption DEF NextFrame, PredictorInv, Types
  <1>3. ASSUME predicted PROVE Predict(windows, b).base \in Int
    <2>1. PICK m \in ModelsOf(b) : Predict(windows, b).base = Base(m, b)
      BY <1>1, <1>3, SupportedPrediction
    <2> QED BY <2>1, BaseIsInteger
  <1>4. pending' \in Pending
    <2>1. (IF predicted THEN prediction.base ELSE None) \in Int \cup {None}
      BY <1>3
    <2>2. Skips(prediction) \in BOOLEAN
      BY DEF Skips
    <2> HIDE DEF prediction
    <2> QED BY <1>1, <2>1, <2>2 DEF Pending
  <1>5. Types'
    BY <1>1, <1>2, <1>4 DEF PredictorInv, Types
  <1>6. Learnable'
    <2> SUFFICES ASSUME ~pending'.skip
                 PROVE  /\ Predict(windows, b).in_support
                        /\ Predict(windows, b).base = pending'.base
      BY <1>1, <1>2 DEF Learnable
    <2>1. prediction.in_support
      BY <1>1 DEF Skips
    <2>2. predicted
      BY <2>1 DEF Invalid
    <2> QED BY <1>1, <2>1, <2>2
  <1>7. Measured' /\ FeedbackIsLearned' /\ ResidualsAreOfTheirKind'
    BY <1>1 DEF PredictorInv, Measured, FeedbackIsLearned, ResidualsAreOfTheirKind
  <1> QED BY <1>5, <1>6, <1>7 DEF PredictorInv

LEMMA RecordDurationKeeps ==
    ASSUME PredictorInv, pending # None, NEW d \in Durations(pending.batch), RecordDuration(d)
    PROVE  PredictorInv'
  <1>1. /\ pending' = [pending EXCEPT !.actual = d]
        /\ UNCHANGED <<windows, ahead, fault>>
        /\ pending \in Pending
    BY DEF RecordDuration, PredictorInv, Types
  <1>2. d \in Int
    <2>1. pending.batch \in Batches
      BY <1>1 DEF Pending
    <2>2. \A m \in ModelsOf(pending.batch), n \in Noises[pending.batch] :
             Base(m, pending.batch) + n \in Int
      BY <2>1, BaseIsInteger, PredictorAssumption
    <2> QED BY <2>2 DEF Durations
  <1>3. /\ pending' \in Pending /\ pending'.batch = pending.batch
        /\ pending'.base = pending.base /\ pending'.skip = pending.skip
        /\ pending'.actual = d
    BY <1>1, <1>2 DEF Pending
  <1>4. Types' /\ Measured'
    BY <1>1, <1>3 DEF PredictorInv, Types, Measured
  <1>5. Learnable'
    BY <1>1, <1>3 DEF PredictorInv, Learnable
  <1>6. FeedbackIsLearned' /\ ResidualsAreOfTheirKind'
    BY <1>1 DEF PredictorInv, FeedbackIsLearned, ResidualsAreOfTheirKind
  <1> QED BY <1>4, <1>5, <1>6 DEF PredictorInv

(* What observe_actual does to the windows, when the plan is not skipped. *)
LEMMA Observed ==
    ASSUME PredictorInv, UpdateFromOutput, ~pending.skip
    PROVE  \E k \in Kinds, n \in Int :
              /\ IsResidual(k, n)
              /\ windows' = [windows EXCEPT ![k] = Remember(k, n)]
              /\ ahead' = 0
              /\ fault' = fault
  <1>1. /\ pending # None /\ pending \in Pending /\ pending.actual # None
        /\ ObserveActual
    BY DEF UpdateFromOutput, PredictorInv, Types
  <1> DEFINE b == pending.batch
             audit == Predict(windows, b)
             k == ClassifyBatch(b)
  <1>2. b \in Batches /\ pending.actual \in Int
    BY <1>1 DEF Pending
  <1>3. audit.in_support /\ audit.base = pending.base /\ ahead >= 1
    BY <1>1 DEF PredictorInv, Learnable
  <1>4. PICK m \in ModelsOf(b) : audit.base = Base(m, b) /\ InSupport(m, b)
    BY <1>2, <1>3, SupportedPrediction
  <1>5. Base(m, b) \in Int
    BY <1>2, BaseIsInteger
  <1>6. ahead \in Int
    BY PredictorAssumption DEF PredictorInv, Types
  <1> DEFINE n == pending.actual - audit.base
  <1>7. /\ windows' = [windows EXCEPT ![k] = Remember(k, n)]
        /\ ahead' = 0 /\ fault' = fault
    <2> HIDE DEF n
    <2>1. ~(~audit.in_support \/ audit.base # pending.base \/ ahead <= 0)
      BY <1>3, <1>6
    <2> HIDE DEF audit, k
    <2> QED BY <1>1, <2>1 DEF ObserveActual, audit, k, n
  <1>8. /\ k \in Kinds
        /\ k = "mixed" <=> (b.tokens > 0 /\ b.decodes > 0)
        /\ k = "decode_only" <=> b.tokens = 0
    BY <1>2, <1>4, KindIsClassified
  <1>9. n \in Int /\ n + Base(m, b) = pending.actual
    <2> HIDE DEF audit, b
    <2> QED BY <1>2, <1>4, <1>5
  <1>10. pending.actual \in Durations(b)
    BY <1>1 DEF PredictorInv, Measured
  <1>11. IsResidual(k, n)
    <2> HIDE DEF k, n, b, audit
    <2> QED BY <1>2, <1>4, <1>8, <1>9, <1>10 DEF IsResidual
  <1> HIDE DEF k, n
  <1> QED BY <1>7, <1>8, <1>9, <1>11

LEMMA UpdateFromOutputKeeps == ASSUME PredictorInv, UpdateFromOutput PROVE PredictorInv'
  <1>1. pending' = None
    BY DEF UpdateFromOutput
  <1>2. Learnable' /\ Measured'
    BY <1>1 DEF Learnable, Measured
  <1>3. CASE pending.skip
    <2>1. UNCHANGED <<windows, ahead, fault>>
      BY <1>3 DEF UpdateFromOutput
    <2>2. Types' /\ FeedbackIsLearned' /\ ResidualsAreOfTheirKind'
      BY <1>1, <2>1 DEF PredictorInv, Types, FeedbackIsLearned, ResidualsAreOfTheirKind
    <2> QED BY <1>2, <2>2 DEF PredictorInv
  <1>4. CASE ~pending.skip
    <2>1. PICK k \in Kinds, n \in Int :
              /\ IsResidual(k, n)
              /\ windows' = [windows EXCEPT ![k] = Remember(k, n)]
              /\ ahead' = 0
              /\ fault' = fault
      BY <1>4, Observed
    <2>2. windows \in [Kinds -> Seq(Int)] /\ Types
      BY DEF PredictorInv, Types
    <2>3. \A j \in Kinds : windows'[j] = IF j = k THEN Remember(k, n) ELSE windows[j]
      BY <2>1, <2>2
    <2>4. Types'
      <3>1. windows' \in [Kinds -> Seq(Int)]
        BY <2>1, <2>2, RememberedWindow
      <3>2. \A j \in Kinds : Len(windows'[j]) <= Calibration[j].window
        BY <2>2, <2>3, RememberedWindow DEF Types
      <3>3. ahead' \in 0..MaxAhead
        BY <2>1, PredictorAssumption
      <3> QED BY <1>1, <3>1, <3>2, <3>3 DEF Types
    <2>5. FeedbackIsLearned'
      BY <2>1 DEF PredictorInv, FeedbackIsLearned
    <2>6. ResidualsAreOfTheirKind'
      <3>1. SUFFICES ASSUME NEW j \in Kinds, NEW i \in DOMAIN windows'[j]
                     PROVE  IsResidual(j, windows'[j][i])
        BY DEF ResidualsAreOfTheirKind, IsResidual
      <3>2. \A h \in DOMAIN windows[j] : IsResidual(j, windows[j][h])
        BY DEF PredictorInv, ResidualsAreOfTheirKind, IsResidual
      <3>3. CASE j # k
        BY <2>3, <3>1, <3>2, <3>3
      <3>4. CASE j = k
        BY <2>1, <2>2, <2>3, <3>1, <3>2, <3>4, RememberedWindow
      <3> QED BY <3>3, <3>4
    <2> QED BY <1>2, <2>4, <2>5, <2>6 DEF PredictorInv
  <1> QED BY <1>3, <1>4

LEMMA PredictorNext == ASSUME PredictorInv, [Next]_vars PROVE PredictorInv'
  <1>1. CASE UNCHANGED vars
    BY <1>1 DEF vars, PredictorInv, Types, Learnable, Measured, FeedbackIsLearned,
                ResidualsAreOfTheirKind
  <1>2. ASSUME NEW b \in Batches, Schedule(b, TRUE) \/ Schedule(b, FALSE) PROVE PredictorInv'
    BY <1>2, ScheduleKeeps
  <1> QED BY <1>1, <1>2, RecordDurationKeeps, UpdateFromOutputKeeps DEF Next, Iteration

-----------------------------------------------------------------------------
(* What the snapshot, the timing callback and the feedback keep between them. *)
THEOREM PredictorInvariant == Spec => []PredictorInv
  <1>1. Init => PredictorInv
    BY PredictorInit
  <1>2. PredictorInv /\ [Next]_vars => PredictorInv'
    BY PredictorNext
  <1> QED BY <1>1, <1>2, PTL DEF Spec

(* The windows keep their types and their bound. *)
THEOREM PredictorIsTyped == Spec => []TypeOK
  <1>1. PredictorInv => TypeOK
    BY DEF PredictorInv, Types, TypeOK, Pending
  <1> QED BY <1>1, PredictorInvariant, PTL

(* observe_actual never refuses the feedback of a plan that was executed. *)
THEOREM FeedbackIsNeverRefused == Spec => []FeedbackIsLearned
  <1>1. PredictorInv => FeedbackIsLearned
    BY DEF PredictorInv
  <1> QED BY <1>1, PredictorInvariant, PTL

(* A residual is learnt in the window of its own kind, inside the support. *)
THEOREM WindowsKeepToTheirKind == Spec => []ResidualsAreOfTheirKind
  <1>1. PredictorInv => ResidualsAreOfTheirKind
    BY DEF PredictorInv
  <1> QED BY <1>1, PredictorInvariant, PTL

(* No step takes a kind back to its cold start. *)
THEOREM ColdStartIsOver == Spec => WarmStaysWarm
  <1>1. ASSUME PredictorInv, [Next]_vars
        PROVE  [\A k \in Kinds : IsWarm(k, windows[k]) => IsWarm(k, windows[k])']_vars
    <2>1. CASE windows' = windows
      BY <2>1 DEF IsWarm
    <2>2. CASE UpdateFromOutput /\ ~pending.skip
      <3>1. PICK k \in Kinds, n \in Int : windows' = [windows EXCEPT ![k] = Remember(k, n)]
        BY <1>1, <2>2, Observed
      <3>2. windows \in [Kinds -> Seq(Int)] /\ Types
        BY <1>1 DEF PredictorInv, Types
      <3>3. \A j \in Kinds : Len(windows'[j]) >= Len(windows[j])
        BY <3>1, <3>2, RememberedWindow
      <3>4. \A j \in Kinds : Len(windows'[j]) \in Nat /\ Len(windows[j]) \in Nat
                             /\ Calibration[j].minimum \in Nat
        <4>1. windows' \in [Kinds -> Seq(Int)]
          BY <3>1, <3>2, RememberedWindow
        <4> QED BY <3>2, <4>1, ArtifactAssumption DEF IsCalibration
      <3> QED BY <3>3, <3>4 DEF IsWarm
    <2>3. windows' = windows \/ (UpdateFromOutput /\ ~pending.skip)
      BY <1>1 DEF Next, Iteration, Schedule, RecordDuration, UpdateFromOutput, vars
    <2> QED BY <2>1, <2>2, <2>3
  <1> QED BY <1>1, PredictorInvariant, PTL DEF Spec, WarmStaysWarm


-----------------------------------------------------------------------------
(* The library's induction theorems take an operator; here what is shown of  *)
(* every number is a set.                                                    *)
LEMMA LeastNumber ==
    ASSUME NEW S \in SUBSET Nat, S # {}
    PROVE  \E x \in S : \A y \in S : x <= y
  <1> DEFINE R == {ss \in Nat \X Nat : ss[1] < ss[2]}
  <1>1. IsWellFoundedOn(R, Nat)
    BY NatLessThanWellFounded DEF OpToRel
  <1>2. PICK x \in S : \A y \in S : ~(<<y, x>> \in R)
    <2> HIDE DEF R
    <2> QED BY <1>1, WFMin
  <1>3. ASSUME NEW y \in S, ~(x <= y) PROVE FALSE
    <2>1. y \in Nat /\ x \in Nat /\ y < x
      BY <1>3
    <2>2. <<y, x>> \in R
      BY <2>1
    <2> QED BY <1>2, <2>2
  <1> QED BY <1>3

-----------------------------------------------------------------------------
(* The order of a window's residuals. *)
UpTo(window, v) == {j \in DOMAIN window : window[j] <= v}
Under(window, v) == {j \in DOMAIN window : window[j] < v}

LEMMA CountOfInterval ==
    ASSUME NEW n \in Nat
    PROVE  IsFiniteSet(1..n) /\ Cardinality(1..n) = n
  <1>1. Cardinality(1..n) = IF 1 > n THEN 0 ELSE n - 1 + 1
    BY FS_Interval
  <1>2. IsFiniteSet(1..n)
    BY FS_Interval
  <1> QED BY <1>1, <1>2

LEMMA CountsOfWindow ==
    ASSUME NEW window \in Seq(Int), NEW J \in SUBSET DOMAIN window
    PROVE  IsFiniteSet(J) /\ Cardinality(J) \in Nat /\ Cardinality(J) <= Len(window)
  <1>1. DOMAIN window = 1..Len(window) /\ Len(window) \in Nat
    OBVIOUS
  <1>2. IsFiniteSet(1..Len(window)) /\ Cardinality(1..Len(window)) = Len(window)
    BY <1>1, CountOfInterval
  <1>3. J \in SUBSET (1..Len(window))
    BY <1>1
  <1> QED BY <1>2, <1>3, FS_Subset, FS_CardinalityType

LEMMA LargestResidual ==
    ASSUME NEW window \in Seq(Int), NEW J \in SUBSET DOMAIN window, J # {}
    PROVE  \E j \in J : \A k \in J : window[k] <= window[j]
  <1> DEFINE rank(j) == Len(window) - Cardinality(UpTo(window, window[j]))
             S == {rank(j) : j \in J}
  <1>1. ASSUME NEW j \in J PROVE rank(j) \in Nat
    <2>1. UpTo(window, window[j]) \in SUBSET DOMAIN window /\ Len(window) \in Nat
      BY DEF UpTo
    <2> QED BY <2>1, CountsOfWindow
  <1>2. S \in SUBSET Nat /\ S # {}
    BY <1>1
  <1>3. PICK j \in J : \A k \in J : rank(j) <= rank(k)
    <2>1. PICK x \in S : \A y \in S : x <= y
      <3> HIDE DEF S
      <3> QED BY <1>2, LeastNumber
    <2>2. PICK j \in J : x = rank(j)
      OBVIOUS
    <2> QED BY <2>1, <2>2
  <1>4. ASSUME NEW k \in J, ~(window[k] <= window[j]) PROVE FALSE
    <2>1. window[k] \in Int /\ window[j] \in Int
      OBVIOUS
    <2>2. /\ UpTo(window, window[j]) \in SUBSET UpTo(window, window[k])
          /\ UpTo(window, window[k]) \in SUBSET DOMAIN window
          /\ UpTo(window, window[j]) \in SUBSET DOMAIN window
          /\ k \in UpTo(window, window[k]) /\ k \notin UpTo(window, window[j])
      <3>1. \A i \in DOMAIN window : window[i] \in Int
        OBVIOUS
      <3> QED BY <1>4, <2>1, <3>1 DEF UpTo
    <2> DEFINE a == UpTo(window, window[j])
               c == UpTo(window, window[k])
    <2>3. /\ IsFiniteSet(c) /\ Cardinality(a) \in Nat /\ Cardinality(c) \in Nat
      BY <2>2, CountsOfWindow
    <2>4. Cardinality(a) <= Cardinality(c) /\ Cardinality(a) # Cardinality(c)
      <3> HIDE DEF a, c
      <3>1. a \in SUBSET c /\ a # c
        BY <2>2 DEF a, c
      <3> QED BY <2>3, <3>1, FS_Subset
    <2>5. Len(window) \in Nat /\ Len(window) - Cardinality(a) <= Len(window) - Cardinality(c)
      BY <1>3
    <2> HIDE DEF a, c
    <2> QED BY <2>3, <2>4, <2>5
  <1> QED BY <1>3, <1>4

(* _higher_quantile, _symmetric_trimmed_mean: the i-th residual of the sorted *)
(* window exists, with fewer than i below it and at least i up to it.         *)
LEMMA SmallestFacts ==
    ASSUME NEW window \in Seq(Int), NEW i \in 1..Len(window)
    PROVE  /\ Smallest(window, i) \in Int
           /\ Cardinality(Under(window, Smallest(window, i))) < i
           /\ Cardinality(UpTo(window, Smallest(window, i))) >= i
  <1> DEFINE Enough == {j \in DOMAIN window : Cardinality(UpTo(window, window[j])) >= i}
             count(j) == Cardinality(UpTo(window, window[j]))
             S == {count(j) : j \in Enough}
  <1>0. \A v : UpTo(window, v) \in SUBSET DOMAIN window /\ Under(window, v) \in SUBSET DOMAIN window
    BY DEF UpTo, Under
  <1>1. \A v : /\ Cardinality(UpTo(window, v)) \in Nat
               /\ Cardinality(Under(window, v)) \in Nat
    BY <1>0, CountsOfWindow
  <1>2. \A j \in DOMAIN window : window[j] \in Int
    OBVIOUS
  <1>3. Enough # {}
    <2>1. i \in DOMAIN window
      OBVIOUS
    <2>2. PICK j \in DOMAIN window : \A k \in DOMAIN window : window[k] <= window[j]
      BY <2>1, LargestResidual
    <2>3. UpTo(window, window[j]) = DOMAIN window
      BY <2>2 DEF UpTo
    <2>4. Cardinality(DOMAIN window) = Len(window)
      <3>1. DOMAIN window = 1..Len(window) /\ Len(window) \in Nat
        OBVIOUS
      <3> QED BY <3>1, CountOfInterval
    <2>5. Cardinality(UpTo(window, window[j])) >= i
      BY <2>3, <2>4
    <2> QED BY <2>2, <2>5
  <1>4. PICK j \in Enough : \A k \in Enough : count(j) <= count(k)
    <2>1. S \in SUBSET Nat /\ S # {}
      BY <1>1, <1>3
    <2>2. PICK x \in S : \A y \in S : x <= y
      <3> HIDE DEF S
      <3> QED BY <2>1, LeastNumber
    <2>3. PICK j \in Enough : x = count(j)
      OBVIOUS
    <2> QED BY <2>2, <2>3
  <1> DEFINE v == window[j]
  <1>5. v \in Int /\ v \in ToSet(window) /\ Cardinality(UpTo(window, v)) >= i
    BY DEF ToSet
  <1>6. Cardinality(Under(window, v)) < i
    <2> SUFFICES ASSUME Cardinality(Under(window, v)) >= i PROVE FALSE
      BY <1>1
    <2>1. Under(window, v) # {}
      <3>1. Cardinality({}) = 0
        BY FS_EmptySet
      <3>2. i \in Nat /\ i >= 1
        OBVIOUS
      <3>3. Cardinality(Under(window, v)) # 0
        <4> DEFINE n == Cardinality(Under(window, v))
        <4>1. n \in Nat /\ n >= i
          BY <1>1
        <4> HIDE DEF n
        <4>2. n # 0
          BY <3>2, <4>1
        <4> QED BY <4>2 DEF n
      <3> HIDE DEF v
      <3> QED BY <3>1, <3>3, Zenon
    <2>2. PICK k \in Under(window, v) : \A n \in Under(window, v) : window[n] <= window[k]
      BY <1>0, <2>1, LargestResidual
    <2>3. window[k] \in Int /\ window[k] < v /\ k \in DOMAIN window
      BY <1>2 DEF Under
    <2>4. UpTo(window, window[k]) = Under(window, v)
      BY <1>2, <1>5, <2>2, <2>3 DEF UpTo, Under
    <2>5. k \in Enough
      BY <2>3, <2>4
    <2>6. count(j) <= count(k)
      BY <1>4, <2>5
    <2>7. Under(window, v) \in SUBSET UpTo(window, v)
      BY <1>2, <1>5 DEF UpTo, Under
    <2>8. j \in UpTo(window, v) /\ j \notin Under(window, v)
      BY <1>5 DEF UpTo, Under
    <2> DEFINE a == Under(window, v)
               c == UpTo(window, v)
    <2>9. IsFiniteSet(c) /\ Cardinality(a) \in Nat /\ Cardinality(c) \in Nat
      BY <1>0, CountsOfWindow
    <2>10. Cardinality(c) <= Cardinality(a)
      BY <2>4, <2>6
    <2> HIDE DEF a, c
    <2>11. a \in SUBSET c /\ a # c
      BY <2>7, <2>8 DEF a, c
    <2>12. Cardinality(a) <= Cardinality(c) /\ Cardinality(c) # Cardinality(a)
      BY <2>9, <2>11, FS_Subset
    <2> QED BY <2>9, <2>10, <2>12
  <1> DEFINE P(u) == Cardinality(Under(window, u)) < i /\ Cardinality(UpTo(window, u)) >= i
  <1>7. Smallest(window, i) = CHOOSE u \in ToSet(window) : P(u)
    BY DEF Smallest, Under, UpTo
  <1>8. v \in ToSet(window) /\ P(v)
    BY <1>5, <1>6
  <1>9. Smallest(window, i) \in ToSet(window) /\ P(Smallest(window, i))
    <2> HIDE DEF P, v
    <2> QED BY <1>7, <1>8
  <1>10. ToSet(window) \subseteq Int
    BY <1>2 DEF ToSet
  <1> QED BY <1>9, <1>10


-----------------------------------------------------------------------------
(* A sum of integers, added up one by one, is an integer. *)
LEMMA PartialSums ==
    ASSUME NEW low \in Nat, NEW high \in Nat, low <= high,
           NEW term, \A i \in low + 1..high : term[i] \in Int,
           NEW sum,
           sum = CHOOSE f : f = [i \in low..high |-> IF i = low THEN 0 ELSE f[i - 1] + term[i]]
    PROVE  sum[high] \in Int
  <1> DEFINE Body(f) == [i \in low..high |-> IF i = low THEN 0 ELSE f[i - 1] + term[i]]
             Table(n) == \E g \in [low..low + n -> Int] :
                            \A i \in low..low + n :
                               g[i] = IF i = low THEN 0 ELSE g[i - 1] + term[i]
             S == {n \in Nat : low + n <= high => Table(n)}
  <1>1. Table(0)
    <2> DEFINE g == [i \in low..low + 0 |-> 0]
    <2>1. g \in [low..low + 0 -> Int] /\ \A i \in low..low + 0 : i = low /\ g[i] = 0
      OBVIOUS
    <2> HIDE DEF g
    <2> QED BY <2>1
  <1>2. ASSUME NEW n \in Nat, Table(n), low + (n + 1) <= high PROVE Table(n + 1)
    <2>1. PICK g \in [low..low + n -> Int] :
             \A i \in low..low + n : g[i] = IF i = low THEN 0 ELSE g[i - 1] + term[i]
      BY <1>2
    <2> DEFINE last == low + (n + 1)
               h == [i \in low..last |-> IF i = last THEN g[low + n] + term[last] ELSE g[i]]
    <2>2. /\ last \in Nat /\ last - 1 = low + n /\ last # low /\ last \in low + 1..high
          /\ \A i \in low..last : i = last \/ i \in low..low + n
          /\ \A i \in low..low + n : i # last /\ i \in low..last
          /\ \A i \in low..low + n : i # low => i - 1 \in low..low + n
          /\ low + n \in low..low + n
      <3> USE <1>2
      <3>1. /\ last \in Nat /\ last - 1 = low + n /\ last # low /\ last \in low + 1..high
            /\ low + n \in low..low + n
        OBVIOUS
      <3>2. ASSUME NEW i \in low..last, i # last PROVE i \in low..low + n
        BY <3>2
      <3>3. ASSUME NEW i \in low..low + n
            PROVE  i # last /\ i \in low..last /\ (i # low => i - 1 \in low..low + n)
        OBVIOUS
      <3> HIDE DEF last
      <3> QED BY <3>1, <3>2, <3>3
    <2>3. g[low + n] \in Int /\ term[last] \in Int
      BY <2>1, <2>2
    <2> HIDE DEF last
    <2>4. h \in [low..last -> Int]
      BY <2>1, <2>2, <2>3
    <2>5. last \in low..last
      BY <2>2
    <2>6. h[last] = g[low + n] + term[last] /\ h[low + n] = g[low + n]
      BY <2>2, <2>5
    <2>7. \A i \in low..low + n : h[i] = g[i]
      BY <2>2
    <2> HIDE DEF h
    <2>8. ASSUME NEW i \in low..last PROVE h[i] = IF i = low THEN 0 ELSE h[i - 1] + term[i]
      <3>1. CASE i = last
        BY <2>2, <2>6, <3>1
      <3>2. CASE i \in low..low + n
        BY <2>1, <2>2, <2>7, <3>2
      <3> QED BY <2>2, <3>1, <3>2
    <2> QED BY <2>4, <2>8 DEF last
  <1>3. high - low \in S
    <2>1. Nat \subseteq S
      <3> HIDE DEF Table
      <3>1. 0 \in S
        BY <1>1
      <3>2. ASSUME NEW n \in Nat, n \in S PROVE n + 1 \in S
        <4>1. n + 1 \in Nat /\ (low + (n + 1) <= high => low + n <= high)
          OBVIOUS
        <4> QED BY <1>2, <3>2, <4>1
      <3> HIDE DEF S
      <3> QED BY <3>1, <3>2, InductionOnNat
    <2>2. high - low \in Nat
      OBVIOUS
    <2> HIDE DEF S
    <2> QED BY <2>1, <2>2
  <1>4. PICK g \in [low..high -> Int] :
           \A i \in low..high : g[i] = IF i = low THEN 0 ELSE g[i - 1] + term[i]
    <2> DEFINE d == high - low
    <2>1. low + d = high /\ low + d <= high
      OBVIOUS
    <2>2. d \in S
      BY <1>3
    <2> HIDE DEF d
    <2> QED BY <2>1, <2>2
  <1>5. g = Body(g)
    BY <1>4
  <1>6. sum = Body(sum)
    <2>1. sum = CHOOSE f : f = Body(f)
      OBVIOUS
    <2> HIDE DEF Body
    <2> QED BY <1>5, <2>1
  <1>7. \A i \in low..high : sum[i] = IF i = low THEN 0 ELSE sum[i - 1] + term[i]
    BY <1>6
  <1> DEFINE Q == {n \in Nat : low + n <= high => sum[low + n] = g[low + n]}
  <1>8. 0 \in Q
    <2>1. low + 0 = low /\ low \in low..high
      OBVIOUS
    <2>2. sum[low] = 0 /\ g[low] = 0
      BY <1>4, <1>7, <2>1
    <2> QED BY <2>1, <2>2
  <1>9. ASSUME NEW n \in Nat, n \in Q PROVE n + 1 \in Q
    <2> SUFFICES ASSUME low + (n + 1) <= high
                 PROVE  sum[low + (n + 1)] = g[low + (n + 1)]
      OBVIOUS
    <2> DEFINE i == low + (n + 1)
    <2>1. i \in low..high /\ i # low /\ i - 1 = low + n /\ low + n <= high
      OBVIOUS
    <2>2. sum[low + n] = g[low + n]
      BY <1>9, <2>1
    <2> HIDE DEF i
    <2>3. sum[i] = g[i]
      BY <1>4, <1>7, <2>1, <2>2
    <2> QED BY <2>3 DEF i
  <1>10. sum[high] = g[high]
    <2>1. Nat \subseteq Q
      <3> HIDE DEF Q
      <3> QED BY <1>8, <1>9, InductionOnNat
    <2> DEFINE d == high - low
    <2>2. d \in Nat /\ low + d = high /\ low + d <= high
      OBVIOUS
    <2> HIDE DEF d
    <2>3. d \in Q
      <3> HIDE DEF Q
      <3> QED BY <2>1, <2>2
    <2> QED BY <2>2, <2>3
  <1>11. high \in low..high
    OBVIOUS
  <1> QED BY <1>4, <1>10, <1>11

(* _symmetric_trimmed_mean trims less than the window holds. *)
LEMMA MeanIsInteger ==
    ASSUME NEW window \in Seq(Int), Len(window) >= 1
    PROVE  TrimmedMean(window) \in Int
  <1> DEFINE n == Len(window)
             trim == (TrimPercent * n) \div 100
             last == n - trim
             term == [i \in 1..n |-> Smallest(window, i)]
             sum == CHOOSE f : f = [i \in trim..last |->
                                       IF i = trim THEN 0 ELSE f[i - 1] + term[i]]
  <1>1. n \in Nat /\ n >= 1
    OBVIOUS
  <1>2. trim \in Nat /\ trim < last /\ last \in Nat /\ last <= n
    <2> HIDE DEF n
    <2>1. TrimPercent \in 0..49
      BY PredictorAssumption
    <2> DEFINE x == TrimPercent * n
    <2>2. x \in Nat /\ x <= 49 * n
      BY <1>1, <2>1
    <2> HIDE DEF x
    <2>3. x \div 100 \in Nat /\ 100 * (x \div 100) <= x
      BY <2>2
    <2> QED BY <1>1, <2>2, <2>3 DEF x
  <1>3. \A i \in trim + 1..last : term[i] \in Int
    <2>1. \A i \in 1..n : Smallest(window, i) \in Int
      BY SmallestFacts
    <2> HIDE DEF n, trim, last
    <2> QED BY <1>1, <1>2, <2>1
  <1>4. sum[last] \in Int
    <2> HIDE DEF n, trim, last, term
    <2>1. trim <= last
      BY <1>2
    <2> QED BY <1>2, <1>3, <2>1, PartialSums
  <1>5. TrimmedMean(window) = sum[last] \div (last - trim)
    <2> DEFINE direct == CHOOSE f : f = [i \in trim..last |->
                             IF i = trim THEN 0 ELSE f[i - 1] + Smallest(window, i)]
    <2>1. TrimmedMean(window) = direct[last] \div (last - trim)
      BY DEF TrimmedMean
    <2>2. ASSUME NEW f
          PROVE  [i \in trim..last |-> IF i = trim THEN 0 ELSE f[i - 1] + Smallest(window, i)]
                   = [i \in trim..last |-> IF i = trim THEN 0 ELSE f[i - 1] + term[i]]
      <3>1. \A i \in trim..last : i # trim => i \in 1..n
        <4> HIDE DEF n, trim, last
        <4> QED BY <1>1, <1>2
      <3>2. \A i \in trim..last : i # trim => term[i] = Smallest(window, i)
        <4> HIDE DEF n, trim, last
        <4> QED BY <3>1
      <3> HIDE DEF n, trim, last, term
      <3> QED BY <3>2
    <2>3. direct = sum
      <3> HIDE DEF n, trim, last, term
      <3> QED BY <2>2
    <2> HIDE DEF n, trim, last, term, direct, sum
    <2> QED BY <2>1, <2>3
  <1>6. last - trim \in Nat \ {0}
    <2> HIDE DEF n, trim, last
    <2> QED BY <1>2
  <1> HIDE DEF n, trim, last, term, sum
  <1> QED BY <1>4, <1>5, <1>6


-----------------------------------------------------------------------------
(* What a window adds to the base duration, cold or warm. *)
LEMMA CenterAndUpper ==
    ASSUME NEW k \in Kinds, NEW window \in Seq(Int)
    PROVE  /\ Center(k, window) \in Int
           /\ Upper(k, window) \in Int
           /\ IsWarm(k, window) =>
                 100 * Cardinality(UpTo(window, Upper(k, window))) >= UpperPercent * Len(window)
  <1>1. /\ Calibration[k].mean \in Int /\ Calibration[k].margin \in Nat
        /\ Calibration[k].minimum \in Nat \ {0}
    BY ArtifactAssumption DEF IsCalibration
  <1>2. CASE ~IsWarm(k, window)
    BY <1>1, <1>2 DEF Center, Upper
  <1>3. CASE IsWarm(k, window)
    <2> DEFINE n == Len(window)
               i == 1 + (UpperPercent * (n - 1) + 99) \div 100
    <2>1. n \in Nat /\ n >= 1
      BY <1>1, <1>3 DEF IsWarm
    <2>2. i \in 1..n /\ 100 * i >= UpperPercent * n
      <3> HIDE DEF n
      <3>1. UpperPercent \in 0..100
        BY PredictorAssumption
      <3> DEFINE x == UpperPercent * (n - 1)
      <3>2. x \in Nat /\ x <= 100 * (n - 1) /\ x + UpperPercent = UpperPercent * n
        BY <2>1, <3>1
      <3> HIDE DEF x
      <3>3. (x + 99) \div 100 \in Nat /\ (x + 99) \div 100 <= n - 1 /\ 100 * ((x + 99) \div 100) >= x
        BY <2>1, <3>2
      <3>4. i = 1 + (x + 99) \div 100
        BY DEF x
      <3> HIDE DEF i
      <3>5. i \in 1..n
        BY <2>1, <3>3, <3>4
      <3>6. 100 * i = 100 + 100 * ((x + 99) \div 100)
        BY <3>3, <3>4
      <3>7. 100 * i >= x + UpperPercent
        BY <3>1, <3>2, <3>3, <3>6
      <3> QED BY <3>2, <3>5, <3>7
    <2>3. Center(k, window) = TrimmedMean(window) /\ Upper(k, window) = Smallest(window, i)
      BY <1>3 DEF Center, Upper, HigherQuantile
    <2>4. TrimmedMean(window) \in Int
      BY <2>1, MeanIsInteger
    <2> DEFINE c == Cardinality(UpTo(window, Smallest(window, i)))
    <2>5. Smallest(window, i) \in Int /\ c >= i
      BY <2>2, SmallestFacts
    <2>6. c \in Nat
      <3>1. UpTo(window, Smallest(window, i)) \in SUBSET DOMAIN window
        BY DEF UpTo
      <3> QED BY <3>1, CountsOfWindow
    <2>7. 100 * c >= UpperPercent * n
      <3>1. UpperPercent * n \in Int
        BY <2>1, PredictorAssumption
      <3> DEFINE p == UpperPercent * n
      <3> HIDE DEF c, i, n, p
      <3>2. p \in Int /\ 100 * i >= p /\ i \in Int
        BY <2>1, <2>2, <3>1 DEF p
      <3>3. 100 * c >= p
        BY <2>5, <2>6, <3>2
      <3> QED BY <3>3 DEF p
    <2> HIDE DEF i
    <2> QED BY <2>3, <2>4, <2>5, <2>7 DEF n
  <1> QED BY <1>2, <1>3

LEMMA ModelFacts ==
    ASSUME NEW b \in Batches, NEW m \in ModelsOf(b)
    PROVE  /\ m.intercept \in Int
           /\ \A f \in Features : /\ m.weight[f] \in Int
                                  /\ m.low[f] \in Nat /\ m.high[f] \in Nat
                                  /\ m.low[f] <= m.high[f]
                                  /\ b[f] \in Nat
  <1>1. IsRidge(m)
    <2>1. CASE b.tokens > 0 /\ b.decodes > 0
      BY <2>1, ArtifactAssumption DEF ModelsOf, IsSegmented
    <2>2. CASE ~(b.tokens > 0 /\ b.decodes > 0)
      BY <2>2, ArtifactAssumption DEF ModelsOf
    <2> QED BY <2>1, <2>2
  <1>2. b \in [decodes : Nat, tokens : Nat]
    BY PredictorAssumption DEF IsBatch
  <1> QED BY <1>1, <1>2 DEF IsRidge, Features

LEMMA LargerOfTwo ==
    ASSUME NEW x \in Int, NEW y \in Int
    PROVE  Max({x, y}) = IF x >= y THEN x ELSE y
  <1> DEFINE top == IF x >= y THEN x ELSE y
  <1>1. top \in {x, y} /\ \A z \in {x, y} : top >= z
    OBVIOUS
  <1>2. Max({x, y}) \in {x, y} /\ \A z \in {x, y} : Max({x, y}) >= z
    <2> HIDE DEF top
    <2> QED BY <1>1 DEF Max
  <1> QED BY <1>1, <1>2

LEMMA DistanceFacts ==
    ASSUME NEW b \in Batches, NEW m \in ModelsOf(b)
    PROVE  /\ \A f \in Features : Outside(m, b, f) \in Nat
           /\ OodDistance(m, b) \in Nat
           /\ OodDistance(m, b) = IF Outside(m, b, "decodes") >= Outside(m, b, "tokens")
                                  THEN Outside(m, b, "decodes") ELSE Outside(m, b, "tokens")
  <1>1. ASSUME NEW f \in Features PROVE Outside(m, b, f) \in Nat
    <2>1. m.low[f] \in Nat /\ m.high[f] \in Nat /\ m.low[f] <= m.high[f] /\ b[f] \in Nat
      BY ModelFacts
    <2> QED BY <2>1 DEF Outside, Clip
  <1> DEFINE x == Outside(m, b, "decodes")
             y == Outside(m, b, "tokens")
  <1>2. x \in Nat /\ y \in Nat
    BY <1>1 DEF Features
  <1>3. {Outside(m, b, f) : f \in Features} = {x, y}
    BY DEF Features
  <1>4. OodDistance(m, b) = Max({x, y})
    BY <1>3 DEF OodDistance
  <1> HIDE DEF x, y
  <1>5. OodDistance(m, b) = IF x >= y THEN x ELSE y
    BY <1>2, <1>4, LargerOfTwo
  <1> QED BY <1>1, <1>2, <1>5 DEF x, y

(* predict_with_audit: the parts of a prediction that is not invalid. *)
LEMMA ValidPrediction ==
    ASSUME NEW w \in [Kinds -> Seq(Int)], NEW b \in Batches, ModelsOf(b) # {}
    PROVE  LET m == CHOOSE m \in ModelsOf(b) : TRUE
               k == ClassifyBatch(b)
               expected == Base(m, b) + Center(k, w[k])
               upper == Base(m, b) + Upper(k, w[k]) + KappaOod * OodDistance(m, b)
           IN /\ m \in ModelsOf(b) /\ k \in Kinds
              /\ Base(m, b) \in Int /\ expected \in Int /\ upper \in Int
              /\ IsValid(Predict(w, b)) <=> Base(m, b) > 0 /\ expected > 0
              /\ IsValid(Predict(w, b)) =>
                    /\ Predict(w, b).base = Base(m, b)
                    /\ Predict(w, b).expected = expected
                    /\ Predict(w, b).conservative = IF upper > expected THEN upper ELSE expected
  <1> DEFINE m == CHOOSE m \in ModelsOf(b) : TRUE
             k == ClassifyBatch(b)
             base == Base(m, b)
             expected == base + Center(k, w[k])
             upper == base + Upper(k, w[k]) + KappaOod * OodDistance(m, b)
             conservative == Conservative(expected, upper)
  <1>1. m \in ModelsOf(b) /\ k \in Kinds
    BY KindIsClassified
  <1>2. Predict(w, b) = PredictBy(m, k, w[k], b)
    BY DEF Predict
  <1> HIDE DEF m, k
  <1>3. base \in Int /\ OodDistance(m, b) \in Nat /\ KappaOod \in Nat
    BY <1>1, BaseIsInteger, DistanceFacts, PredictorAssumption
  <1>4. Center(k, w[k]) \in Int /\ Upper(k, w[k]) \in Int
    BY <1>1, CenterAndUpper
  <1>5. expected \in Int /\ upper \in Int
    <2>1. KappaOod * OodDistance(m, b) \in Int
      BY <1>3
    <2> HIDE DEF base
    <2> QED BY <1>3, <1>4, <2>1
  <1>6. conservative = (IF upper > expected THEN upper ELSE expected) /\ conservative >= expected
    <2> HIDE DEF expected, upper
    <2> QED BY <1>5 DEF Conservative
  <1> DEFINE valid == [mode |-> IF InSupport(m, b) THEN "INTERPOLATION"
                                ELSE "CONSTRAINED_EXTRAPOLATION",
                       in_support |-> InSupport(m, b),
                       base |-> base, expected |-> expected, conservative |-> conservative]
  <1>7. Predict(w, b) = IF base <= 0 \/ expected <= 0 \/ conservative < expected
                        THEN Invalid ELSE valid
    BY <1>2 DEF PredictBy
  <1> HIDE DEF base, expected, upper, conservative
  <1>8. ~(conservative < expected)
    BY <1>5, <1>6
  <1>9. IsValid(valid) /\ ~IsValid(Invalid)
    BY DEF IsValid, Invalid
  <1>10. IsValid(Predict(w, b)) <=> base > 0 /\ expected > 0
    <2> HIDE DEF valid
    <2> QED BY <1>3, <1>5, <1>7, <1>8, <1>9
  <1>11. IsValid(Predict(w, b)) => Predict(w, b) = valid
    <2> HIDE DEF valid
    <2> QED BY <1>7, <1>9
  <1>12. IsValid(Predict(w, b)) =>
            /\ Predict(w, b).base = base
            /\ Predict(w, b).expected = expected
            /\ Predict(w, b).conservative = conservative
    BY <1>11
  <1> QED BY <1>1, <1>3, <1>5, <1>6, <1>10, <1>12 DEF m, k, base, expected, upper


(* Beyond the box a feature adds at least as much as at its border, and is    *)
(* farther outside.                                                          *)
LEMMA TermGrows ==
    ASSUME NEW b \in Batches, NEW c \in Batches, NEW m \in ModelsOf(b), m \in ModelsOf(c),
           NEW f \in Features, c[f] = b[f] \/ (c[f] > b[f] /\ b[f] >= m.high[f])
    PROVE  /\ Term(m, b, f) \in Int /\ Term(m, c, f) \in Int
           /\ Term(m, b, f) <= Term(m, c, f)
           /\ Outside(m, b, f) <= Outside(m, c, f)
  <1>1. /\ m.weight[f] \in Int /\ m.low[f] \in Nat /\ m.high[f] \in Nat
        /\ m.low[f] <= m.high[f] /\ b[f] \in Nat /\ c[f] \in Nat
    BY ModelFacts
  <1>2. /\ Clip(m, b, f) \in Int /\ Above(m, b, f) \in Nat /\ Slope(m, f) \in Nat
        /\ Clip(m, c, f) \in Int /\ Above(m, c, f) \in Nat
    BY <1>1 DEF Clip, Above, Slope
  <1>3. \A x, y \in Int : x * y \in Int
    OBVIOUS
  <1>4. Term(m, b, f) \in Int /\ Term(m, c, f) \in Int
    BY <1>1, <1>2, <1>3 DEF Term
  <1>5. CASE c[f] = b[f]
    <2>1. Clip(m, b, f) = Clip(m, c, f) /\ Above(m, b, f) = Above(m, c, f)
      BY <1>5 DEF Clip, Above
    <2>2. Term(m, b, f) = Term(m, c, f)
      BY <2>1 DEF Term
    <2>3. Outside(m, b, f) = Outside(m, c, f)
      BY <1>5, <2>1 DEF Outside
    <2>4. Outside(m, b, f) \in Nat
      BY DistanceFacts
    <2> QED BY <1>4, <2>2, <2>3, <2>4
  <1>6. CASE c[f] > b[f] /\ b[f] >= m.high[f]
    <2>1. Clip(m, b, f) = m.high[f] /\ Clip(m, c, f) = m.high[f]
      BY <1>1, <1>6 DEF Clip
    <2>2. Above(m, b, f) <= Above(m, c, f)
      BY <1>1, <1>6 DEF Above
    <2>3. Outside(m, b, f) = b[f] - m.high[f] /\ Outside(m, c, f) = c[f] - m.high[f]
      BY <1>1, <1>6, <2>1 DEF Outside
    <2>4. Slope(m, f) * Above(m, b, f) <= Slope(m, f) * Above(m, c, f)
      <3>1. \A s, x, y \in Nat : x <= y => s * x <= s * y
        OBVIOUS
      <3> QED BY <1>2, <2>2, <3>1
    <2> DEFINE w == m.weight[f] * m.high[f]
               x == Slope(m, f) * Above(m, b, f)
               y == Slope(m, f) * Above(m, c, f)
    <2>5. w \in Int /\ x \in Int /\ y \in Int
      BY <1>1, <1>2, <1>3
    <2>6. Term(m, b, f) = w + x /\ Term(m, c, f) = w + y
      BY <2>1 DEF Term
    <2>7. x <= y
      BY <2>4
    <2> HIDE DEF w, x, y
    <2>8. Term(m, b, f) <= Term(m, c, f)
      BY <2>5, <2>6, <2>7
    <2>9. Outside(m, b, f) <= Outside(m, c, f)
      BY <1>1, <1>6, <2>3
    <2> QED BY <1>4, <2>8, <2>9
  <1> QED BY <1>5, <1>6

LEMMA LargerPredictsLonger ==
    ASSUME windows \in [Kinds -> Seq(Int)], NEW b \in Batches, NEW c \in Batches,
           Larger(b, c), IsValid(Predict(windows, b))
    PROVE  /\ IsValid(Predict(windows, c))
           /\ Predict(windows, b).conservative <= Predict(windows, c).conservative
  <1> DEFINE m == CHOOSE m \in ModelsOf(b) : TRUE
             k == ClassifyBatch(b)
             center == Center(k, windows[k])
             margin == Upper(k, windows[k])
             expected(x) == Base(m, x) + center
             upper(x) == Base(m, x) + margin + KappaOod * OodDistance(m, x)
  <1>1. ModelsOf(b) # {}
    BY DEF Predict, IsValid, Invalid
  <1>2. ModelsOf(c) = ModelsOf(b) /\ ClassifyBatch(c) = k
    BY DEF Larger
  <1>3. /\ m \in ModelsOf(b) /\ k \in Kinds
        /\ Base(m, b) \in Int /\ expected(b) \in Int /\ upper(b) \in Int
        /\ IsValid(Predict(windows, b)) <=> Base(m, b) > 0 /\ expected(b) > 0
        /\ IsValid(Predict(windows, b)) =>
              Predict(windows, b).conservative
                = IF upper(b) > expected(b) THEN upper(b) ELSE expected(b)
    BY <1>1, ValidPrediction
  <1>4. /\ m \in ModelsOf(c)
        /\ Base(m, c) \in Int /\ expected(c) \in Int /\ upper(c) \in Int
        /\ IsValid(Predict(windows, c)) <=> Base(m, c) > 0 /\ expected(c) > 0
        /\ IsValid(Predict(windows, c)) =>
              Predict(windows, c).conservative
                = IF upper(c) > expected(c) THEN upper(c) ELSE expected(c)
    BY <1>1, <1>2, ValidPrediction
  <1>5. \A f \in Features : c[f] = b[f] \/ (c[f] > b[f] /\ b[f] >= m.high[f])
    BY <1>3 DEF Larger
  <1> HIDE DEF m, k, center, margin
  <1>6. \A f \in Features : /\ Term(m, b, f) \in Int /\ Term(m, c, f) \in Int
                            /\ Term(m, b, f) <= Term(m, c, f)
                            /\ Outside(m, b, f) <= Outside(m, c, f)
    BY <1>3, <1>4, <1>5, TermGrows
  <1>7. Base(m, b) <= Base(m, c)
    <2>1. m.intercept \in Int
      BY <1>3, ModelFacts
    <2> QED BY <1>6, <2>1 DEF Base, Features
  <1>8. /\ OodDistance(m, b) \in Nat /\ OodDistance(m, c) \in Nat
        /\ OodDistance(m, b) <= OodDistance(m, c)
    <2> DEFINE out(x, f) == Outside(m, x, f)
    <2>1. /\ \A f \in Features : out(b, f) \in Nat /\ out(c, f) \in Nat /\ out(b, f) <= out(c, f)
          /\ OodDistance(m, b) = IF out(b, "decodes") >= out(b, "tokens")
                                 THEN out(b, "decodes") ELSE out(b, "tokens")
          /\ OodDistance(m, c) = IF out(c, "decodes") >= out(c, "tokens")
                                 THEN out(c, "decodes") ELSE out(c, "tokens")
      BY <1>3, <1>4, <1>6, DistanceFacts
    <2> HIDE DEF out
    <2> QED BY <2>1 DEF Features
  <1>9. /\ KappaOod * OodDistance(m, b) \in Int /\ KappaOod * OodDistance(m, c) \in Int
        /\ KappaOod * OodDistance(m, b) <= KappaOod * OodDistance(m, c)
    <2>1. KappaOod \in Nat
      BY PredictorAssumption
    <2>2. \A s, x, y \in Nat : s * x \in Int /\ (x <= y => s * x <= s * y)
      OBVIOUS
    <2> QED BY <1>8, <2>1, <2>2
  <1>10. center \in Int /\ margin \in Int
    <2>1. k \in Kinds /\ windows[k] \in Seq(Int)
      BY <1>3
    <2> QED BY <2>1, CenterAndUpper DEF center, margin
  <1>11. expected(b) <= expected(c) /\ upper(b) <= upper(c)
    <2> DEFINE x == KappaOod * OodDistance(m, b)
               y == KappaOod * OodDistance(m, c)
    <2>1. x \in Int /\ y \in Int /\ x <= y
      BY <1>9
    <2> HIDE DEF x, y
    <2>2. /\ expected(b) = Base(m, b) + center /\ expected(c) = Base(m, c) + center
          /\ upper(b) = Base(m, b) + margin + x /\ upper(c) = Base(m, c) + margin + y
      BY DEF x, y
    <2> HIDE DEF expected, upper
    <2> QED BY <1>3, <1>4, <1>7, <1>10, <2>1, <2>2
  <1> HIDE DEF expected, upper
  <1>12. IsValid(Predict(windows, c))
    BY <1>3, <1>4, <1>7, <1>11
  <1> QED BY <1>3, <1>4, <1>11, <1>12

(* Whatever the windows hold, the conservative duration covers the quantile. *)
LEMMA PredictionCovers ==
    ASSUME windows \in [Kinds -> Seq(Int)], NEW b \in Batches, IsValid(Predict(windows, b))
    PROVE  LET p == Predict(windows, b)
               k == ClassifyBatch(b)
               covered == {i \in DOMAIN windows[k] : p.base + windows[k][i] <= p.conservative}
           IN /\ 0 < p.expected /\ p.expected <= p.conservative
              /\ IsWarm(k, windows[k]) =>
                    100 * Cardinality(covered) >= UpperPercent * Len(windows[k])
  <1> DEFINE p == Predict(windows, b)
             m == CHOOSE m \in ModelsOf(b) : TRUE
             k == ClassifyBatch(b)
             window == windows[k]
             covered == {i \in DOMAIN window : p.base + window[i] <= p.conservative}
             margin == Upper(k, window)
             distance == KappaOod * OodDistance(m, b)
             expected == Base(m, b) + Center(k, window)
             upper == Base(m, b) + margin + distance
  <1>1. ModelsOf(b) # {}
    BY DEF Predict, IsValid, Invalid
  <1>2. /\ m \in ModelsOf(b) /\ k \in Kinds
        /\ Base(m, b) \in Int /\ expected \in Int /\ upper \in Int
        /\ expected > 0
        /\ p.base = Base(m, b) /\ p.expected = expected
        /\ p.conservative = IF upper > expected THEN upper ELSE expected
    BY <1>1, ValidPrediction
  <1>3. window \in Seq(Int)
    BY <1>2
  <1> HIDE DEF m, k, window, p
  <1>4. margin \in Int /\ distance \in Nat
    <2>1. OodDistance(m, b) \in Nat /\ KappaOod \in Nat
      BY <1>2, DistanceFacts, PredictorAssumption
    <2>2. \A x, y \in Nat : x * y \in Nat
      OBVIOUS
    <2>3. distance \in Nat
      BY <2>1, <2>2
    <2> QED BY <1>2, <1>3, <2>3, CenterAndUpper
  <1> HIDE DEF margin, distance
  <1>5. p.conservative \in Int /\ p.conservative >= upper /\ p.conservative >= expected
    <2> HIDE DEF expected, upper
    <2> QED BY <1>2
  <1>6. p.conservative >= Base(m, b) + margin
    <2>1. upper >= Base(m, b) + margin
      BY <1>2, <1>4
    <2> HIDE DEF upper, expected
    <2> QED BY <1>2, <1>4, <1>5, <2>1
  <1>7. UpTo(window, margin) \in SUBSET covered
    <2>1. ASSUME NEW i \in DOMAIN window, window[i] <= margin
          PROVE  p.base + window[i] <= p.conservative
      <3>1. window[i] \in Int
        BY <1>3
      <3> HIDE DEF upper, expected
      <3> QED BY <1>2, <1>4, <1>5, <1>6, <2>1, <3>1
    <2> QED BY <2>1 DEF UpTo
  <1>8. IsWarm(k, window) => 100 * Cardinality(covered) >= UpperPercent * Len(window)
    <2> SUFFICES ASSUME IsWarm(k, window)
                 PROVE  100 * Cardinality(covered) >= UpperPercent * Len(window)
      OBVIOUS
    <2>1. 100 * Cardinality(UpTo(window, margin)) >= UpperPercent * Len(window)
      BY <1>2, <1>3, CenterAndUpper DEF margin
    <2>2. covered \in SUBSET DOMAIN window
      OBVIOUS
    <2> HIDE DEF covered
    <2>3. IsFiniteSet(covered) /\ Cardinality(covered) \in Nat
      BY <1>3, <2>2, CountsOfWindow
    <2>4. /\ Cardinality(UpTo(window, margin)) <= Cardinality(covered)
          /\ Cardinality(UpTo(window, margin)) \in Nat
      <3>1. IsFiniteSet(UpTo(window, margin))
        BY <1>7, <2>3, FS_Subset
      <3> QED BY <1>7, <2>3, <3>1, FS_Subset, FS_CardinalityType
    <2>5. UpperPercent * Len(window) \in Int
      BY <1>3, PredictorAssumption
    <2> DEFINE u == UpperPercent * Len(window)
    <2>6. u \in Int /\ 100 * Cardinality(UpTo(window, margin)) >= u
      BY <2>1, <2>5
    <2> HIDE DEF u
    <2>7. 100 * Cardinality(covered) >= u
      BY <2>3, <2>4, <2>6
    <2> QED BY <2>7 DEF u
  <1>9. 0 < p.expected /\ p.expected <= p.conservative
    <2> HIDE DEF expected, upper
    <2> QED BY <1>2, <1>5
  <1> HIDE DEF covered
  <1> QED BY <1>8, <1>9 DEF p, k, window, covered

(* docs/decisions.md:42: whatever the model, the window and the quantile, at  *)
(* least that share of a warm window's residuals end within the conservative *)
(* duration of every batch that predict_with_audit accepts.                  *)
THEOREM ConservativeIsConservative == Spec => []ConservativeCovers
  <1>1. PredictorInv => ConservativeCovers
    <2> SUFFICES ASSUME PredictorInv PROVE ConservativeCovers
      OBVIOUS
    <2>1. windows \in [Kinds -> Seq(Int)]
      BY DEF PredictorInv, Types
    <2> QED BY <2>1, PredictionCovers DEF ConservativeCovers
  <1> QED BY <1>1, PredictorInvariant, PTL

(* predictor.py:247: for every model and all settings, a batch that is larger *)
(* where the model's box has ended is never predicted to be shorter.         *)
THEOREM ExtrapolationNeverShortens == Spec => []ExtrapolationIsMonotone
  <1>1. PredictorInv => ExtrapolationIsMonotone
    <2> SUFFICES ASSUME PredictorInv PROVE ExtrapolationIsMonotone
      OBVIOUS
    <2>1. windows \in [Kinds -> Seq(Int)]
      BY DEF PredictorInv, Types
    <2>2. \A pair \in LargerPairs : pair[1] \in Batches /\ pair[2] \in Batches
                                    /\ Larger(pair[1], pair[2])
      BY DEF LargerPairs
    <2>3. ASSUME NEW pair \in LargerPairs, IsValid(Predict(windows, pair[1]))
          PROVE  /\ IsValid(Predict(windows, pair[2]))
                 /\ Predict(windows, pair[1]).conservative
                      <= Predict(windows, pair[2]).conservative
      BY <2>1, <2>2, <2>3, LargerPredictsLonger
    <2> QED BY <2>3 DEF ExtrapolationIsMonotone
  <1> QED BY <1>1, PredictorInvariant, PTL


-----------------------------------------------------------------------------
(* The budget resolver: the shadow plans of its sweep.                       *)
LEMMA HoldableIsSnapshot ==
    ASSUME NEW s, Holdable(s)
    PROVE  IsSnapshot(s)
  BY ConcatFacts DEF Holdable, IsSnapshot

LEMMA ContinuationFacts ==
    ASSUME NEW s, IsSnapshot(s)
    PROVE  ContinuationOrder(s) \in Seq(Requests)
  <1> DEFINE all == s.running \o s.waiting
             some == Keep(all, Prefills(s))
             key == [r \in Prefills(s) |-> IF r \in RunningSet(s) THEN 0 ELSE 1]
  <1>1. all \in Seq(Requests) /\ IsInjective(all)
    BY ConcatFacts DEF IsSnapshot
  <1>2. ContinuationOrder(s) = InOrder(some, key)
    BY DEF ContinuationOrder, SortBy
  <1> HIDE DEF all
  <1>3. /\ some \in Seq(Requests) /\ IsInjective(some)
        /\ ToSet(some) = ToSet(all) \cap Prefills(s)
    BY <1>1, KeepFacts
  <1> HIDE DEF some
  <1>4. \A r \in ToSet(some) : key[r] \in Int
    BY <1>3
  <1> HIDE DEF key
  <1> QED BY <1>2, <1>3, <1>4, InOrderFacts

(* A turn of _shadow_fill adds nothing, or no more tokens than the budget    *)
(* has left.                                                                 *)
IsShadowTurn(budget, items, r, next) ==
    \/ next = items
    \/ \E k \in Nat \ {0} : /\ k <= budget - PrefillTokens(Work(items, {}))
                            /\ next = Append(items, <<r, k>>)

LEMMA ShadowStepFacts ==
    ASSUME NEW s, IsSnapshot(s), NEW budget \in Int, NEW items \in Seq(Items), NEW r \in Requests
    PROVE  IsShadowTurn(budget, items, r, ShadowStep(s, budget, items, r))
  <1> DEFINE done == PrefillTokens(Work(items, {}))
             available == Smaller(Remaining(s, r), budget - done)
  <1>1. done \in Nat
    <2>1. Work(items, {}) \in Plans
      BY DEF Work, Plans
    <2> QED BY <2>1, TokensFacts
  <1>2. Remaining(s, r) \in Int
    BY SnapshotFacts
  <1> HIDE DEF done
  <1>3. available \in Int /\ available <= budget - done
    BY <1>1, <1>2 DEF Smaller
  <1> HIDE DEF available
  <1>4. \/ ShadowStep(s, budget, items, r) = items
        \/ ~(available <= 0) /\ ShadowStep(s, budget, items, r) = Append(items, <<r, available>>)
    BY DEF ShadowStep, done, available
  <1>5. ~(available <= 0) => available \in Nat \ {0}
    BY <1>3
  <1> QED BY <1>3, <1>4, <1>5 DEF done, IsShadowTurn

LEMMA ShadowTrace ==
    ASSUME NEW s, IsSnapshot(s), NEW budget \in Int
    PROVE  \E t : /\ t[0] = <<>> /\ t[Len(ContinuationOrder(s))] = ShadowFill(s, budget)
                  /\ \A i \in 1..Len(ContinuationOrder(s)) :
                        t[i] = ShadowStep(s, budget, t[i - 1], ContinuationOrder(s)[i])
  <1> DEFINE q == ContinuationOrder(s)
             n == Len(q)
             A == Seq(Items)
             step == [p \in A \X (1..n) |-> ShadowStep(s, budget, p[1], q[p[2]])]
             Body(iter) == [d \in SUBSET (1..n) |->
                              IF d = {} THEN <<>>
                              ELSE ShadowStep(s, budget, iter[d \ {Max(d)}], q[Max(d)])]
             it == CHOOSE iter : iter = Body(iter)
  <1>1. q \in Seq(Requests) /\ n \in Nat /\ DOMAIN q = 1..n /\ <<>> \in A
    BY ContinuationFacts, EmptySeq
  <1>2. \A a \in A, i \in 1..n : step[<<a, i>>] = ShadowStep(s, budget, a, q[i]) /\ step[<<a, i>>] \in A
    <2>1. ASSUME NEW a \in A, NEW r \in Requests PROVE ShadowStep(s, budget, a, r) \in A
      <3>1. \A k \in Nat \ {0} : Append(a, <<r, k>>) \in A
        <4>1. \A k \in Nat \ {0} : <<r, k>> \in Items
          BY DEF Items
        <4> QED BY <4>1, AppendProperties
      <3>2. IsShadowTurn(budget, a, r, ShadowStep(s, budget, a, r))
        BY ShadowStepFacts
      <3>3. \/ ShadowStep(s, budget, a, r) = a
            \/ \E k \in Nat \ {0} : ShadowStep(s, budget, a, r) = Append(a, <<r, k>>)
        BY <3>2 DEF IsShadowTurn
      <3> HIDE DEF A
      <3> QED BY <3>1, <3>3
    <2>2. \A i \in 1..n : q[i] \in Requests
      BY <1>1
    <2> HIDE DEF A, n, q
    <2> QED BY <2>1, <2>2
  <1>3. PICK g \in [SUBSET (1..n) -> A] : Unfolds(g, 1..n, <<>>, Largest(n), step)
    <2> HIDE DEF n, A, step, q
    <2> QED BY <1>1, <1>2, LoopExists
  <1>4. g = Body(g)
    <2>1. ASSUME NEW d \in SUBSET (1..n) PROVE g[d] = Body(g)[d]
      <3>1. Largest(n)[d] = Max(d) /\ (d # {} => Max(d) \in d)
        BY <1>1, Intervals DEF Largest
      <3> HIDE DEF step, A, n, q
      <3> QED BY <1>2, <1>3, <3>1 DEF Unfolds, UnfoldsAt
    <2>2. Body(g) = [d \in SUBSET (1..n) |-> Body(g)[d]] /\ g = [d \in SUBSET (1..n) |-> g[d]]
      OBVIOUS
    <2> HIDE DEF Body
    <2> QED BY <2>1, <2>2
  <1>5. it = Body(it)
    <2> HIDE DEF Body
    <2> QED BY <1>4
  <1>6. it[1..n] = ShadowFill(s, budget)
    BY <1>1 DEF ShadowFill, FoldLeft, MapThenFoldSet
  <1> DEFINE t == [i \in 0..n |-> it[1..i]]
  <1>7. /\ t[0] = <<>> /\ t[n] = it[1..n]
        /\ \A i \in 1..n : t[i] = ShadowStep(s, budget, t[i - 1], q[i])
    <2> HIDE DEF it, n, q
    <2>1. t[0] = <<>>
      <3>1. t[0] = it[{}]
        BY <1>1, Intervals
      <3> QED BY <1>5, <3>1
    <2>2. ASSUME NEW i \in 1..n PROVE t[i] = ShadowStep(s, budget, t[i - 1], q[i])
      <3>1. t[i] = it[1..i] /\ t[i - 1] = it[1..(i - 1)]
        BY <1>1
      <3>2. /\ 1..i \in SUBSET (1..n) /\ 1..i # {}
            /\ Max(1..i) = i /\ (1..i) \ {i} = 1..(i - 1)
        BY <1>1, Intervals
      <3>3. it[1..i] = ShadowStep(s, budget, it[(1..i) \ {Max(1..i)}], q[Max(1..i)])
        BY <1>5, <3>2
      <3> HIDE DEF t
      <3> QED BY <3>1, <3>2, <3>3
    <2>3. t[n] = it[1..n]
      BY <1>1
    <2> QED BY <2>1, <2>2, <2>3
  <1> QED BY <1>6, <1>7

(* What a shadow plan serves is within its budget. *)
LEMMA ShadowFacts ==
    ASSUME NEW s, IsSnapshot(s), NEW budget \in Nat
    PROVE  Served(ShadowFill(s, budget)) \in 0..budget
  <1> DEFINE q == ContinuationOrder(s)
             n == Len(q)
             OK(items) == items \in Seq(Items) /\ PrefillTokens(Work(items, {})) \in 0..budget
  <1>1. q \in Seq(Requests) /\ n \in Nat
    BY ContinuationFacts
  <1>2. PICK t : /\ t[0] = <<>> /\ t[n] = ShadowFill(s, budget)
                 /\ \A i \in 1..n : t[i] = ShadowStep(s, budget, t[i - 1], q[i])
    BY ShadowTrace
  <1> DEFINE T == {i \in Nat : i <= n => OK(t[i])}
  <1> HIDE DEF q, n
  <1>3. 0 \in T
    <2>1. PrefillTokens(Work(<<>>, {})) = 0
      BY NoWorkFacts DEF NoWork
    <2>2. <<>> \in Seq(Items)
      BY EmptySeq
    <2>3. 0 \in 0..budget
      OBVIOUS
    <2>4. OK(t[0])
      BY <1>2, <2>1, <2>2, <2>3
    <2> QED BY <2>4
  <1>4. ASSUME NEW i \in Nat, i \in T PROVE i + 1 \in T
    <2>1. SUFFICES ASSUME i + 1 <= n PROVE OK(t[i + 1])
      OBVIOUS
    <2>2. OK(t[i]) /\ i + 1 \in 1..n /\ t[i + 1] = ShadowStep(s, budget, t[i], q[i + 1])
      BY <1>1, <1>2, <1>4, <2>1
    <2> DEFINE r == q[i + 1]
    <2>3. r \in Requests /\ t[i + 1] = ShadowStep(s, budget, t[i], r)
      BY <1>1, <2>2 DEF n
    <2> HIDE DEF r
    <2>4. IsShadowTurn(budget, t[i], r, t[i + 1])
      BY <2>2, <2>3, ShadowStepFacts
    <2>5. ASSUME NEW k \in Nat \ {0}, k <= budget - PrefillTokens(Work(t[i], {})),
                 t[i + 1] = Append(t[i], <<r, k>>)
          PROVE  OK(t[i + 1])
      <3> DEFINE w == Work(t[i], {})
      <3>1. w \in Plans /\ w.prefill = t[i] /\ <<r, k>> \in Items
        BY <2>2, <2>3 DEF Work, Plans, Items
      <3>2. t[i + 1] \in Seq(Items)
        BY <2>2, <2>5, <3>1, AppendProperties
      <3>3. PrefillTokens(w) \in 0..budget /\ k <= budget - PrefillTokens(w)
        BY <2>2, <2>5
      <3> HIDE DEF w
      <3>4. PrefillTokens(Work(Append(w.prefill, <<r, k>>), {})) = PrefillTokens(w) + <<r, k>>[2]
        BY <3>1, AppendTokens
      <3>5. PrefillTokens(Work(t[i + 1], {})) = PrefillTokens(w) + k
        BY <2>5, <3>1, <3>4
      <3>6. PrefillTokens(Work(t[i + 1], {})) \in 0..budget
        BY <3>3, <3>5
      <3> QED BY <3>2, <3>6
    <2> HIDE DEF OK
    <2> QED BY <2>2, <2>4, <2>5 DEF IsShadowTurn
  <1>5. n \in T
    <2>1. Nat \subseteq T
      <3> HIDE DEF T
      <3> QED BY <1>3, <1>4, InductionOnNat
    <2> QED BY <1>1, <2>1
  <1> QED BY <1>1, <1>2, <1>5 DEF Served

(* No budget of the sweep, and no plan of it, exceeds the ceiling. *)
LEMMA SweepFacts ==
    ASSUME NEW s, IsSnapshot(s)
    PROVE  /\ MaxExecutablePrefill(s) \in Nat
           /\ \A w \in ShadowPlans(s) : Served(w) \in 0..MaxExecutablePrefill(s)
  <1> DEFINE room == Smaller(Backlog(s), TokenBudget - Cardinality(Decodes(s)))
             ceiling == MaxExecutablePrefill(s)
  <1>1. Backlog(s) \in Nat
    <2> DEFINE f == [r \in Prefills(s) |-> Remaining(s, r)]
    <2>1. IsFiniteSet(Prefills(s)) /\ DOMAIN f = Prefills(s)
      BY SnapshotFacts, BatchAssumption, FS_Subset
    <2>2. \A r \in Prefills(s) : f[r] \in Nat
      BY SnapshotFacts
    <2>3. Backlog(s) = SumFunctionOnSet(f, Prefills(s))
      BY <2>1 DEF Backlog, SumFunction
    <2> HIDE DEF f
    <2> QED BY <2>1, <2>2, <2>3, SumNat
  <1>2. Cardinality(Decodes(s)) \in Nat
    BY SnapshotFacts, BatchAssumption, FS_Subset, FS_CardinalityType
  <1>3. room \in Int
    BY <1>1, <1>2, BatchAssumption DEF Smaller
  <1>4. ceiling = Max({0, room})
    BY DEF MaxExecutablePrefill
  <1> HIDE DEF room, ceiling
  <1>5. ceiling \in Nat
    BY <1>3, <1>4, LargerOfTwo
  <1>6. \A b \in ExecutableGrid(ceiling) : b \in 0..ceiling
    BY <1>5, ResolverAssumption DEF ExecutableGrid, Smaller
  <1>7. ASSUME NEW b \in 0..ceiling PROVE Served(ShadowFill(s, b)) \in 0..ceiling
    <2>1. b \in Nat /\ Served(ShadowFill(s, b)) \in 0..b
      BY <1>5, ShadowFacts
    <2> QED BY <1>5, <2>1
  <1>8. \A w \in ShadowPlans(s) : Served(w) \in 0..ceiling
    BY <1>6, <1>7 DEF ShadowPlans, ceiling
  <1> QED BY <1>5, <1>8 DEF ceiling


-----------------------------------------------------------------------------
(* What one resolution is.                                                   *)
LEMMA MinFacts ==
    ASSUME NEW S \in SUBSET Nat, S # {}
    PROVE  Min(S) \in S /\ \A x \in S : Min(S) <= x
  BY LeastNumber DEF Min

LEMMA LiveFacts ==
    ASSUME NEW s, NEW slack \in [Decodes(s) -> Slacks]
    PROVE  LiveSlacks(s, slack) \in SUBSET Nat
  <1>1. ASSUME NEW x \in Decodes(s), slack[x] # Unset, slack[x] > 0 PROVE slack[x] \in Nat
    <2>1. slack[x] \in Int
      BY <1>1, QueriesAssumption
    <2> QED BY <1>1, <2>1
  <1> QED BY <1>1 DEF LiveSlacks

(* The target is a duration, and a closer deadline leaves no longer a one. *)
LEMMA TargetFacts ==
    ASSUME NEW a \in SUBSET Nat, a # {}, NEW b \in SUBSET Nat, b # {}, Min(a) <= Min(b)
    PROVE  /\ TargetDuration(a) \in Nat /\ TargetDuration(b) \in Nat
           /\ TargetDuration(a) <= TargetDuration(b)
  <1> DEFINE m == Min(a)
             n == Min(b)
  <1>1. m \in Nat /\ n \in Nat /\ m <= n
    <2>1. m \in a /\ n \in b
      BY MinFacts
    <2> HIDE DEF m, n
    <2>2. m \in Nat /\ n \in Nat
      BY <2>1
    <2> QED BY <2>2 DEF m, n
  <1>2. /\ TargetDuration(a) = Max({0, m - SafetyMargin})
        /\ TargetDuration(b) = Max({0, n - SafetyMargin})
    BY DEF TargetDuration
  <1> HIDE DEF m, n
  <1>3. SafetyMargin \in Nat
    BY ResolverAssumption
  <1>4. m - SafetyMargin \in Int /\ n - SafetyMargin \in Int
    BY <1>1, <1>3
  <1>5. /\ TargetDuration(a) = IF 0 >= m - SafetyMargin THEN 0 ELSE m - SafetyMargin
        /\ TargetDuration(b) = IF 0 >= n - SafetyMargin THEN 0 ELSE n - SafetyMargin
    BY <1>2, <1>4, LargerOfTwo
  <1> QED BY <1>1, <1>3, <1>5

(* What the sweep's plans that end within a target serve. *)
Ending(s, target, answer) ==
    {Served(w) : w \in {v \in ShadowPlans(s) : IsFeasible(answer[v], target)}}

LEMMA EndingFacts ==
    ASSUME NEW s, IsSnapshot(s), NEW answer, NEW target, Ending(s, target, answer) # {}
    PROVE  /\ Max(Ending(s, target, answer)) \in Ending(s, target, answer)
           /\ Max(Ending(s, target, answer)) \in 0..MaxExecutablePrefill(s)
           /\ \A n \in Ending(s, target, answer) : n <= Max(Ending(s, target, answer))
  <1> DEFINE ceiling == MaxExecutablePrefill(s)
             S == Ending(s, target, answer)
  <1>1. ceiling \in Nat /\ S \in SUBSET (0..ceiling) /\ S # {}
    BY SweepFacts DEF Ending
  <1> HIDE DEF ceiling, S
  <1>2. Max(S) \in S /\ \A n \in S : n <= Max(S)
    BY <1>1, MaxOfIndices
  <1> QED BY <1>1, <1>2 DEF ceiling, S

LEMMA EndsWithin ==
    ASSUME NEW q \in Answers, NEW target \in Nat
    PROVE  IsFeasible(q, target) <=> q.expected # Unset /\ q.expected \in 1..target
  <1>1. q.expected # Unset => q.expected \in Nat
    BY QueriesAssumption
  <1> DEFINE n == q.expected
  <1>2. CASE n = Unset
    BY <1>2 DEF IsFeasible
  <1>3. CASE n # Unset
    <2>1. IsFeasible(q, target) <=> n > 0 /\ n <= target
      BY <1>3 DEF IsFeasible
    <2>2. n \in Nat
      BY <1>1, <1>3
    <2> HIDE DEF n
    <2>3. n \in 1..target <=> n > 0 /\ n <= target
      BY <2>2
    <2> QED BY <1>3, <2>1, <2>3 DEF n
  <1> QED BY <1>2, <1>3

(* A budget is what a plan of the sweep serves: one that ends in time while   *)
(* none that serves more does.  OK says that the whole sweep is in support.  *)
IsLargest(s, answer, x) ==
    x.status \in {"INVERTED_OK", "INVERTED_OOD"} =>
        /\ \E w \in ShadowPlans(s) :
              Served(w) = x.base /\ answer[w].expected # Unset /\ answer[w].expected \in 1..x.target
        /\ \A w \in ShadowPlans(s) : Served(w) > x.base =>
              ~(answer[w].expected # Unset /\ answer[w].expected \in 1..x.target)
        /\ x.base <= x.ceiling
        /\ x.status = "INVERTED_OK" => \A w \in ShadowPlans(s) : answer[w].in_support

IsResolution(s, answer, x) ==
    /\ x.base \in 0..MaxExecutablePrefill(s)
    /\ x.status \in Statuses
    /\ IsLargest(s, answer, x)

LEMMA InvertedFacts ==
    ASSUME NEW s, IsSnapshot(s), NEW target \in Nat, NEW answer \in [ShadowPlans(s) -> Answers]
    PROVE  /\ IsResolution(s, answer, Inverted(s, target, answer))
           /\ Inverted(s, target, answer).base =
                 IF Ending(s, target, answer) = {} THEN 0 ELSE Max(Ending(s, target, answer))
  <1> DEFINE x == Inverted(s, target, answer)
             ceiling == MaxExecutablePrefill(s)
             S == Ending(s, target, answer)
  <1>1. ceiling \in Nat
    BY SweepFacts
  <1>2. /\ S = {} => x.base = 0 /\ x.status = "NO_FEASIBLE_BUDGET"
        /\ S # {} => /\ x.base = Max(S) /\ x.status \in {"INVERTED_OK", "INVERTED_OOD"}
                     /\ x.ceiling = ceiling /\ x.target = target
    <2>1. S = {} => x.base = 0 /\ x.status = "NO_FEASIBLE_BUDGET"
      BY DEF Inverted, Resolution, Ending
    <2>2. S # {} => /\ x.base = Max(S) /\ x.status \in {"INVERTED_OK", "INVERTED_OOD"}
                    /\ x.ceiling = ceiling /\ x.target = target
      BY DEF Inverted, Resolution, Ending
    <2> QED BY <2>1, <2>2
  <1>3. S # {} /\ x.status = "INVERTED_OK" => Supported(s, answer) = ExecutableGrid(ceiling)
    BY DEF Inverted, Resolution, Ending
  <1> HIDE DEF x
  <1>4. CASE S = {}
    <2>1. x.base \in 0..ceiling /\ x.status \in Statuses
      BY <1>1, <1>2, <1>4 DEF Statuses
    <2>2. x.status \notin {"INVERTED_OK", "INVERTED_OOD"}
      BY <1>2, <1>4
    <2> QED BY <1>2, <1>4, <2>1, <2>2 DEF x, IsResolution, IsLargest
  <1>5. CASE S # {}
    <2>1. /\ x.base \in S /\ x.base \in 0..ceiling /\ \A n \in S : n <= x.base
          /\ x.status \in Statuses
      BY <1>2, <1>5, EndingFacts DEF Statuses
    <2>2. \A w \in ShadowPlans(s) :
             IsFeasible(answer[w], target) <=> answer[w].expected # Unset /\ answer[w].expected \in 1..target
      BY EndsWithin
    <2>3. \E w \in ShadowPlans(s) :
             Served(w) = x.base /\ answer[w].expected # Unset /\ answer[w].expected \in 1..x.target
      <3>1. PICK w \in ShadowPlans(s) : Served(w) = x.base /\ IsFeasible(answer[w], target)
        BY <2>1 DEF Ending
      <3> QED BY <1>2, <1>5, <2>2, <3>1
    <2>4. ASSUME NEW w \in ShadowPlans(s), Served(w) > x.base,
                 answer[w].expected # Unset, answer[w].expected \in 1..x.target
          PROVE  FALSE
      <3>1. IsFeasible(answer[w], target)
        BY <1>2, <1>5, <2>2, <2>4
      <3>2. Served(w) \in S
        BY <3>1 DEF Ending
      <3>3. Served(w) <= x.base /\ Served(w) \in 0..ceiling
        BY <2>1, <3>2, SweepFacts
      <3> QED BY <1>1, <2>1, <2>4, <3>3
    <2>5. x.base <= x.ceiling
      BY <1>1, <1>2, <1>5, <2>1
    <2>6. ASSUME x.status = "INVERTED_OK", NEW w \in ShadowPlans(s) PROVE answer[w].in_support
      <3>1. PICK b \in ExecutableGrid(ceiling) : w = ShadowFill(s, b)
        BY DEF ShadowPlans
      <3>2. b \in Supported(s, answer)
        BY <1>5, <1>3, <2>6, <3>1
      <3> QED BY <3>1, <3>2 DEF Supported
    <2>7. IsLargest(s, answer, x)
      BY <2>3, <2>4, <2>5, <2>6 DEF IsLargest
    <2> QED BY <1>2, <1>5, <2>1, <2>7 DEF x, IsResolution
  <1> QED BY <1>4, <1>5

LEMMA ResolveFacts ==
    ASSUME NEW s, IsSnapshot(s), NEW answer \in [ShadowPlans(s) -> Answers],
           NEW slack \in [Decodes(s) -> Slacks], NEW complete \in BOOLEAN
    PROVE  IsResolution(s, answer, Resolve(s, slack, answer, complete))
  <1> DEFINE ceiling == MaxExecutablePrefill(s)
             live == LiveSlacks(s, slack)
             x == Resolve(s, slack, answer, complete)
  <1>1. ceiling \in Nat
    BY SweepFacts
  <1>2. ASSUME NEW y, y.base \in {0, ceiling},
               y.status \in Statuses \ {"INVERTED_OK", "INVERTED_OOD"}
        PROVE  IsResolution(s, answer, y)
    BY <1>1, <1>2 DEF IsResolution, IsLargest
  <1>3. CASE (Decodes(s) = {} /\ Backlog(s) = 0) \/ live = {}
    <2>1. /\ x.base \in {0, ceiling}
          /\ x.status \in {"NO_DECODE_NO_BACKLOG", "NO_DECODE_USE_MAX"}
      BY <1>3 DEF Resolve, Resolution
    <2> HIDE DEF x
    <2>2. x.status \in Statuses \ {"INVERTED_OK", "INVERTED_OOD"}
      BY <2>1 DEF Statuses
    <2> QED BY <1>2, <2>1, <2>2 DEF x
  <1>4. CASE ~(Decodes(s) = {} /\ Backlog(s) = 0) /\ live # {}
    <2> DEFINE target == TargetDuration(live)
    <2>1. x = Invert(s, target, answer, complete)
      BY <1>4 DEF Resolve
    <2>2. target \in Nat
      <3>1. live \in SUBSET Nat
        BY LiveFacts
      <3> HIDE DEF live
      <3>2. Min(live) <= Min(live)
        <4>1. Min(live) \in live
          BY <1>4, <3>1, MinFacts
        <4>2. Min(live) \in Nat
          BY <3>1, <4>1
        <4> DEFINE m == Min(live)
        <4> HIDE DEF m
        <4>3. m \in Nat => m <= m
          OBVIOUS
        <4> QED BY <4>2, <4>3 DEF m
      <3> QED BY <1>4, <3>1, <3>2, TargetFacts
    <2> HIDE DEF x, target
    <2>3. CASE ceiling # 0 /\ complete
      <3>1. x = Inverted(s, target, answer)
        BY <2>1, <2>3 DEF Invert
      <3> QED BY <2>2, <3>1, InvertedFacts DEF x
    <2>4. CASE ~(ceiling # 0 /\ complete)
      <3>1. x.base \in {0, ceiling} /\ x.status \in {"NO_FEASIBLE_BUDGET", "PREDICTOR_INVALID"}
        BY <2>1, <2>4 DEF Invert, Resolution
      <3>2. x.status \in Statuses \ {"INVERTED_OK", "INVERTED_OOD"}
        BY <3>1 DEF Statuses
      <3> QED BY <1>2, <3>1, <3>2 DEF x
    <2> QED BY <2>3, <2>4
  <1> QED BY <1>3, <1>4

-----------------------------------------------------------------------------
(* The frames resolved of a query. *)
FramesInv ==
    /\ Holdable(snap)
    /\ answers # Unset => answers \in [ShadowPlans(snap) -> Answers]
    /\ resolved # <<>> => answers # Unset
    /\ resolved \in Seq({Resolve(snap, slack, answers, complete) :
                            slack \in [Decodes(snap) -> Slacks], complete \in BOOLEAN})

LEMMA FramesInit == QueryInit => FramesInv
  <1> SUFFICES ASSUME QueryInit PROVE FramesInv
    OBVIOUS
  <1>1. /\ Holdable(snap) /\ resolved = <<>>
        /\ answers # Unset => answers \in [ShadowPlans(snap) -> Answers]
    BY DEF QueryInit
  <1> DEFINE R == {Resolve(snap, slack, answers, complete) :
                     slack \in [Decodes(snap) -> Slacks], complete \in BOOLEAN}
  <1>2. resolved \in Seq(R)
    <2> HIDE DEF R
    <2> QED BY <1>1, EmptySeq
  <1> QED BY <1>1, <1>2 DEF FramesInv

LEMMA FramesNext == ASSUME FramesInv, [QueryNext]_qvars PROVE FramesInv'
  <1> DEFINE R(s, answer) == {Resolve(s, slack, answer, complete) :
                                slack \in [Decodes(s) -> Slacks], complete \in BOOLEAN}
  <1>1. snap' = snap /\ answers' = answers
    BY DEF QueryNext, Ask, Frame, qvars
  <1>2. Holdable(snap)'
    <2>1. Holdable(snap)
      BY DEF FramesInv
    <2> QED BY <1>1, <2>1 DEF Holdable, Decodes, Prefilling
  <1>3. /\ ShadowPlans(snap)' = ShadowPlans(snap')
        /\ R(snap, answers)' = R(snap', answers')
    OBVIOUS
  <1>4. answers' # Unset => answers' \in [ShadowPlans(snap)' -> Answers]
    BY <1>1, <1>3 DEF FramesInv
  <1>5. CASE Frame
    <2>1. PICK x \in R(snap, answers) : resolved' = Append(resolved, x)
      BY <1>5 DEF Frame
    <2>2. resolved \in Seq(R(snap, answers))
      BY DEF FramesInv
    <2> HIDE DEF R
    <2>3. resolved' \in Seq(R(snap, answers))
      BY <2>1, <2>2, AppendProperties
    <2>4. answers' # Unset
      BY <1>1, <1>5 DEF Frame
    <2>5. resolved' \in Seq(R(snap, answers)')
      BY <1>1, <1>3, <2>3
    <2> QED BY <1>2, <1>4, <2>4, <2>5 DEF FramesInv, R
  <1>6. CASE Ask \/ UNCHANGED qvars
    <2>1. resolved' = resolved
      BY <1>6 DEF Ask, qvars
    <2>2. resolved \in Seq(R(snap, answers)) /\ (resolved # <<>> => answers # Unset)
      BY DEF FramesInv
    <2> HIDE DEF R
    <2>3. resolved' \in Seq(R(snap, answers)') /\ (resolved' # <<>> => answers' # Unset)
      BY <1>1, <1>3, <2>1, <2>2
    <2> QED BY <1>2, <1>4, <2>3 DEF FramesInv, R
  <1> QED BY <1>5, <1>6 DEF QueryNext

(* Every resolution of a query is one, and is the largest that ends in time. *)
LEMMA FramesFacts ==
    ASSUME FramesInv, resolved # <<>>
    PROVE  /\ answers \in [ShadowPlans(snap) -> Answers]
           /\ MaxExecutablePrefill(snap) \in Nat
           /\ Len(resolved) \in Nat \ {0} /\ DOMAIN resolved = 1..Len(resolved)
           /\ \A i \in DOMAIN resolved : IsResolution(snap, answers, resolved[i])
  <1> DEFINE R == {Resolve(snap, slack, answers, complete) :
                      slack \in [Decodes(snap) -> Slacks], complete \in BOOLEAN}
  <1>1. IsSnapshot(snap) /\ answers \in [ShadowPlans(snap) -> Answers] /\ resolved \in Seq(R)
    BY HoldableIsSnapshot DEF FramesInv
  <1>2. \A x \in R : IsResolution(snap, answers, x)
    BY <1>1, ResolveFacts
  <1> HIDE DEF R
  <1>3. Len(resolved) \in Nat /\ DOMAIN resolved = 1..Len(resolved) /\ Len(resolved) # 0
    BY <1>1, EmptySeq
  <1>4. \A i \in DOMAIN resolved : resolved[i] \in R
    BY <1>1
  <1> QED BY <1>1, <1>2, <1>3, <1>4, SweepFacts

LEMMA InversionExact == ASSUME FramesInv PROVE InversionIsExact
  <1> SUFFICES ASSUME resolved # <<>>, Last(resolved).status \in {"INVERTED_OK", "INVERTED_OOD"}
               PROVE  /\ \E w \in DOMAIN answers :
                            /\ Served(w) = Last(resolved).base
                            /\ answers[w].expected # Unset
                            /\ answers[w].expected \in 1..Last(resolved).target
                      /\ \A w \in DOMAIN answers : Served(w) > Last(resolved).base =>
                            ~(/\ answers[w].expected # Unset
                              /\ answers[w].expected \in 1..Last(resolved).target)
                      /\ Last(resolved).base <= Last(resolved).ceiling
                      /\ Last(resolved).status = "INVERTED_OK" =>
                            \A w \in DOMAIN answers :
                               /\ answers[w].expected # Unset
                               /\ answers[w].expected \in 1..Last(resolved).target
                               => answers[w].in_support
    BY DEF InversionIsExact
  <1> DEFINE x == Last(resolved)
  <1>1. IsResolution(snap, answers, x)
    <2>1. Len(resolved) \in DOMAIN resolved /\ x = resolved[Len(resolved)]
      BY FramesFacts DEF Last
    <2> HIDE DEF x
    <2> QED BY <2>1, FramesFacts
  <1>2. DOMAIN answers = ShadowPlans(snap)
    BY FramesFacts
  <1>3. x.status \in {"INVERTED_OK", "INVERTED_OOD"}
    OBVIOUS
  <1> HIDE DEF x
  <1>4. /\ \E w \in DOMAIN answers :
              Served(w) = x.base /\ answers[w].expected # Unset /\ answers[w].expected \in 1..x.target
        /\ \A w \in DOMAIN answers : Served(w) > x.base =>
              ~(answers[w].expected # Unset /\ answers[w].expected \in 1..x.target)
        /\ x.base <= x.ceiling
        /\ x.status = "INVERTED_OK" => \A w \in DOMAIN answers : answers[w].in_support
    BY <1>1, <1>2, <1>3 DEF IsResolution, IsLargest
  <1> QED BY <1>4 DEF x

(* A closer deadline buys no larger a budget, whatever the predictor says. *)
LEMMA CloserBuysNoMore == ASSUME FramesInv PROVE CloserNeverMore
  <1> SUFFICES ASSUME resolved = <<>>, answers # Unset,
                      NEW a \in [Decodes(snap) -> Slacks], NEW b \in [Decodes(snap) -> Slacks],
                      LiveSlacks(snap, a) # {}, LiveSlacks(snap, b) # {},
                      Min(LiveSlacks(snap, a)) <= Min(LiveSlacks(snap, b))
               PROVE  Resolve(snap, a, answers, TRUE).base <= Resolve(snap, b, answers, TRUE).base
    BY DEF CloserNeverMore
  <1> DEFINE ceiling == MaxExecutablePrefill(snap)
             early == TargetDuration(LiveSlacks(snap, a))
             late == TargetDuration(LiveSlacks(snap, b))
             E == Ending(snap, early, answers)
             L == Ending(snap, late, answers)
  <1>1. IsSnapshot(snap) /\ answers \in [ShadowPlans(snap) -> Answers]
    BY HoldableIsSnapshot DEF FramesInv
  <1>2. early \in Nat /\ late \in Nat /\ early <= late
    BY LiveFacts, TargetFacts
  <1>3. Decodes(snap) # {}
    BY DEF LiveSlacks
  <1>4. /\ Resolve(snap, a, answers, TRUE) = Invert(snap, early, answers, TRUE)
        /\ Resolve(snap, b, answers, TRUE) = Invert(snap, late, answers, TRUE)
    BY <1>3 DEF Resolve
  <1> HIDE DEF early, late
  <1>5. CASE ceiling = 0
    <2>1. \A t : Invert(snap, t, answers, TRUE).base = 0
      BY <1>5 DEF Invert, Resolution
    <2>2. Resolve(snap, a, answers, TRUE).base = 0 /\ Resolve(snap, b, answers, TRUE).base = 0
      BY <1>4, <2>1
    <2>3. 0 <= 0
      OBVIOUS
    <2> QED BY <2>2, <2>3, Zenon
  <1>6. CASE ceiling # 0
    <2>1. \A t : Invert(snap, t, answers, TRUE) = Inverted(snap, t, answers)
      BY <1>6 DEF Invert
    <2>2. /\ Inverted(snap, early, answers).base = IF E = {} THEN 0 ELSE Max(E)
          /\ Inverted(snap, late, answers).base = IF L = {} THEN 0 ELSE Max(L)
      BY <1>1, <1>2, InvertedFacts
    <2>3. E \subseteq L
      <3>1. ASSUME NEW w \in ShadowPlans(snap), IsFeasible(answers[w], early)
            PROVE  IsFeasible(answers[w], late)
        <4> DEFINE n == answers[w].expected
        <4>1. answers[w] \in Answers
          BY <1>1
        <4>2. answers[w].expected # Unset /\ answers[w].expected \in 1..early
          BY <1>2, <3>1, <4>1, EndsWithin
        <4> HIDE DEF n
        <4>3. n \in 1..early => n \in 1..late
          BY <1>2
        <4>4. answers[w].expected \in 1..late
          BY <4>2, <4>3 DEF n
        <4> QED BY <1>2, <4>1, <4>2, <4>4, EndsWithin
      <3> QED BY <3>1 DEF Ending
    <2>4. \A t : Ending(snap, t, answers) # {} =>
             /\ Max(Ending(snap, t, answers)) \in Ending(snap, t, answers)
             /\ Max(Ending(snap, t, answers)) \in 0..ceiling
             /\ \A n \in Ending(snap, t, answers) : n <= Max(Ending(snap, t, answers))
      BY <1>1, EndingFacts
    <2>5. ceiling \in Nat
      BY <1>1, SweepFacts
    <2>6. /\ E # {} => Max(E) \in E /\ Max(E) \in 0..ceiling
          /\ L # {} => Max(L) \in 0..ceiling /\ \A n \in L : n <= Max(L)
      BY <2>4
    <2> HIDE DEF E, L, ceiling
    <2>7. (IF E = {} THEN 0 ELSE Max(E)) <= (IF L = {} THEN 0 ELSE Max(L))
      BY <2>3, <2>5, <2>6
    <2>8. /\ Resolve(snap, a, answers, TRUE).base = IF E = {} THEN 0 ELSE Max(E)
          /\ Resolve(snap, b, answers, TRUE).base = IF L = {} THEN 0 ELSE Max(L)
      BY <1>4, <2>1, <2>2
    <2> QED BY <2>7, <2>8, Zenon
  <1> QED BY <1>5, <1>6


-----------------------------------------------------------------------------
(* The summary of the frames: its budgets are in order, so the ranks of its   *)
(* percentiles say how many lie at or below them.                            *)
LEMMA SmallestGrows ==
    ASSUME NEW window \in Seq(Int), NEW i \in 1..Len(window), NEW k \in 1..Len(window), i <= k
    PROVE  Smallest(window, i) <= Smallest(window, k)
  <1> DEFINE u == Smallest(window, i)
             v == Smallest(window, k)
             a == UpTo(window, v)
             c == Under(window, u)
  <1>1. /\ u \in Int /\ v \in Int /\ Cardinality(c) < i /\ Cardinality(a) >= k
    BY SmallestFacts
  <1>2. a \in SUBSET DOMAIN window /\ c \in SUBSET DOMAIN window
    BY DEF UpTo, Under
  <1>3. \A j \in DOMAIN window : window[j] \in Int
    OBVIOUS
  <1> HIDE DEF u, v
  <1>4. ASSUME ~(u <= v) PROVE FALSE
    <2>1. a \in SUBSET c
      BY <1>1, <1>3, <1>4 DEF UpTo, Under
    <2> HIDE DEF a, c
    <2>2. IsFiniteSet(c) /\ Cardinality(a) \in Nat /\ Cardinality(c) \in Nat
      BY <1>2, CountsOfWindow
    <2>3. Cardinality(a) <= Cardinality(c)
      BY <2>1, <2>2, FS_Subset
    <2> QED BY <1>1, <2>2, <2>3
  <1> QED BY <1>4 DEF u, v

(* The k-th budget is the k-th smallest of the resolutions' budgets. *)
Bases(values) == [i \in DOMAIN values |-> values[i].base]

LEMMA KthIsSmallest ==
    ASSUME NEW values, NEW k
    PROVE  KthBudget(values, k) = Smallest(Bases(values), k)
  <1> DEFINE P(b) == /\ Cardinality({i \in DOMAIN values : values[i].base < b}) < k
                     /\ Cardinality({i \in DOMAIN values : values[i].base <= b}) >= k
             Q(b) == /\ Cardinality({j \in DOMAIN Bases(values) : Bases(values)[j] < b}) < k
                     /\ Cardinality({j \in DOMAIN Bases(values) : Bases(values)[j] <= b}) >= k
  <1>1. DOMAIN Bases(values) = DOMAIN values /\ \A i \in DOMAIN values : Bases(values)[i] = values[i].base
    BY DEF Bases
  <1>2. ToSet(Bases(values)) = {values[i].base : i \in DOMAIN values}
    BY <1>1 DEF ToSet
  <1>3. ASSUME NEW b PROVE P(b) <=> Q(b)
    <2>1. /\ {i \in DOMAIN values : values[i].base < b}
                = {j \in DOMAIN Bases(values) : Bases(values)[j] < b}
          /\ {i \in DOMAIN values : values[i].base <= b}
                = {j \in DOMAIN Bases(values) : Bases(values)[j] <= b}
      BY <1>1
    <2> QED BY <2>1, Zenon
  <1>4. KthBudget(values, k) = CHOOSE b \in {values[i].base : i \in DOMAIN values} : P(b)
    BY DEF KthBudget
  <1>5. Smallest(Bases(values), k) = CHOOSE b \in ToSet(Bases(values)) : Q(b)
    BY DEF Smallest
  <1> HIDE DEF P, Q
  <1> QED BY <1>2, <1>3, <1>4, <1>5, Zenon

(* The rank of a percentile. *)
Rank(n, percent) == Max({1, Smaller(n, (percent * n + 99) \div 100)})

LEMMA RankFacts ==
    ASSUME NEW n \in Nat \ {0}
    PROVE  /\ Rank(n, 50) \in 1..n /\ Rank(n, 95) \in 1..n
           /\ Rank(n, 50) <= Rank(n, 95)
           /\ n <= 2 * Rank(n, 50) /\ 95 * n <= 100 * Rank(n, 95)
  <1> DEFINE half == (50 * n + 99) \div 100
             most == (95 * n + 99) \div 100
  <1>1. /\ half \in Int /\ 50 * n <= 100 * half /\ 100 * half <= 50 * n + 99
        /\ most \in Int /\ 95 * n <= 100 * most /\ 100 * most <= 95 * n + 99
    OBVIOUS
  <1> HIDE DEF half, most
  <1>2. 1 <= half /\ half <= most /\ most <= n
    BY <1>1
  <1>3. Smaller(n, half) = half /\ Smaller(n, most) = most
    BY <1>1, <1>2 DEF Smaller
  <1>4. Rank(n, 50) = Max({1, half}) /\ Rank(n, 95) = Max({1, most})
    BY <1>3 DEF Rank, half, most
  <1>5. Rank(n, 50) = half /\ Rank(n, 95) = most
    BY <1>1, <1>2, <1>4, LargerOfTwo
  <1> QED BY <1>1, <1>2, <1>5

(* Counting by status counts each once. *)
LEMMA SumOfOne ==
    ASSUME NEW D, IsFiniteSet(D), NEW e \in D, NEW f, \A x \in D : f[x] = IF x = e THEN 1 ELSE 0
    PROVE  SumFunctionOnSet(f, D) = 1
  <1>1. SumFunctionOnSet(f, D) = SumFunctionOnSet(f, {e})
    <2>1. \A x \in D : f[x] \in Int
      OBVIOUS
    <2>2. {e} \in SUBSET D /\ \A x \in D \ {e} : f[x] = 0
      OBVIOUS
    <2> QED BY <2>1, <2>2, SumZeros
  <1>2. IsFiniteSet({e}) /\ f[e] = 1 /\ \A x \in {e} : f[x] \in Int
    <2>1. f[e] = 1
      OBVIOUS
    <2>2. IsFiniteSet({e})
      BY FS_Singleton
    <2> QED BY <2>1, <2>2
  <1>3. SumFunctionOnSet(f, {e}) = f[e] + SumFunctionOnSet(f, {e} \ {e})
    BY <1>2, SumRemove
  <1>4. {e} \ {e} = {}
    OBVIOUS
  <1> QED BY <1>1, <1>2, <1>3, <1>4, SumOfNone

LEMMA StatusesAreFinite == IsFiniteSet(Statuses)
  <1> DEFINE a == {"INVERTED_OK"}
             b == a \cup {"INVERTED_OOD"}
             c == b \cup {"NO_FEASIBLE_BUDGET"}
             d == c \cup {"NO_DECODE_USE_MAX"}
             e == d \cup {"NO_DECODE_NO_BACKLOG"}
             f == e \cup {"PREDICTOR_INVALID"}
  <1>1. IsFiniteSet(a)
    BY FS_Singleton
  <1>2. \A S : IsFiniteSet(S) => \A x : IsFiniteSet(S \cup {x})
    BY FS_AddElement
  <1>3. Statuses = f
    BY DEF Statuses
  <1> HIDE DEF a
  <1>4. IsFiniteSet(b)
    BY <1>1, <1>2
  <1> HIDE DEF b
  <1>5. IsFiniteSet(c)
    BY <1>2, <1>4
  <1> HIDE DEF c
  <1>6. IsFiniteSet(d)
    BY <1>2, <1>5
  <1> HIDE DEF d
  <1>7. IsFiniteSet(e)
    BY <1>2, <1>6
  <1> HIDE DEF e
  <1> QED BY <1>2, <1>3, <1>7

LEMMA CountsAddUp ==
    ASSUME NEW n \in Nat, NEW status, \A i \in 1..n : status[i] \in Statuses
    PROVE  SumFunctionOnSet([x \in Statuses |-> Cardinality({i \in 1..n : status[i] = x})], Statuses) = n
  <1> DEFINE Those(m, x) == {i \in 1..m : status[i] = x}
             counts(m) == [x \in Statuses |-> Cardinality(Those(m, x))]
             sum(m) == SumFunctionOnSet(counts(m), Statuses)
             T == {m \in Nat : m <= n => sum(m) = m}
  <1>1. \A m \in Nat : \A x : IsFiniteSet(Those(m, x)) /\ Cardinality(Those(m, x)) \in Nat
    <2>1. ASSUME NEW m \in Nat, NEW x
          PROVE  IsFiniteSet(Those(m, x)) /\ Cardinality(Those(m, x)) \in Nat
      <3> DEFINE S == Those(m, x)
      <3>1. IsFiniteSet(1..m) /\ S \in SUBSET (1..m)
        BY CountOfInterval
      <3> HIDE DEF S
      <3> QED BY <3>1, FS_Subset, FS_CardinalityType DEF S
    <2> QED BY <2>1
  <1>2. 0 \in T
    <2>1. \A x : Those(0, x) = {}
      BY Intervals
    <2>2. \A x \in Statuses : counts(0)[x] = 0
      BY <2>1, FS_EmptySet
    <2>3. {} \in SUBSET Statuses
      OBVIOUS
    <2> HIDE DEF counts
    <2>4. SumFunctionOnSet(counts(0), Statuses) = SumFunctionOnSet(counts(0), {})
      BY <2>2, <2>3, StatusesAreFinite, SumZeros
    <2> QED BY <2>4, SumOfNone
  <1>3. ASSUME NEW m \in Nat, m \in T PROVE m + 1 \in T
    <2>1. SUFFICES ASSUME m + 1 <= n PROVE sum(m + 1) = m + 1
      OBVIOUS
    <2>2. sum(m) = m /\ m + 1 \in 1..n /\ status[m + 1] \in Statuses
      BY <1>3, <2>1
    <2> DEFINE one == [x \in Statuses |-> IF x = status[m + 1] THEN 1 ELSE 0]
    <2>3. ASSUME NEW x \in Statuses PROVE counts(m + 1)[x] = counts(m)[x] + one[x]
      <3> DEFINE old == Those(m, x)
                 new == Those(m + 1, x)
      <3>1. m + 1 \notin old
        OBVIOUS
      <3>2. IsFiniteSet(old) /\ Cardinality(old) \in Nat
        BY <1>1
      <3>3. 1..(m + 1) = (1..m) \cup {m + 1}
        OBVIOUS
      <3>4. new = IF x = status[m + 1] THEN old \cup {m + 1} ELSE old
        BY <3>3
      <3>5. counts(m)[x] = Cardinality(old) /\ counts(m + 1)[x] = Cardinality(new)
        OBVIOUS
      <3>6. one[x] = IF x = status[m + 1] THEN 1 ELSE 0
        OBVIOUS
      <3> HIDE DEF old, new, counts, one
      <3>7. Cardinality(old \cup {m + 1}) = Cardinality(old) + 1
        BY <3>1, <3>2, FS_AddElement
      <3>8. CASE x = status[m + 1]
        BY <3>2, <3>4, <3>5, <3>6, <3>7, <3>8
      <3>9. CASE x # status[m + 1]
        BY <3>2, <3>4, <3>5, <3>6, <3>9
      <3> QED BY <3>8, <3>9
    <2>4. \A x \in Statuses : counts(m)[x] \in Int /\ one[x] \in Int
      <3>1. \A x \in Statuses : counts(m)[x] = Cardinality(Those(m, x)) /\ one[x] \in Int
        OBVIOUS
      <3> HIDE DEF Those, counts, one
      <3> QED BY <1>1, <3>1
    <2>5. SumFunctionOnSet(one, Statuses) = 1
      <3>1. \A x \in Statuses : one[x] = IF x = status[m + 1] THEN 1 ELSE 0
        OBVIOUS
      <3> HIDE DEF one
      <3> QED BY <2>2, <3>1, StatusesAreFinite, SumOfOne
    <2> HIDE DEF counts, one
    <2>6. SumFunctionOnSet(counts(m + 1), Statuses)
             = SumFunctionOnSet(counts(m), Statuses) + SumFunctionOnSet(one, Statuses)
      BY <2>3, <2>4, StatusesAreFinite, SumPlus
    <2> QED BY <2>2, <2>5, <2>6
  <1>4. n \in T
    <2>1. Nat \subseteq T
      <3> HIDE DEF T
      <3> QED BY <1>2, <1>3, InductionOnNat
    <2> QED BY <2>1
  <1> QED BY <1>4

LEMMA SummaryAddsUp == ASSUME FramesInv PROVE SummaryAccounts
  <1> DEFINE n == Len(resolved)
             w == Bases(resolved)
             half == Rank(n, 50)
             most == Rank(n, 95)
             AtMost(b) == Cardinality({i \in DOMAIN resolved : resolved[i].base <= b})
             ordered == [k \in DOMAIN resolved |-> KthBudget(resolved, k)]
             x == Summary(resolved)
  <1> SUFFICES ASSUME resolved # <<>>
               PROVE  /\ SumFunction(x.counts) = x.frames
                      /\ x.min <= x.p50 /\ x.p50 <= x.p95 /\ x.p95 <= x.max
                      /\ 2 * AtMost(x.p50) >= x.frames /\ 100 * AtMost(x.p95) >= 95 * x.frames
    BY DEF SummaryAccounts
  <1>1. /\ n \in Nat \ {0} /\ DOMAIN resolved = 1..n
        /\ \A i \in 1..n : resolved[i].base \in Int /\ resolved[i].status \in Statuses
    <2>1. /\ n \in Nat \ {0} /\ DOMAIN resolved = 1..n /\ MaxExecutablePrefill(snap) \in Nat
          /\ \A i \in 1..n : IsResolution(snap, answers, resolved[i])
      BY FramesFacts
    <2> QED BY <2>1 DEF IsResolution
  <1>2. w \in Seq(Int) /\ Len(w) = n
    <2>1. w = [i \in 1..n |-> resolved[i].base]
      BY <1>1 DEF Bases
    <2>2. w \in [1..n -> Int]
      BY <1>1, <2>1
    <2> HIDE DEF w
    <2> QED BY <1>1, <2>2
  <1>3. \A k \in 1..n : ordered[k] = Smallest(w, k)
    BY <1>1, KthIsSmallest
  <1>4. Len(ordered) = n
    <2>1. DOMAIN ordered = 1..n
      BY <1>1
    <2> HIDE DEF ordered
    <2> QED BY <1>1, <2>1
  <1>5. /\ x.counts = [y \in Statuses |-> Cardinality({i \in 1..n : resolved[i].status = y})]
        /\ x.frames = n
        /\ x.min = ordered[1] /\ x.max = ordered[n]
        /\ x.p50 = ordered[half] /\ x.p95 = ordered[most]
    <2>1. /\ x.counts = [y \in Statuses |-> Cardinality({i \in DOMAIN resolved : resolved[i].status = y})]
          /\ x.frames = n /\ x.min = Head(ordered) /\ x.max = Last(ordered)
          /\ x.p50 = Percentile(ordered, 50) /\ x.p95 = Percentile(ordered, 95)
      BY DEF Summary
    <2> HIDE DEF x
    <2>2. Head(ordered) = ordered[1] /\ Last(ordered) = ordered[n]
      BY <1>4 DEF Last
    <2>3. Percentile(ordered, 50) = ordered[half] /\ Percentile(ordered, 95) = ordered[most]
      BY <1>4 DEF Percentile, Rank
    <2> QED BY <1>1, <2>1, <2>2, <2>3
  <1>6. \A b : AtMost(b) = Cardinality(UpTo(w, b))
    <2>1. \A b : {i \in DOMAIN resolved : resolved[i].base <= b} = UpTo(w, b)
      BY DEF UpTo, Bases
    <2> QED BY <2>1, Zenon
  <1> HIDE DEF x, w, ordered, n
  <1>7. /\ half \in 1..n /\ most \in 1..n /\ half <= most /\ 1 \in 1..n /\ n \in 1..n
        /\ n <= 2 * half /\ 95 * n <= 100 * most
    BY <1>1, RankFacts
  <1> HIDE DEF half, most, AtMost
  <1>8. SumFunction(x.counts) = x.frames
    <2> DEFINE status == [i \in 1..n |-> resolved[i].status]
               counts == [y \in Statuses |-> Cardinality({i \in 1..n : status[i] = y})]
    <2>1. x.counts = counts
      <3>1. \A y \in Statuses : {i \in 1..n : resolved[i].status = y} = {i \in 1..n : status[i] = y}
        OBVIOUS
      <3> HIDE DEF status
      <3> QED BY <1>5, <3>1
    <2>2. \A i \in 1..n : status[i] \in Statuses
      BY <1>1
    <2> HIDE DEF status
    <2>3. SumFunctionOnSet(counts, Statuses) = n
      BY <1>1, <2>2, CountsAddUp
    <2>4. DOMAIN counts = Statuses
      OBVIOUS
    <2> HIDE DEF counts
    <2> QED BY <1>5, <2>1, <2>3, <2>4 DEF SumFunction
  <1>9. \A i, k \in 1..n : i <= k => ordered[i] <= ordered[k]
    BY <1>2, <1>3, SmallestGrows
  <1>10. x.min <= x.p50 /\ x.p50 <= x.p95 /\ x.p95 <= x.max
    <2>1. 1 <= half /\ most <= n
      BY <1>1, <1>7
    <2>2. ordered[1] <= ordered[half] /\ ordered[half] <= ordered[most] /\ ordered[most] <= ordered[n]
      BY <1>7, <1>9, <2>1
    <2> QED BY <1>5, <2>2, Zenon
  <1>11. \A k \in 1..n : AtMost(ordered[k]) \in Nat /\ AtMost(ordered[k]) >= k
    <2>1. ASSUME NEW k \in 1..n PROVE AtMost(ordered[k]) \in Nat /\ AtMost(ordered[k]) >= k
      <3>1. AtMost(ordered[k]) = Cardinality(UpTo(w, Smallest(w, k)))
        BY <1>3, <1>6
      <3>2. Cardinality(UpTo(w, Smallest(w, k))) >= k
        BY <1>2, SmallestFacts
      <3>3. Cardinality(UpTo(w, Smallest(w, k))) \in Nat
        <4>1. UpTo(w, Smallest(w, k)) \in SUBSET DOMAIN w
          BY DEF UpTo
        <4> QED BY <1>2, <4>1, CountsOfWindow
      <3> QED BY <3>1, <3>2, <3>3
    <2> QED BY <2>1
  <1>12. 2 * AtMost(x.p50) >= x.frames /\ 100 * AtMost(x.p95) >= 95 * x.frames
    <2> DEFINE low == AtMost(ordered[half])
               high == AtMost(ordered[most])
    <2>1. low \in Nat /\ low >= half /\ high \in Nat /\ high >= most
      BY <1>7, <1>11
    <2>2. AtMost(x.p50) = low /\ AtMost(x.p95) = high /\ x.frames = n
      BY <1>5
    <2> HIDE DEF low, high
    <2>3. 2 * low >= n /\ 100 * high >= 95 * n
      BY <1>1, <1>7, <2>1
    <2> QED BY <2>2, <2>3
  <1> QED BY <1>8, <1>10, <1>12 DEF AtMost

(* Whatever the predictor answers, the budget resolved by inversion is what   *)
(* the largest plan of the sweep that ends by the earliest live deadline      *)
(* serves, and the summary of the frames accounts for each of them.          *)
THEOREM BudgetsAreLargest == QuerySpec => []BudgetsAreRight
  <1>1. FramesInv => BudgetsAreRight
    BY InversionExact, SummaryAddsUp DEF BudgetsAreRight
  <1> QED BY <1>1, FramesInit, FramesNext, PTL DEF QuerySpec

(* While a deadline is ahead, a closer one never buys a larger budget: the    *)
(* resolver is monotone even when the predictor is not.                      *)
THEOREM CloserDeadlinesNeverBuyMore == QuerySpec => []CloserNeverMore
  <1> QED BY CloserBuysNoMore, FramesInit, FramesNext, PTL DEF QuerySpec
=============================================================================
