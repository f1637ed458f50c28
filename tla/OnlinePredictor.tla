---------------------------- MODULE OnlinePredictor ----------------------------
(***************************************************************************)
(* The online duration predictor of predictor.py and the live loop that     *)
(* feeds it: RidgeDurationPredictor, with its frozen ridge models and one   *)
(* bounded window of residuals per kind of batch, inside schedule(), the    *)
(* timing callback and update_from_output() of vllm_adapter.py.             *)
(*                                                                         *)
(* A batch is how many decodes and how many prefill tokens it schedules;    *)
(* the other features are functions of the requests' contexts and are left  *)
(* out.  Durations are integers.  A feature's weight is its coefficient     *)
(* over its scale, the means are part of the intercept, and a quotient is   *)
(* rounded down.  Frame ids only matter by their order, so the state keeps  *)
(* how far the snapshot's is ahead of the last one observed.                *)
(***************************************************************************)
EXTENDS Integers, FiniteSets, SequencesExt

CONSTANTS Batches,          \* the batches the scheduler may execute
          Ridge,            \* the models of "decode_only" and "prefill_only"
          Segments,         \* the segmented model of "mixed": a sequence
          Calibration,      \* the settings of each kind's residual window
          TrimPercent,      \* ONLINE_TRIM_FRACTION_EACH_TAIL
          UpperPercent,     \* ONLINE_UPPER_QUANTILE
          KappaOod,         \* ood_uncertainty_coefficient
          Noises,           \* what each batch's execution may add to its base duration
          MayBypass,        \* may a predictable batch run without its prediction?
          MaxAhead,         \* bound: frames counted since the last one observed
          None              \* Python's None

Kinds == {"decode_only", "mixed", "prefill_only"}
Features == {"decodes", "tokens"}

(* build_plan_features: what the models see of a plan, nothing negative. *)
IsBatch(b) == b \in [decodes : Nat, tokens : Nat]

(* _parse_ridge_model: the support box of a model is not reversed. *)
IsRidge(m) ==
    /\ m \in [intercept : Int, weight : [Features -> Int],
              low : [Features -> Nat], high : [Features -> Nat]]
    /\ \A f \in Features : m.low[f] <= m.high[f]

(* _parse_segmented_mixed_model: segments adjoin, the first begins at 1. *)
IsSegmented(segments) ==
    \A i \in DOMAIN segments :
        /\ segments[i].first = (IF i = 1 THEN 1 ELSE segments[i - 1].last + 1)
        /\ segments[i].last >= segments[i].first
        /\ IsRidge(segments[i].model)

(* from_artifact: the windows' sizes and the cold-start values. *)
IsCalibration(c) ==
    /\ c \in [window : Nat \ {0}, minimum : Nat \ {0}, mean : Int, margin : Nat]
    /\ c.minimum <= c.window

ASSUME ArtifactAssumption ==
    /\ DOMAIN Ridge = {"decode_only", "prefill_only"}
    /\ \A k \in DOMAIN Ridge : IsRidge(Ridge[k])
    /\ IsSegmented(Segments)
    /\ DOMAIN Calibration = Kinds /\ \A k \in Kinds : IsCalibration(Calibration[k])

ASSUME PredictorAssumption ==
    /\ \A b \in Batches : IsBatch(b)
    /\ TrimPercent \in 0..49 /\ UpperPercent \in 0..100
    /\ KappaOod \in Nat /\ MaxAhead \in Nat \ {0}
    /\ \A b \in Batches : Noises[b] \subseteq Int
    /\ MayBypass \in BOOLEAN
    /\ None \notin Int

VARIABLES windows,   \* OnlineResidualCalibrator._windows
          ahead,     \* the current frame_id less _last_observed_frame
          pending,   \* _dpp_predictor_pending
          fault      \* the exception that stopped the engine, if any

vars == <<windows, ahead, pending, fault>>

-----------------------------------------------------------------------------
(* classify_batch: None for the empty batch.  A slip: any decode makes the   *)
(* batch a decode batch.                                                     *)
ClassifyByDecode(b) ==
    CASE b.decodes > 0 -> "decode_only"
      [] b.decodes = 0 /\ b.tokens > 0 -> "prefill_only"
      [] OTHER -> None

ClassifyBatch(b) ==
    CASE b.tokens > 0 /\ b.decodes > 0 -> "mixed"
      [] b.tokens > 0 /\ b.decodes = 0 -> "prefill_only"
      [] b.tokens = 0 /\ b.decodes > 0 -> "decode_only"
      [] OTHER -> None

(* The models that predict a batch: one, or none where the segments of the   *)
(* mixed model do not reach (base_prediction then raises ValueError).        *)
ModelsOf(b) ==
    IF b.tokens > 0 /\ b.decodes > 0
    THEN {Segments[i].model : i \in {j \in DOMAIN Segments :
                                b.decodes \in Segments[j].first..Segments[j].last}}
    ELSE IF b.tokens = 0 /\ b.decodes = 0 THEN {}
    ELSE {Ridge[IF b.tokens > 0 THEN "prefill_only" ELSE "decode_only"]}

Clip(m, b, f) == IF b[f] < m.low[f] THEN m.low[f]
                 ELSE IF b[f] > m.high[f] THEN m.high[f] ELSE b[f]

InSupport(m, b) == \A f \in Features : Clip(m, b, f) = b[f]

(* How far a feature is outside the box, and above it. *)
Outside(m, b, f) == IF b[f] < m.low[f] THEN m.low[f] - b[f] ELSE b[f] - Clip(m, b, f)
Above(m, b, f) == IF b[f] > m.high[f] THEN b[f] - m.high[f] ELSE 0

(* ood_distance *)
OodDistance(m, b) == Max({Outside(m, b, f) : f \in Features})

(* A slip: a negative weight extrapolates too. *)
SlopeAny(m, f) == m.weight[f]

(* The slope beyond the box: extrapolation never shortens a batch. *)
Slope(m, f) == IF m.weight[f] > 0 THEN m.weight[f] ELSE 0

Term(m, b, f) == m.weight[f] * Clip(m, b, f) + Slope(m, f) * Above(m, b, f)

(* base_prediction: the model at the clipped features, and its extrapolation *)
(* above them.                                                               *)
Base(m, b) ==
    m.intercept + Term(m, b, "decodes") + Term(m, b, "tokens")

-----------------------------------------------------------------------------
(* The i-th residual of the sorted window. *)
Smallest(window, i) ==
    CHOOSE v \in ToSet(window) :
        /\ Cardinality({j \in DOMAIN window : window[j] < v}) < i
        /\ Cardinality({j \in DOMAIN window : window[j] <= v}) >= i

(* _symmetric_trimmed_mean *)
TrimmedMean(window) ==
    LET trim == (TrimPercent * Len(window)) \div 100
        last == Len(window) - trim
        sum[i \in trim..last] == IF i = trim THEN 0 ELSE sum[i - 1] + Smallest(window, i)
    IN sum[last] \div (last - trim)

(* A slip: the quantile rounds down. *)
LowerQuantile(window) ==
    Smallest(window, 1 + (UpperPercent * (Len(window) - 1)) \div 100)

(* _higher_quantile *)
HigherQuantile(window) ==
    Smallest(window, 1 + (UpperPercent * (Len(window) - 1) + 99) \div 100)

IsWarm(k, window) == Len(window) >= Calibration[k].minimum

(* values: what is added to the base duration, and to its upper estimate. *)
Center(k, window) ==
    IF IsWarm(k, window) THEN TrimmedMean(window) ELSE Calibration[k].mean
Upper(k, window) ==
    IF IsWarm(k, window) THEN HigherQuantile(window)
    ELSE Calibration[k].mean + Calibration[k].margin

Invalid == [mode |-> "INVALID", in_support |-> FALSE]

(* The conservative duration is at least the expected one. *)
Conservative(expected, upper) == IF upper > expected THEN upper ELSE expected

(* The prediction of a batch by one model. *)
PredictBy(m, k, window, b) ==
    LET base == Base(m, b)
        expected == base + Center(k, window)
        upper == base + Upper(k, window) + KappaOod * OodDistance(m, b)
        conservative == Conservative(expected, upper)
    IN IF base <= 0 \/ expected <= 0 \/ conservative < expected THEN Invalid
       ELSE [mode |-> IF InSupport(m, b) THEN "INTERPOLATION"
                      ELSE "CONSTRAINED_EXTRAPOLATION",
             in_support |-> InSupport(m, b),
             base |-> base, expected |-> expected, conservative |-> conservative]

(* predict_with_audit *)
Predict(w, b) ==
    IF ModelsOf(b) = {} THEN Invalid
    ELSE PredictBy(CHOOSE m \in ModelsOf(b) : TRUE, ClassifyBatch(b), w[ClassifyBatch(b)], b)

IsValid(prediction) == prediction.mode # "INVALID"

-----------------------------------------------------------------------------
Init ==
    /\ windows = [k \in Kinds |-> <<>>]
    /\ ahead = 0
    /\ pending = None
    /\ fault = "none"

(* A slip: an iteration outside the support is fed back. *)
SkipsOnlyEscapes(prediction) == ~IsValid(prediction)

(* skip_predictor_update *)
Skips(prediction) == ~prediction.in_support

(* make_snapshot: every iteration has a frame of its own. *)
NextFrame == IF ahead < MaxAhead THEN ahead + 1 ELSE ahead

(* schedule() takes a snapshot, which numbers the frame, and binds the plan  *)
(* it executes.  The plan has a valid prediction, or the liveness escape,    *)
(* the native scheduler or forced_stock_plan found it without one.           *)
Schedule(b, predicted) ==
    /\ fault = "none" /\ pending = None
    /\ predicted => IsValid(Predict(windows, b))
    /\ ahead' = NextFrame
    /\ \E prediction \in {IF predicted THEN Predict(windows, b) ELSE Invalid} :
          pending' = [batch |-> b,
                      base |-> IF predicted THEN prediction.base ELSE None,
                      skip |-> Skips(prediction),
                      actual |-> None]
    /\ UNCHANGED <<windows, fault>>

(* The durations an execution may take: positive, and near the model's. *)
Durations(b) ==
    IF ModelsOf(b) = {} THEN {1}
    ELSE {d \in {Base(m, b) + n : m \in ModelsOf(b), n \in Noises[b]} : d > 0}

(* _dpp_record_iteration_duration: the timing callback. *)
RecordDuration(d) ==
    /\ fault = "none"
    /\ pending # None
    /\ pending.actual = None
    /\ pending' = [pending EXCEPT !.actual = d]
    /\ UNCHANGED <<windows, ahead, fault>>

(* deque(maxlen).append *)
Remember(k, residual) ==
    IF Len(windows[k]) = Calibration[k].window THEN Append(Tail(windows[k]), residual)
    ELSE Append(windows[k], residual)

(* observe_actual: it predicts the executed batch again, refuses one outside *)
(* the support, of another base duration, or of a frame not after the last,  *)
(* and stores the residual in the window of the batch's kind.                *)
ObserveActual ==
    \E audit \in {Predict(windows, pending.batch)}, k \in {ClassifyBatch(pending.batch)} :
        IF ~audit.in_support \/ audit.base # pending.base \/ ahead <= 0
        THEN fault' = "feedback_refused" /\ UNCHANGED <<windows, ahead>>
        ELSE /\ windows' = [windows EXCEPT ![k] = Remember(k, pending.actual - audit.base)]
             /\ ahead' = 0
             /\ UNCHANGED fault

(* update_from_output: the pending plan is done with before it is learnt. *)
UpdateFromOutput ==
    /\ fault = "none"
    /\ pending # None
    /\ pending.actual # None
    /\ pending' = None
    /\ IF pending.skip THEN UNCHANGED <<windows, ahead, fault>> ELSE ObserveActual

-----------------------------------------------------------------------------
(* The steps of one iteration.  A batch with a valid prediction runs without *)
(* it only under MayBypass: no plan was safe, or the stock plan was forced.  *)
Iteration ==
    \/ \E b \in Batches : \/ Schedule(b, TRUE)
                          \/ /\ MayBypass \/ ~IsValid(Predict(windows, b))
                             /\ Schedule(b, FALSE)
    \/ pending # None /\ \E d \in Durations(pending.batch) : RecordDuration(d)
    \/ UpdateFromOutput

Next == Iteration

Spec == Init /\ [][Next]_vars

-----------------------------------------------------------------------------
(* Types: a window holds at most window_size residuals. *)
TypeOK ==
    /\ windows \in [Kinds -> Seq(Int)]
    /\ \A k \in Kinds : Len(windows[k]) <= Calibration[k].window
    /\ ahead \in 0..MaxAhead
    /\ pending # None =>
          /\ pending.batch \in Batches
          /\ pending.skip \in BOOLEAN
          /\ pending.base \in Int \cup {None} /\ pending.actual \in Int \cup {None}

(* The feedback of an executed plan is never refused (predictor.py:413,626): *)
(* frames reach the calibrator in order across the kinds, though some are    *)
(* skipped, and the plan still predicts at feedback what it did when chosen. *)
FeedbackIsLearned == fault # "feedback_refused"

(* docs/decisions.md:42: the conservative duration covers the untrimmed       *)
(* window.  For every batch the predictor accepts, at least UpperPercent of  *)
(* the residuals it remembers, were they to recur, end within the            *)
(* conservative duration, and that is not below the expected one.            *)
ConservativeCovers ==
    \A b \in Batches :
        LET p == Predict(windows, b)
            k == ClassifyBatch(b)
            covered == {i \in DOMAIN windows[k] : p.base + windows[k][i] <= p.conservative}
        IN IsValid(p) =>
              /\ 0 < p.expected /\ p.expected <= p.conservative
              /\ IsWarm(k, windows[k]) =>
                    100 * Cardinality(covered) >= UpperPercent * Len(windows[k])

(* A window learns only from batches of its own kind, inside the support of  *)
(* their model: each residual is one such a batch could have left.           *)
ResidualsAreOfTheirKind ==
    \A k \in Kinds : \A i \in DOMAIN windows[k] :
        \E b \in Batches : \E m \in ModelsOf(b) :
            /\ InSupport(m, b)
            /\ (k = "mixed") <=> (b.tokens > 0 /\ b.decodes > 0)
            /\ (k = "decode_only") <=> b.tokens = 0
            /\ windows[k][i] + Base(m, b) \in Durations(b)

(* Batches of one kind and the same models, the second larger only where the *)
(* first is at the upper bound of the box or beyond it.                      *)
Larger(b, c) ==
    /\ b # c /\ ClassifyBatch(b) = ClassifyBatch(c) /\ ModelsOf(b) = ModelsOf(c)
    /\ \A m \in ModelsOf(b), f \in Features :
          c[f] = b[f] \/ (c[f] > b[f] /\ b[f] >= m.high[f])

LargerPairs == {pair \in Batches \X Batches : Larger(pair[1], pair[2])}

(* Outside the support, a larger batch is never predicted to be shorter: the *)
(* extrapolation does not reward leaving the box (predictor.py:247).         *)
ExtrapolationIsMonotone ==
    \A pair \in LargerPairs :
        \E p \in {Predict(windows, pair[1])}, q \in {Predict(windows, pair[2])} :
            IsValid(p) => IsValid(q) /\ p.conservative <= q.conservative

(* A kind that has left its cold start never returns to it: an outlier or a  *)
(* long idle phase does not bring the artifact's values back.                *)
WarmStaysWarm ==
    [][\A k \in Kinds : IsWarm(k, windows[k]) => IsWarm(k, windows[k])']_vars
================================================================================
