----------------------------- MODULE ProgressWatchdog -----------------------------
(***************************************************************************)
(* ProgressWatchdog of observer.py: after every schedule() the live         *)
(* scheduler records the iteration, and the watchdog counts how many in a    *)
(* row scheduled nothing over a nonempty workload, and how many in a row     *)
(* only decoded.  It trips at ZeroProgressLimit of the former; if it is to    *)
(* fail fast, the trip is an exception, which stops the engine.              *)
(*                                                                         *)
(* The iterations are whatever comes: module EngineRound shows that the live *)
(* scheduler leaves it nothing to trip on, and this module that it would     *)
(* trip.  The history of all iterations is kept for the properties only.     *)
(***************************************************************************)
EXTENDS Integers, Sequences

CONSTANTS MaxRecords,         \* bounded_records
          ZeroProgressLimit,  \* zero_progress_watchdog_iterations
          MaxTokens,          \* bound: tokens of an iteration, of either kind
          MaxIterations       \* bound: iterations of a behaviour

ASSUME WatchdogAssumption ==
    /\ {MaxRecords, ZeroProgressLimit} \subseteq Nat \ {0}
    /\ {MaxTokens, MaxIterations} \subseteq Nat

VARIABLES records,                    \* the diagnostics kept, oldest first
          consecutive_zero_progress,  \* the streak of stalls
          consecutive_decode_only,    \* the streak of iterations without prefill
          fail_fast,                  \* the setting fail_fast_development
          raised,                     \* has ZeroProgressWatchdogError been raised?
          history                     \* every iteration recorded

watchdog_vars ==
    <<records, consecutive_zero_progress, consecutive_decode_only, fail_fast, raised, history>>

(* What the scheduler reports: is there a workload, and what was scheduled.  *)
Iterations == [nonempty : BOOLEAN, prefill : 0..MaxTokens, decode : 0..MaxTokens]

Stalled(i) == i.nonempty /\ i.prefill + i.decode = 0
DecodeOnly(i) == i.prefill = 0 /\ i.decode > 0

Smaller(a, b) == IF a <= b THEN a ELSE b

(* The streak of stalls after i. *)
ZeroProgressAfter(i) == IF Stalled(i) THEN consecutive_zero_progress + 1 ELSE 0

(* The streak of batches without prefill after i.  A slip: only prefill ends it. *)
DecodeOnlyAfterIdle(i) ==
    IF i.prefill > 0 THEN 0
    ELSE consecutive_decode_only + (IF i.decode > 0 THEN 1 ELSE 0)

DecodeOnlyAfter(i) == IF DecodeOnly(i) THEN consecutive_decode_only + 1 ELSE 0

(* The diagnostic of iteration i.  A slip: the limit must be exceeded. *)
RecordLate(i) ==
    [iteration |-> i,
     zero_progress |-> ZeroProgressAfter(i),
     decode_only |-> DecodeOnlyAfter(i),
     triggered |-> i.nonempty /\ ZeroProgressAfter(i) > ZeroProgressLimit]

Record(i) ==
    [iteration |-> i,
     zero_progress |-> ZeroProgressAfter(i),
     decode_only |-> DecodeOnlyAfter(i),
     triggered |-> i.nonempty /\ ZeroProgressAfter(i) >= ZeroProgressLimit]

(* del records[:-max_records].  A slip keeps the first ones. *)
KeptFirst(s) == SubSeq(s, 1, Smaller(MaxRecords, Len(s)))

Kept(s) == SubSeq(s, (Len(s) - Smaller(MaxRecords, Len(s))) + 1, Len(s))

-----------------------------------------------------------------------------
WatchdogInit ==
    /\ records = <<>>
    /\ consecutive_zero_progress = 0
    /\ consecutive_decode_only = 0
    /\ fail_fast \in BOOLEAN
    /\ raised = FALSE
    /\ history = <<>>

(* record_iteration *)
RecordIteration(i) ==
    /\ ~raised
    /\ Len(history) < MaxIterations
    /\ consecutive_zero_progress' = ZeroProgressAfter(i)
    /\ consecutive_decode_only' = DecodeOnlyAfter(i)
    /\ records' = Kept(Append(records, Record(i)))
    /\ raised' = (Record(i).triggered /\ fail_fast)
    /\ history' = Append(history, i)
    /\ UNCHANGED fail_fast

WatchdogNext == \E i \in Iterations : RecordIteration(i)

WatchdogSpec == WatchdogInit /\ [][WatchdogNext]_watchdog_vars

-----------------------------------------------------------------------------
(* The last n iterations all satisfied P, and n is as long as it can be. *)
IsStreak(n, P(_)) ==
    /\ n \in 0..Len(history)
    /\ \A j \in (Len(history) - n) + 1 .. Len(history) : P(history[j])
    /\ n < Len(history) => ~P(history[Len(history) - n])

(* The two counters are the lengths of the streaks that the iterations so    *)
(* far end in: neither an idle engine between two stalls nor a decode        *)
(* between two batches without prefill is counted through.                   *)
StreaksAreExact ==
    /\ IsStreak(consecutive_zero_progress, Stalled)
    /\ IsStreak(consecutive_decode_only, DecodeOnly)

(* The watchdog has tripped over an iteration just if that one and those     *)
(* before it, ZeroProgressLimit in all, scheduled nothing for a workload;    *)
(* in development mode the first trip ends the run.                          *)
TripsOnStall ==
    records # <<>> =>
        LET trips == /\ Len(history) >= ZeroProgressLimit
                     /\ \A j \in (Len(history) - ZeroProgressLimit) + 1 .. Len(history) :
                           Stalled(history[j])
        IN /\ records[Len(records)].triggered <=> trips
           /\ raised <=> trips /\ fail_fast

(* What is kept for the dump are the latest iterations, in order. *)
DumpIsLatest ==
    /\ Len(records) = Smaller(MaxRecords, Len(history))
    /\ \A j \in 1..Len(records) :
          records[j].iteration = history[(Len(history) - Len(records)) + j]

(* The watchdog's diagnosis of the engine is exact. *)
DiagnosisIsExact == StreaksAreExact /\ TripsOnStall /\ DumpIsLatest
=============================================================================
