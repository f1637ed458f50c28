--------------------------- MODULE EngineRound_proofs ---------------------------
(***************************************************************************)
(* The live scheduler's safety, for every set of requests, every length and *)
(* every budget: whatever its planning stages choose and whenever requests  *)
(* arrive or are aborted, an exact plan can be allocated, the feedback of    *)
(* every iteration is accepted, ledger, debts and KV blocks follow the      *)
(* queues, and an iteration over a nonempty workload schedules a token.      *)
(***************************************************************************)
EXTENDS EngineRound, BatchPlans_proofs

-----------------------------------------------------------------------------
(* The inductive invariant, in parts. *)

(* Every request has one place, and a finished one none. *)
QueuesInv ==
  /\ waiting \in Seq(Requests) /\ running \in Seq(Requests)
  /\ IsInjective(waiting) /\ IsInjective(running)
  /\ ToSet(waiting) \cap ToSet(running) = {}
  /\ preempted \subseteq ToSet(waiting)
  /\ finished \subseteq Requests /\ ended \subseteq Requests
  /\ Live \cap ended = {}
  /\ aborts \in 0..MaxAborts

(* Only running requests have computed tokens, or will ever again. *)
TokensInv ==
  /\ computed \in [Requests -> Nat] /\ outputs \in [Requests -> 0..MaxOutput]
  /\ \A r \in ToSet(waiting) : computed[r] = 0
  /\ \A r \in Requests \ (Live \cup ended) : computed[r] = 0 /\ outputs[r] = 0
  /\ \A r \in Live : outputs[r] < MaxOutput

KvInv ==
  /\ blocks \in [Requests -> Nat]
  /\ \A r \in Requests : blocks[r] = IF r \in ToSet(running) THEN Blocks(computed[r]) ELSE 0
  /\ UsedBlocks <= TotalBlocks
  /\ Len(running) <= SequenceBudget

(* A TBT obligation is open only after a token, and a request that returned  *)
(* one has its prompt computed unless it was preempted since.                *)
LedgerInv ==
  /\ DOMAIN ledger = Live /\ ledger \in [Live -> Records]
  /\ \A r \in Live :
        /\ ledger[r].tbt => ledger[r].returned
        /\ ledger[r].ttft => outputs[r] = 0
        /\ ledger[r].returned <=> outputs[r] > 0
        /\ ledger[r].returned /\ r \notin preempted => computed[r] >= Prompt[r]

(* What waits to be applied are the terminal events of aborted requests. *)
FeedbackInv ==
  \A u \in feedback : u.id \in ended /\ u.terminal = TRUE /\ u.initializes = FALSE /\ u.service = 0

(* Between iterations every active decode has its debt, and has returned one *)
(* token more than it has computed beyond its prompt.                        *)
IdleInv ==
  pending = None =>
    /\ control.ttft \subseteq Requests /\ control.tbt \subseteq Requests
    /\ \A r \in ToSet(running) : computed[r] >= Prompt[r] =>
          r \in control.tbt /\ computed[r] < Prompt[r] + outputs[r]

(* During one, the debts are those of its snapshot; a prompt of the snapshot *)
(* has returned nothing; a request computed beyond its prompt was a decode   *)
(* or is scheduled, and if it is not scheduled returned as much as before.   *)
PendingInv ==
  pending # None =>
    /\ pending \in PendingIterations
    /\ control.ttft = pending.prefills /\ control.tbt = pending.decodes
    /\ Scheduled(pending.work) \subseteq pending.prefills \cup pending.decodes
    /\ pending.prefills \cup pending.decodes # {} => Tokens(pending.work) > 0
    /\ \A r \in Live \cap pending.prefills : ~ledger[r].returned
    /\ \A r \in ToSet(running) : computed[r] >= Prompt[r] =>
          /\ r \in pending.decodes \cup Scheduled(pending.work)
          /\ computed[r] <= Prompt[r] + outputs[r]
          /\ r \notin Scheduled(pending.work) => computed[r] < Prompt[r] + outputs[r]

(* The exceptions that may stop the engine. *)
FaultInv == fault \in {"none", "preempted_request", "stock_without_work", "zero_reference_missing"}

EngineInv ==
  QueuesInv /\ TokensInv /\ KvInv /\ LedgerInv /\ FeedbackInv /\ IdleInv /\ PendingInv /\ FaultInv

-----------------------------------------------------------------------------
(* The snapshot of a state is one the planning lemmas are about. *)

LEMMA QueueTypes ==
  ASSUME QueuesInv
  PROVE  /\ ToSet(waiting) \subseteq Requests /\ ToSet(running) \subseteq Requests
         /\ Live \subseteq Requests /\ IsFiniteSet(Requests)
  BY BatchAssumption DEF QueuesInv, Live, ToSet

LEMMA SnapshotInv ==
  ASSUME EngineInv
  PROVE  /\ IsSnapshot(Snapshot) /\ IsAccounted(Snapshot, blocks)
         /\ Snapshot.running = running /\ Snapshot.waiting = waiting
         /\ Snapshot.computed = computed /\ Snapshot.used = UsedBlocks
         /\ RunningSet(Snapshot) = ToSet(running)
         /\ Workload(Snapshot) = Live
  <1>1. /\ Snapshot.running = running /\ Snapshot.waiting = waiting
        /\ Snapshot.computed = computed /\ Snapshot.used = UsedBlocks
    BY DEF Snapshot
  <1>2. UsedBlocks = SumFunctionOnSet(blocks, Requests)
    BY DEF UsedBlocks, SumFunction, EngineInv, KvInv
  <1>3. UsedBlocks \in Nat
    BY <1>2, SumNat, BatchAssumption DEF EngineInv, KvInv
  <1>. HIDE DEF Snapshot
  <1>4. IsSnapshot(Snapshot)
    BY <1>1, <1>3 DEF IsSnapshot, EngineInv, QueuesInv, TokensInv
  <1>5. RunningSet(Snapshot) = ToSet(running)
    BY <1>1 DEF RunningSet
  <1>6. IsAccounted(Snapshot, blocks)
    BY <1>1, <1>2, <1>5 DEF IsAccounted, EngineInv, KvInv
  <1>7. Workload(Snapshot) = Live
    BY <1>1, <1>4, SnapshotFacts DEF Live
  <1>. QED  BY <1>1, <1>4, <1>5, <1>6, <1>7

(* Decodes and prompts of the snapshot. *)
LEMMA PhaseFacts ==
  ASSUME EngineInv
  PROVE  /\ Decodes(Snapshot) = {r \in ToSet(running) : computed[r] >= Prompt[r]}
         /\ \A r \in Live : r \in Prefills(Snapshot) <=> computed[r] < Prompt[r]
         /\ Prefills(Snapshot) \cup Decodes(Snapshot) = Live
         /\ Prefills(Snapshot) \cap Decodes(Snapshot) = {}
         /\ \A r \in Live : computed[r] \in Nat /\ Prompt[r] \in Nat \ {0}
  <1>1. \A r \in Live : computed[r] \in Nat /\ Prompt[r] \in Nat \ {0}
    BY QueueTypes, BatchAssumption DEF EngineInv, TokensInv
  <1>2. \A r \in Live : Prefilling(Snapshot, r) <=> computed[r] < Prompt[r]
    BY SnapshotInv DEF Prefilling
  <1>3. \A r \in ToSet(waiting) : r \in Live /\ computed[r] = 0 /\ r \notin ToSet(running)
    BY DEF Live, EngineInv, QueuesInv, TokensInv
  <1>4. ToSet(running) \subseteq Live
    BY DEF Live
  <1>5. Decodes(Snapshot) = {r \in ToSet(running) : computed[r] >= Prompt[r]}
    BY <1>1, <1>2, <1>4, SnapshotInv DEF Decodes
  <1>6. \A r \in Live : r \in Prefills(Snapshot) <=> computed[r] < Prompt[r]
    <2>1. \A r \in Live : r \in Prefills(Snapshot) <=>
             (r \in ToSet(running) /\ Prefilling(Snapshot, r)) \/ r \in ToSet(waiting)
      BY SnapshotInv DEF Prefills
    <2>2. \A r \in Live : r \in ToSet(running) \/ r \in ToSet(waiting)
      BY DEF Live
    <2>. QED  BY <1>1, <1>2, <1>3, <2>1, <2>2
  <1>7. Prefills(Snapshot) \cup Decodes(Snapshot) = Live
    BY SnapshotInv DEF Workload
  <1>8. Prefills(Snapshot) \cap Decodes(Snapshot) = {}
    BY SnapshotInv, SnapshotFacts
  <1>. QED  BY <1>1, <1>5, <1>6, <1>7, <1>8

(* A request has room to compute all it may still be given. *)
LEMMA LiveHasRoom ==
  ASSUME EngineInv, pending = None
  PROVE  HasRoom(Snapshot)
  <1>1. ASSUME NEW r \in Live
        PROVE  /\ Blocks(Prompt[r]) <= TotalBlocks
               /\ r \in Decodes(Snapshot) => Blocks(computed[r] + 1) <= TotalBlocks
    <2>1. /\ r \in Requests /\ Prompt[r] \in Nat /\ computed[r] \in Nat /\ MaxOutput \in Nat
          /\ outputs[r] \in Nat /\ outputs[r] < MaxOutput /\ TotalBlocks \in Nat
      BY QueueTypes, BatchAssumption, EngineAssumption DEF EngineInv, TokensInv
    <2>2. Blocks(Prompt[r] + MaxOutput) <= TotalBlocks /\ Blocks(Prompt[r] + MaxOutput) \in Nat
      <3>1. Prompt[r] + MaxOutput \in Nat
        BY <2>1
      <3>. QED  BY <2>1, <3>1, CapacityAssumption, BlocksFacts
    <2>3. ASSUME NEW t \in Nat, t <= Prompt[r] + MaxOutput PROVE Blocks(t) <= TotalBlocks
      <3>1. Prompt[r] + MaxOutput \in Nat
        BY <2>1
      <3>2. Blocks(t) <= Blocks(Prompt[r] + MaxOutput) /\ Blocks(t) \in Nat
        BY <2>3, <3>1, BlocksFacts
      <3>. QED  BY <2>1, <2>2, <3>2
    <2>4. ASSUME r \in Decodes(Snapshot)
          PROVE  computed[r] + 1 \in Nat /\ computed[r] + 1 <= Prompt[r] + MaxOutput
      <3>1. computed[r] < Prompt[r] + outputs[r]
        BY <2>4, PhaseFacts DEF EngineInv, IdleInv
      <3>. QED  BY <2>1, <3>1
    <2>5. Prompt[r] <= Prompt[r] + MaxOutput
      BY <2>1
    <2>. QED  BY <2>1, <2>3, <2>4, <2>5
  <1>. QED  BY <1>1, SnapshotInv DEF HasRoom

-----------------------------------------------------------------------------
(* Steps of the client. *)

LEMMA InitEstablishes == ASSUME Init PROVE EngineInv
  <1>1. ToSet(<<>>) = {} /\ <<>> \in Seq(Requests) /\ IsInjective(<<>>) /\ Len(<<>>) = 0
    BY DEF ToSet, IsInjective
  <1>2. Live = {}
    BY <1>1 DEF Init, Live
  <1>3. QueuesInv
    BY <1>1, <1>2, EngineAssumption DEF Init, QueuesInv
  <1>4. TokensInv
    BY <1>1, <1>2, EngineAssumption DEF Init, TokensInv
  <1>5. KvInv
    <2>1. \A r \in Requests : blocks[r] = 0 /\ blocks[r] \in Int
      BY DEF Init
    <2>2. UsedBlocks = SumFunctionOnSet(blocks, Requests)
      BY DEF Init, UsedBlocks, SumFunction
    <2>3. SumFunctionOnSet(blocks, Requests) = SumFunctionOnSet(blocks, {})
      <3>1. \A r \in Requests \ {} : blocks[r] = 0
        BY <2>1
      <3>. QED  BY <2>1, <3>1, SumZeros, BatchAssumption
    <2>4. UsedBlocks = 0
      BY <2>2, <2>3, SumOfNone
    <2>. QED  BY <1>1, <2>1, <2>4, BatchAssumption DEF Init, KvInv
  <1>6. LedgerInv
    BY <1>2 DEF Init, LedgerInv
  <1>7. FeedbackInv /\ FaultInv /\ IdleInv /\ PendingInv
    BY <1>1 DEF Init, FeedbackInv, FaultInv, IdleInv, PendingInv
  <1>. QED  BY <1>3, <1>4, <1>5, <1>6, <1>7 DEF EngineInv

(* A new request enters with nothing computed and its TTFT obligation open. *)
LEMMA AddRequestKeeps ==
  ASSUME EngineInv, NEW r \in Requests, AddRequest(r), UNCHANGED selection_mode
  PROVE  EngineInv'
  <1>1. /\ pending = None /\ r \notin Live \cup ended
        /\ waiting' = Append(waiting, r)
        /\ UNCHANGED <<running, computed, blocks, outputs, preempted, finished, ended,
                       control, feedback, pending, aborts, fault>>
    BY DEF AddRequest
  <1>2. /\ waiting' \in Seq(Requests) /\ IsInjective(waiting')
        /\ ToSet(waiting') = ToSet(waiting) \cup {r}
    <2>1. r \notin ToSet(waiting)
      BY <1>1 DEF Live
    <2>. QED  BY <1>1, <2>1, AppendFacts DEF EngineInv, QueuesInv
  <1>3. Live' = Live \cup {r}
    BY <1>1, <1>2 DEF Live
  <1>4. QueuesInv'
    BY <1>1, <1>2, <1>3 DEF EngineInv, QueuesInv, Live
  <1>5. computed[r] = 0 /\ outputs[r] = 0
    BY <1>1 DEF EngineInv, TokensInv
  <1>6. TokensInv'
    BY <1>1, <1>2, <1>3, <1>5, EngineAssumption DEF EngineInv, TokensInv
  <1>7. KvInv'
    BY <1>1 DEF EngineInv, KvInv, UsedBlocks
  <1>8. LedgerInv'
    <2>1. ledger' = [x \in Live \cup {r} |-> IF x = r THEN NewRecord ELSE ledger[x]]
      BY DEF AddRequest, EngineInv, LedgerInv
    <2>2. NewRecord \in Records /\ NewRecord.tbt = FALSE /\ NewRecord.returned = FALSE
      BY DEF NewRecord, Records
    <2>3. DOMAIN ledger' = Live' /\ ledger' \in [Live' -> Records]
      BY <1>3, <2>1, <2>2 DEF EngineInv, LedgerInv
    <2>4. ledger'[r] = NewRecord /\ \A x \in Live : ledger'[x] = ledger[x]
      BY <1>1, <2>1
    <2>5. ~(outputs[r] > 0)
      BY <1>5
    <2>. QED  BY <1>1, <1>3, <1>5, <2>2, <2>3, <2>4, <2>5 DEF EngineInv, LedgerInv
  <1>9. FeedbackInv' /\ FaultInv' /\ IdleInv' /\ PendingInv'
    BY <1>1 DEF EngineInv, FeedbackInv, FaultInv, IdleInv, PendingInv
  <1>. QED  BY <1>4, <1>6, <1>7, <1>8, <1>9 DEF EngineInv

(* vLLM frees live requests: they leave their queue, and with them their     *)
(* blocks.                                                                   *)
LEMMA ReleaseFacts ==
  ASSUME EngineInv, NEW S \in SUBSET Live, Release(S), computed' = computed,
         aborts' \in 0..MaxAborts
  PROVE  /\ QueuesInv' /\ KvInv' /\ Live' = Live \ S
         /\ ToSet(waiting') = ToSet(waiting) \ S /\ ToSet(running') = ToSet(running) \ S
  <1>1. /\ waiting \in Seq(Requests) /\ running \in Seq(Requests)
        /\ IsInjective(waiting) /\ IsInjective(running)
        /\ ToSet(waiting) \cap ToSet(running) = {}
    BY DEF EngineInv, QueuesInv
  <1>2. /\ waiting' = Keep(waiting, ToSet(waiting) \ S)
        /\ running' = Keep(running, ToSet(running) \ S)
    BY DEF Release, Drop
  <1>3. /\ waiting' \in Seq(Requests) /\ IsInjective(waiting')
        /\ ToSet(waiting') = ToSet(waiting) \ S
    <2>1. ToSet(waiting) \cap (ToSet(waiting) \ S) = ToSet(waiting) \ S
      OBVIOUS
    <2>. QED  BY <1>1, <1>2, <2>1, KeepFacts
  <1>4. /\ running' \in Seq(Requests) /\ IsInjective(running')
        /\ ToSet(running') = ToSet(running) \ S
    <2>1. ToSet(running) \cap (ToSet(running) \ S) = ToSet(running) \ S
      OBVIOUS
    <2>. QED  BY <1>1, <1>2, <2>1, KeepFacts
  <1>5. Live' = Live \ S
    BY <1>3, <1>4 DEF Live
  <1>6. QueuesInv'
    <2>1. S \subseteq Requests
      BY QueueTypes DEF EngineInv
    <2>2. /\ preempted' = preempted \ S /\ finished' = finished \cup S /\ ended' = ended \cup S
      BY DEF Release
    <2>3. Live' \cap ended' = {} /\ preempted' \subseteq ToSet(waiting')
      BY <1>3, <1>5, <2>2 DEF EngineInv, QueuesInv
    <2>4. finished' \subseteq Requests /\ ended' \subseteq Requests
      BY <2>1, <2>2 DEF EngineInv, QueuesInv
    <2>5. ToSet(waiting') \cap ToSet(running') = {}
      BY <1>1, <1>3, <1>4
    <2>. QED  BY <1>3, <1>4, <2>3, <2>4, <2>5 DEF QueuesInv
  <1>7. KvInv'
    <2>1. blocks' = [r \in Requests |-> IF r \in S THEN 0 ELSE blocks[r]]
      BY DEF Release
    <2>2. blocks \in [Requests -> Nat] /\ IsFiniteSet(Requests)
      BY BatchAssumption DEF EngineInv, KvInv
    <2>3. \A r \in Requests : /\ blocks'[r] \in Int /\ blocks[r] \in Int /\ blocks'[r] <= blocks[r]
                              /\ blocks'[r] \in Nat
      BY <2>1, <2>2
    <2>4. /\ UsedBlocks = SumFunctionOnSet(blocks, Requests)
          /\ UsedBlocks' = SumFunctionOnSet(blocks', Requests)
      BY <2>1, <2>2 DEF UsedBlocks, SumFunction
    <2>5. UsedBlocks' <= UsedBlocks /\ UsedBlocks \in Int /\ UsedBlocks' \in Int
      BY <2>2, <2>3, <2>4, SumMonotone, SumType
    <2>6. UsedBlocks' <= TotalBlocks
      BY <2>5, BatchAssumption DEF EngineInv, KvInv
    <2>7. \A r \in Requests :
             blocks'[r] = IF r \in ToSet(running') THEN Blocks(computed'[r]) ELSE 0
      BY <1>4, <2>1 DEF EngineInv, KvInv
    <2>8. Len(running') <= SequenceBudget
      <3>1. /\ IsFiniteSet(ToSet(running)) /\ Cardinality(ToSet(running)) = Len(running)
            /\ Cardinality(ToSet(running')) = Len(running')
        BY <1>1, <1>4, InjectiveLength
      <3>2. Cardinality(ToSet(running')) <= Cardinality(ToSet(running))
        BY <1>4, <3>1, FS_Subset
      <3>3. Len(running) \in Nat /\ Len(running') \in Nat
        BY <1>1, <1>4
      <3>. QED  BY <3>1, <3>2, <3>3, BatchAssumption DEF EngineInv, KvInv
    <2>9. blocks' \in [Requests -> Nat]
      BY <2>1, <2>2
    <2>. QED  BY <2>6, <2>7, <2>8, <2>9 DEF KvInv
  <1>. QED  BY <1>3, <1>4, <1>5, <1>6, <1>7

(* An abort takes one request out, whatever the iteration in flight does; its *)
(* terminal event waits for the iteration's feedback.                        *)
LEMMA AbortKeeps ==
  ASSUME EngineInv, NEW r \in Requests, Abort(r), UNCHANGED selection_mode
  PROVE  EngineInv'
  <1>1. /\ r \in Live /\ aborts < MaxAborts /\ aborts' = aborts + 1 /\ Release({r})
        /\ r \in DOMAIN ledger /\ ledger' = CloseLedger(r)
        /\ feedback' = feedback \cup TerminalUpdate(r)
        /\ UNCHANGED <<computed, outputs, control, pending, fault>>
    BY DEF Abort, EngineInv, LedgerInv
  <1>2. aborts' \in 0..MaxAborts
    BY <1>1, EngineAssumption DEF EngineInv, QueuesInv
  <1>3. /\ QueuesInv' /\ KvInv' /\ Live' = Live \ {r}
        /\ ToSet(waiting') = ToSet(waiting) \ {r} /\ ToSet(running') = ToSet(running) \ {r}
    BY <1>1, <1>2, ReleaseFacts
  <1>4. ended' = ended \cup {r} /\ preempted' = preempted \ {r}
    BY <1>1 DEF Release
  <1>5. Live' \cup ended' = Live \cup ended
    BY <1>1, <1>3, <1>4
  <1>6. TokensInv'
    BY <1>1, <1>3, <1>5 DEF EngineInv, TokensInv
  <1>7. LedgerInv'
    <2>1. ledger' = [x \in Live \ {r} |-> ledger[x]]
      BY <1>1 DEF CloseLedger, Without, EngineInv, LedgerInv
    <2>2. DOMAIN ledger' = Live' /\ ledger' \in [Live' -> Records]
      BY <1>3, <2>1 DEF EngineInv, LedgerInv
    <2>3. \A x \in Live' : x \in Live /\ ledger'[x] = ledger[x] /\ (x \notin preempted' => x \notin preempted)
      BY <1>3, <1>4, <2>1
    <2>. QED  BY <1>1, <2>2, <2>3 DEF EngineInv, LedgerInv
  <1>8. FeedbackInv'
    <2>1. \A u \in TerminalUpdate(r) :
             u.id = r /\ u.terminal = TRUE /\ u.initializes = FALSE /\ u.service = 0
      BY DEF TerminalUpdate, Update
    <2>. QED  BY <1>1, <1>4, <2>1 DEF EngineInv, FeedbackInv
  <1>9. IdleInv'
    BY <1>1, <1>3 DEF EngineInv, IdleInv
  <1>10. PendingInv'
    <2>1. \A x \in Live' : x \in Live /\ ledger'[x] = ledger[x]
      BY <1>1, <1>3 DEF CloseLedger, Without, EngineInv, LedgerInv
    <2>. QED  BY <1>1, <1>3, <2>1 DEF EngineInv, PendingInv
  <1>. QED  BY <1>1, <1>3, <1>6, <1>7, <1>8, <1>9, <1>10 DEF EngineInv, FaultInv

LEMMA RecordDurationKeeps ==
  ASSUME EngineInv, RecordDuration, UNCHANGED selection_mode
  PROVE  EngineInv'
  <1>1. /\ pending # None /\ pending' = [pending EXCEPT !.timed = TRUE]
        /\ UNCHANGED <<queues, ended, ledger, control, feedback, aborts, fault>>
    BY DEF RecordDuration
  <1>2. pending \in PendingIterations
    BY <1>1 DEF EngineInv, PendingInv
  <1>3. /\ pending' \in PendingIterations /\ pending'.prefills = pending.prefills
        /\ pending'.decodes = pending.decodes /\ pending'.work = pending.work
    BY <1>1, <1>2 DEF PendingIterations
  <1>4. pending' # None
    BY <1>3, EngineAssumption
  <1>5. QueuesInv' /\ TokensInv' /\ KvInv' /\ LedgerInv' /\ FeedbackInv' /\ FaultInv'
    BY <1>1 DEF EngineInv, QueuesInv, TokensInv, KvInv, LedgerInv, FeedbackInv, FaultInv,
                queues, Live, UsedBlocks
  <1>6. IdleInv' /\ PendingInv'
    BY <1>1, <1>3, <1>4 DEF EngineInv, IdleInv, PendingInv, queues, Live
  <1>. QED  BY <1>5, <1>6 DEF EngineInv

-----------------------------------------------------------------------------
(* The end of an iteration. *)

(* Who returns a token was scheduled and is still there; who returned one     *)
(* before was a decode of the bound snapshot.                                *)
LEMMA ReturningFacts ==
  ASSUME EngineInv, pending # None
  PROVE  /\ Returning \subseteq Live /\ Returning \subseteq DOMAIN ledger
         /\ Returning \subseteq Requests
         /\ \A r \in Returning : computed[r] >= Prompt[r]
         /\ \A r \in Returning : ledger[r].returned => r \in pending.decodes
         /\ \A r \in Returning : outputs[r] \in Nat /\ outputs[r] < MaxOutput
  <1>1. Returning \subseteq Live /\ \A r \in Returning : computed[r] >= Prompt[r]
    BY DEF Returning
  <1>2. \A r \in Returning : r \in pending.prefills \cup pending.decodes
    BY DEF Returning, EngineInv, PendingInv
  <1>3. \A r \in Live \cap pending.prefills : ~ledger[r].returned
    BY DEF EngineInv, PendingInv
  <1>4. DOMAIN ledger = Live /\ Live \subseteq Requests
    BY QueueTypes DEF EngineInv, LedgerInv
  <1>5. \A r \in Live : outputs[r] \in Nat /\ outputs[r] < MaxOutput
    BY <1>4 DEF EngineInv, TokensInv
  <1>. QED  BY <1>1, <1>2, <1>3, <1>4, <1>5

(* advance_service_debts never refuses the iteration's feedback. *)
LEMMA FeedbackFits ==
  ASSUME EngineInv, pending # None, NEW stops, NEW updates,
         updates = feedback \cup {TokenUpdate(r, stops) : r \in Returning}
  PROVE  /\ FeedbackMatches(updates)
         /\ \A u \in updates : u.terminal => u.id \in ended \cup stops
         /\ \A u \in updates : u.initializes => u.id \in Returning
         /\ \A r \in Returning \ stops : ~ledger[r].returned =>
               \E u \in updates : u.id = r /\ u.initializes
  <1>1. \A u \in feedback :
           u.id \in ended /\ u.terminal = TRUE /\ u.initializes = FALSE /\ u.service = 0
    BY DEF EngineInv, FeedbackInv
  <1>2. ASSUME NEW r \in Returning
        PROVE  /\ TokenUpdate(r, stops).id = r
               /\ TokenUpdate(r, stops).terminal <=> r \in stops
               /\ TokenUpdate(r, stops).initializes <=> ~ledger[r].returned /\ r \notin stops
               /\ TokenUpdate(r, stops).service = 1 => ledger[r].returned
    <2>1. ASSUME NEW x, x = TokenUpdate(r, stops)
          PROVE  /\ x.id = r
                 /\ x.service = 1 => ledger[r].returned
                 /\ x.terminal <=> r \in stops
                 /\ x.initializes <=> ~ledger[r].returned /\ r \notin stops
      <3>1. x = [id |-> r, initializes |-> ~ledger[r].returned /\ r \notin stops,
                 service |-> IF ledger[r].returned THEN 1 ELSE 0, terminal |-> r \in stops]
        BY <2>1 DEF TokenUpdate, Update
      <3>2. x.id = r /\ x.service = IF ledger[r].returned THEN 1 ELSE 0
        BY <3>1
      <3>3. x.terminal <=> r \in stops
        BY <3>1, Zenon
      <3>4. x.initializes <=> ~ledger[r].returned /\ r \notin stops
        BY <3>1, Zenon
      <3>5. x.service = 1 => ledger[r].returned
        BY <3>2
      <3>. QED  BY <3>2, <3>3, <3>4, <3>5, Zenon
    <2>. QED  BY <2>1, Zenon
  <1>3. ASSUME NEW u \in updates, u.service = 1 PROVE u.id \in pending.decodes
    <2>1. CASE u \in feedback
      BY <1>1, <1>3, <2>1
    <2>2. ASSUME NEW r \in Returning, u = TokenUpdate(r, stops) PROVE u.id \in pending.decodes
      BY <1>2, <1>3, <2>2, ReturningFacts
    <2>. QED  BY <2>1, <2>2
  <1>4. FeedbackMatches(updates)
    BY <1>3 DEF FeedbackMatches, EngineInv, PendingInv
  <1>5. ASSUME NEW u \in updates
        PROVE  /\ u.terminal => u.id \in ended \cup stops
               /\ u.initializes => u.id \in Returning
    BY <1>1, <1>2
  <1>6. ASSUME NEW r \in Returning \ stops, ~ledger[r].returned
        PROVE  \E u \in updates : u.id = r /\ u.initializes
    <2>1. TokenUpdate(r, stops) \in updates
      OBVIOUS
    <2>. QED  BY <1>2, <1>6, <2>1
  <1>. QED  BY <1>4, <1>5, <1>6

LEMMA UpdateFromOutputKeeps ==
  ASSUME EngineInv, UpdateFromOutput, UNCHANGED selection_mode
  PROVE  EngineInv'
  <1>1. pending # None /\ UNCHANGED <<computed, aborts>>
    BY DEF UpdateFromOutput
  <1>2. PICK stops \in SUBSET Returning,
             late \in SUBSET {r \in Returning \cap DOMAIN ledger :
                                 ledger[r].eligible /\ (ledger[r].ttft \/ ledger[r].tbt)} :
          LET updates == feedback \cup {TokenUpdate(r, stops) : r \in Returning} IN
          /\ \A r \in Returning : outputs[r] + 1 >= MaxOutput => r \in stops
          /\ Release(stops)
          /\ outputs' = [r \in Requests |->
                           IF r \in Returning THEN outputs[r] + 1 ELSE outputs[r]]
          /\ IF ~(Returning \subseteq DOMAIN ledger)
             THEN fault' = "no_ledger" /\ UNCHANGED <<ledger, control, feedback, pending>>
             ELSE /\ ledger' = [r \in DOMAIN ledger \ stops |->
                                   IF r \in Returning THEN AfterToken(ledger[r], r \in late)
                                   ELSE ledger[r]]
                  /\ IF ~FeedbackMatches(updates)
                     THEN fault' = "feedback_rejected" /\ UNCHANGED <<control, feedback, pending>>
                     ELSE /\ control' = AdvanceDebts(updates)
                          /\ feedback' = {}
                          /\ pending' = None
                          /\ UNCHANGED fault
    BY DEF UpdateFromOutput
  <1>. DEFINE updates == feedback \cup {TokenUpdate(r, stops) : r \in Returning}
  <1>3. /\ \A r \in Returning : outputs[r] + 1 >= MaxOutput => r \in stops
        /\ Release(stops)
        /\ outputs' = [r \in Requests |-> IF r \in Returning THEN outputs[r] + 1 ELSE outputs[r]]
    BY <1>2
  <1>4. /\ FeedbackMatches(updates)
        /\ \A u \in updates : u.terminal => u.id \in ended \cup stops
        /\ \A u \in updates : u.initializes => u.id \in Returning
        /\ \A r \in Returning \ stops : ~ledger[r].returned =>
              \E u \in updates : u.id = r /\ u.initializes
    BY <1>1, FeedbackFits
  <1>5. /\ ledger' = [r \in DOMAIN ledger \ stops |->
                        IF r \in Returning THEN AfterToken(ledger[r], r \in late) ELSE ledger[r]]
        /\ control' = AdvanceDebts(updates) /\ feedback' = {} /\ pending' = None
        /\ fault' = fault
    BY <1>1, <1>2, <1>4, ReturningFacts
  <1>. HIDE DEF updates
  <1>6. stops \subseteq Live /\ aborts' \in 0..MaxAborts
    BY <1>1, <1>2, ReturningFacts DEF EngineInv, QueuesInv
  <1>7. /\ QueuesInv' /\ KvInv' /\ Live' = Live \ stops
        /\ ToSet(waiting') = ToSet(waiting) \ stops /\ ToSet(running') = ToSet(running) \ stops
    BY <1>1, <1>3, <1>6, ReleaseFacts
  <1>8. ended' = ended \cup stops /\ preempted' = preempted \ stops
    BY <1>3 DEF Release
  <1>9. Live' \cup ended' = Live \cup ended
    BY <1>6, <1>7, <1>8
  <1>10. TokensInv'
    <2>1. outputs \in [Requests -> 0..MaxOutput] /\ MaxOutput \in Nat
      BY EngineAssumption DEF EngineInv, TokensInv
    <2>2. outputs' \in [Requests -> 0..MaxOutput]
      BY <1>1, <1>3, <2>1, ReturningFacts
    <2>3. \A r \in Requests \ (Live' \cup ended') : computed[r] = 0 /\ outputs'[r] = 0
      BY <1>1, <1>3, <1>9, ReturningFacts DEF EngineInv, TokensInv
    <2>4. ASSUME NEW r \in Live' PROVE outputs'[r] < MaxOutput
      <3>1. r \in Live /\ r \notin stops /\ r \in Requests
        BY <1>7, QueueTypes DEF EngineInv
      <3>2. outputs[r] < MaxOutput /\ outputs[r] \in Nat
        BY <2>1, <3>1 DEF EngineInv, TokensInv
      <3>. QED  BY <1>3, <2>1, <3>1, <3>2
    <2>. QED  BY <1>1, <1>7, <2>2, <2>3, <2>4 DEF EngineInv, TokensInv
  <1>11. LedgerInv'
    <2>1. DOMAIN ledger' = Live' /\ DOMAIN ledger = Live /\ ledger \in [Live -> Records]
      BY <1>5, <1>7 DEF EngineInv, LedgerInv
    <2>2. ASSUME NEW r \in Live'
          PROVE  /\ ledger'[r] \in Records
                 /\ ledger'[r].tbt => ledger'[r].returned
                 /\ ledger'[r].ttft => outputs'[r] = 0
                 /\ ledger'[r].returned <=> outputs'[r] > 0
                 /\ ledger'[r].returned /\ r \notin preempted' => computed'[r] >= Prompt[r]
      <3>1. r \in Live /\ r \notin stops /\ r \in Requests /\ ledger[r] \in Records
        BY <1>7, <2>1, QueueTypes DEF EngineInv
      <3>2. CASE r \in Returning
        <4>1. ledger'[r] = AfterToken(ledger[r], r \in late)
          BY <1>5, <2>1, <3>1, <3>2
        <4>2. /\ AfterToken(ledger[r], r \in late) \in Records
              /\ AfterToken(ledger[r], r \in late).tbt = TRUE
              /\ AfterToken(ledger[r], r \in late).ttft = FALSE
              /\ AfterToken(ledger[r], r \in late).returned = TRUE
          BY <3>1 DEF AfterToken, Records
        <4>3. outputs'[r] > 0
          BY <1>1, <1>3, <3>1, <3>2, ReturningFacts
        <4>4. computed'[r] >= Prompt[r]
          BY <1>1, <3>2, ReturningFacts
        <4>. QED  BY <4>1, <4>2, <4>3, <4>4
      <3>3. CASE r \notin Returning
        <4>1. ledger'[r] = ledger[r] /\ outputs'[r] = outputs[r] /\ computed'[r] = computed[r]
          BY <1>1, <1>3, <1>5, <2>1, <3>1, <3>3
        <4>2. r \notin preempted' => r \notin preempted
          BY <1>8, <3>1
        <4>. QED  BY <3>1, <4>1, <4>2 DEF EngineInv, LedgerInv
      <3>. QED  BY <3>2, <3>3
    <2>3. ledger' \in [Live' -> Records]
      BY <1>5, <2>1, <2>2
    <2>. QED  BY <2>1, <2>2, <2>3 DEF LedgerInv
  <1>12. IdleInv'
    <2>1. /\ control'.ttft = control.ttft \ pending.completes
          /\ control'.tbt = (control.tbt \cup {u.id : u \in {v \in updates : v.initializes}})
                               \ {u.id : u \in {v \in updates : v.terminal}}
      BY <1>5 DEF AdvanceDebts
    <2>2. /\ control.ttft = pending.prefills /\ control.tbt = pending.decodes
          /\ pending.prefills \subseteq Requests /\ pending.decodes \subseteq Requests
      BY <1>1 DEF EngineInv, PendingInv, PendingIterations
    <2>3. control'.ttft \subseteq Requests /\ control'.tbt \subseteq Requests
      BY <1>1, <1>4, <2>1, <2>2, ReturningFacts
    <2>4. ASSUME NEW r \in ToSet(running'), computed'[r] >= Prompt[r]
          PROVE  r \in control'.tbt /\ computed'[r] < Prompt[r] + outputs'[r]
      <3>1. /\ r \in ToSet(running) /\ r \in Live /\ r \notin stops /\ r \in Requests
            /\ r \notin ended /\ computed'[r] = computed[r]
        BY <1>1, <1>7, QueueTypes DEF EngineInv, QueuesInv, Live
      <3>2. /\ r \in pending.decodes \cup Scheduled(pending.work)
            /\ computed[r] <= Prompt[r] + outputs[r]
            /\ r \notin Scheduled(pending.work) => computed[r] < Prompt[r] + outputs[r]
        BY <1>1, <2>4, <3>1 DEF EngineInv, PendingInv
      <3>3. /\ computed[r] \in Nat /\ Prompt[r] \in Nat /\ outputs[r] \in Nat
        BY <3>1, PhaseFacts DEF EngineInv, TokensInv
      <3>4. r \notin {u.id : u \in {v \in updates : v.terminal}}
        BY <1>4, <3>1
      <3>5. r \in Scheduled(pending.work) => r \in Returning
        BY <2>4, <3>1 DEF Returning
      <3>6. computed'[r] < Prompt[r] + outputs'[r]
        <4>1. CASE r \in Returning
          <5>1. outputs'[r] = outputs[r] + 1
            BY <1>3, <3>1, <4>1
          <5>. QED  BY <3>1, <3>2, <3>3, <5>1
        <4>2. CASE r \notin Returning
          <5>1. outputs'[r] = outputs[r]
            BY <1>3, <3>1, <4>2
          <5>. QED  BY <3>1, <3>2, <3>5, <4>2, <5>1
        <4>. QED  BY <4>1, <4>2
      <3>7. CASE r \in pending.decodes
        BY <2>1, <2>2, <3>4, <3>6, <3>7
      <3>8. CASE r \notin pending.decodes
        <4>1. r \in Returning \ stops
          BY <3>1, <3>2, <3>5, <3>8
        <4>2. ~ledger[r].returned
          BY <1>1, <3>8, <4>1, ReturningFacts
        <4>3. r \in {u.id : u \in {v \in updates : v.initializes}}
          BY <1>4, <4>1, <4>2
        <4>. QED  BY <2>1, <3>4, <3>6, <4>3
      <3>. QED  BY <3>7, <3>8
    <2>. QED  BY <2>3, <2>4 DEF IdleInv
  <1>13. FeedbackInv' /\ FaultInv' /\ PendingInv'
    BY <1>5 DEF FeedbackInv, FaultInv, PendingInv, EngineInv
  <1>. QED  BY <1>7, <1>10, <1>11, <1>12, <1>13 DEF EngineInv

-----------------------------------------------------------------------------
(* The beginning of an iteration: schedule. *)

(* Expiry closes obligations, opens none and forgets no token. *)
LEMMA ExpiredFacts ==
  ASSUME EngineInv, NEW due
  PROVE  /\ DOMAIN Expired(due) = Live /\ Expired(due) \in [Live -> Records]
         /\ \A r \in Live : /\ Expired(due)[r].tbt => ledger[r].tbt
                            /\ Expired(due)[r].ttft => ledger[r].ttft
                            /\ Expired(due)[r].returned <=> ledger[r].returned
  <1>1. DOMAIN ledger = Live /\ ledger \in [Live -> Records]
    BY DEF EngineInv, LedgerInv
  <1>2. Expired(due) =
          [r \in Live |->
             IF r \notin due THEN ledger[r]
             ELSE [ledger[r] EXCEPT !.ttft = FALSE, !.tbt = FALSE, !.eligible = FALSE,
                                    !.recovering = @ \/ ledger[r].tbt]]
    BY <1>1 DEF Expired
  <1>3. ASSUME NEW r \in Live
        PROVE  /\ Expired(due)[r] \in Records
               /\ Expired(due)[r].tbt => ledger[r].tbt
               /\ Expired(due)[r].ttft => ledger[r].ttft
               /\ Expired(due)[r].returned <=> ledger[r].returned
    <2>1. ledger[r] \in Records
      BY <1>1
    <2>2. CASE r \notin due
      BY <1>2, <2>1, <2>2
    <2>3. CASE r \in due
      <3>1. Expired(due)[r] = [ledger[r] EXCEPT !.ttft = FALSE, !.tbt = FALSE, !.eligible = FALSE,
                                                !.recovering = @ \/ ledger[r].tbt]
        BY <1>2, <2>3
      <3>2. ASSUME NEW q \in Records, NEW x,
                   x = [q EXCEPT !.ttft = FALSE, !.tbt = FALSE, !.eligible = FALSE,
                                 !.recovering = @ \/ q.tbt]
            PROVE  x \in Records /\ x.tbt = FALSE /\ x.ttft = FALSE /\ x.returned = q.returned
        <4>1. q.recovering \/ q.tbt \in BOOLEAN
          BY <3>2 DEF Records
        <4>2. x = [ttft |-> FALSE, tbt |-> FALSE, returned |-> q.returned, eligible |-> FALSE,
                   recovering |-> q.recovering \/ q.tbt]
          BY <3>2 DEF Records
        <4>3. x \in Records
          BY <4>1, <4>2 DEF Records
        <4>4. x.tbt = FALSE /\ x.ttft = FALSE /\ x.returned = q.returned
          BY <4>2
        <4>. QED  BY <4>3, <4>4
      <3>. QED  BY <2>1, <3>1, <3>2
    <2>. QED  BY <2>2, <2>3
  <1>. QED  BY <1>2, <1>3

(* The ledger still mirrors the queues when a round computes more, and       *)
(* forgets the work only of those it preempts.                               *)
LEMMA RoundKeepsLedger ==
  ASSUME EngineInv, NEW due, ledger' = Expired(due), Live' = Live, outputs' = outputs,
         preempted \subseteq preempted',
         \A r \in Live \ preempted' : computed'[r] \in Nat /\ computed'[r] >= computed[r]
  PROVE  LedgerInv'
  <1>1. DOMAIN ledger' = Live' /\ ledger' \in [Live' -> Records]
    BY ExpiredFacts
  <1>2. ASSUME NEW r \in Live'
        PROVE  /\ ledger'[r].tbt => ledger'[r].returned
               /\ ledger'[r].ttft => outputs'[r] = 0
               /\ ledger'[r].returned <=> outputs'[r] > 0
               /\ ledger'[r].returned /\ r \notin preempted' => computed'[r] >= Prompt[r]
    <2>1. r \in Live
      BY <1>2
    <2>2. /\ ledger'[r].tbt => ledger[r].tbt
          /\ ledger'[r].ttft => ledger[r].ttft
          /\ ledger'[r].returned <=> ledger[r].returned
      BY <2>1, ExpiredFacts
    <2>3. /\ ledger[r].tbt => ledger[r].returned
          /\ ledger[r].ttft => outputs[r] = 0
          /\ ledger[r].returned <=> outputs[r] > 0
          /\ ledger[r].returned /\ r \notin preempted => computed[r] >= Prompt[r]
      BY <2>1 DEF EngineInv, LedgerInv
    <2>4. ledger'[r].returned /\ r \notin preempted' => computed'[r] >= Prompt[r]
      BY <2>1, <2>2, <2>3, PhaseFacts
    <2>. QED  BY <2>2, <2>3, <2>4
  <1>. QED  BY <1>1, <1>2 DEF LedgerInv

(* bind_snapshot finds a debt for every decode of the snapshot. *)
LEMMA BoundDebts ==
  ASSUME EngineInv, pending = None
  PROVE  /\ BindSnapshot(Snapshot).ttft = Prefills(Snapshot)
         /\ BindSnapshot(Snapshot).tbt = Decodes(Snapshot)
         /\ Prefills(Snapshot) \subseteq Requests /\ Decodes(Snapshot) \subseteq Requests
  <1>1. Decodes(Snapshot) \subseteq control.tbt
    BY PhaseFacts DEF EngineInv, IdleInv
  <1>. QED  BY <1>1, SnapshotInv, SnapshotFacts DEF BindSnapshot

(* An exception of the list leaves the queues as they are. *)
LEMMA RaiseKeeps ==
  ASSUME EngineInv, pending = None, NEW due, ledger' = Expired(due), NEW what, Raise(what),
         what \in {"preempted_request", "stock_without_work", "zero_reference_missing"},
         control' \in {control, BindSnapshot(Snapshot)}, feedback' \in {feedback, {}},
         UNCHANGED aborts
  PROVE  EngineInv'
  <1>1. /\ UNCHANGED <<queues, ended, pending, aborts>> /\ fault' = what
    BY DEF Raise
  <1>2. QueuesInv' /\ TokensInv' /\ KvInv' /\ FaultInv'
    BY <1>1 DEF EngineInv, QueuesInv, TokensInv, KvInv, FaultInv, queues, Live, UsedBlocks
  <1>3. LedgerInv'
    <2>1. Live' = Live /\ outputs' = outputs /\ preempted' = preempted /\ computed' = computed
      BY <1>1 DEF queues, Live
    <2>2. \A r \in Live : computed'[r] \in Nat /\ computed'[r] >= computed[r]
      BY <2>1, PhaseFacts
    <2>. QED  BY <2>1, <2>2, RoundKeepsLedger
  <1>4. FeedbackInv' /\ PendingInv'
    BY <1>1 DEF EngineInv, FeedbackInv, PendingInv
  <1>5. IdleInv'
    <2>1. control'.ttft \subseteq Requests /\ control'.tbt \subseteq Requests
      BY BoundDebts DEF EngineInv, IdleInv
    <2>2. \A r \in ToSet(running) : computed[r] >= Prompt[r] =>
             r \in control'.tbt /\ computed[r] < Prompt[r] + outputs[r]
      BY BoundDebts, PhaseFacts DEF EngineInv, IdleInv
    <2>. QED  BY <1>1, <2>1, <2>2 DEF IdleInv, queues
  <1>. QED  BY <1>2, <1>3, <1>4, <1>5 DEF EngineInv

(* What is bound to an iteration describes it. *)
LEMMA BindKeeps ==
  ASSUME EngineInv, pending = None, preempted = {}, NEW due, ledger' = Expired(due),
         control' = BindSnapshot(Snapshot), NEW w, IsPlan(Snapshot, w), Bind(Snapshot, w),
         Live # {} => w # NoWork, Live' = Live, outputs' = outputs,
         ToSet(running') \subseteq Live,
         \A r \in ToSet(running') : computed'[r] = computed[r] + TokensOf(w, r)
  PROVE  PendingInv' /\ IdleInv'
  <1>. DEFINE P == Prefills(Snapshot)
              D == Decodes(Snapshot)
  <1>1. /\ pending'.prefills = P /\ pending'.decodes = D /\ pending'.work = w
        /\ pending' \in PendingIterations
    <2>1. P \subseteq Requests /\ D \subseteq Requests
      BY BoundDebts
    <2>2. w \in [prefill : Seq(Requests \X (Nat \ {0})), decode : SUBSET Requests]
      BY DEF IsPlan, Plans, Items
    <2>3. {r \in P : TokensOf(w, r) >= Remaining(Snapshot, r)} \in SUBSET Requests
      BY <2>1
    <2>4. pending' = [prefills |-> P, decodes |-> D, work |-> w,
                      completes |-> {r \in P : TokensOf(w, r) >= Remaining(Snapshot, r)},
                      timed |-> FALSE]
      BY DEF Bind
    <2>. HIDE DEF P, D
    <2>5. pending' \in PendingIterations
      BY <2>1, <2>2, <2>3, <2>4 DEF PendingIterations
    <2>. QED  BY <2>4, <2>5
  <1>2. pending' # None
    BY <1>1, EngineAssumption
  <1>3. control'.ttft = P /\ control'.tbt = D
    BY BoundDebts
  <1>4. P \cup D = Live /\ P \cap D = {}
    BY PhaseFacts
  <1>5. Scheduled(w) \subseteq P \cup D
    BY <1>4, SnapshotInv, TokensOfFacts
  <1>6. P \cup D # {} => Tokens(w) > 0
    BY <1>4, TokensFacts DEF IsPlan
  <1>7. \A r \in Live \cap P : ~ledger'[r].returned
    <2>1. ASSUME NEW r \in Live, r \in P PROVE ~ledger[r].returned
      <3>1. computed[r] < Prompt[r] /\ computed[r] \in Nat /\ Prompt[r] \in Nat
        BY <2>1, PhaseFacts
      <3>2. ledger[r].returned => computed[r] >= Prompt[r]
        BY DEF EngineInv, LedgerInv
      <3>. QED  BY <3>1, <3>2
    <2>. QED  BY <2>1, ExpiredFacts
  <1>8. ASSUME NEW r \in ToSet(running'), computed'[r] >= Prompt[r]
        PROVE  /\ r \in D \cup Scheduled(w)
               /\ computed'[r] <= Prompt[r] + outputs[r]
               /\ r \notin Scheduled(w) => computed'[r] < Prompt[r] + outputs[r]
    <2>1. /\ r \in Live /\ r \in Requests /\ computed'[r] = computed[r] + TokensOf(w, r)
          /\ computed[r] \in Nat /\ Prompt[r] \in Nat /\ outputs[r] \in Nat
      BY QueueTypes, PhaseFacts DEF EngineInv, TokensInv
    <2>2. /\ r \in w.decode => TokensOf(w, r) = 1
          /\ r \in PrefillIds(w) => TokensOf(w, r) \in 1..Remaining(Snapshot, r)
          /\ r \notin Scheduled(w) => TokensOf(w, r) = 0
          /\ PrefillIds(w) \subseteq P /\ w.decode \subseteq D
          /\ Scheduled(w) = PrefillIds(w) \cup w.decode
      BY SnapshotInv, TokensOfFacts DEF IsPlan, Scheduled
    <2>3. CASE r \in D
      <3>1. computed[r] < Prompt[r] + outputs[r]
        BY <2>3, PhaseFacts DEF EngineInv, IdleInv
      <3>2. r \notin PrefillIds(w)
        BY <1>4, <2>2, <2>3
      <3>3. TokensOf(w, r) \in {0, 1} /\ (r \notin Scheduled(w) => TokensOf(w, r) = 0)
        BY <2>2, <3>2
      <3>. QED  BY <2>1, <2>3, <3>1, <3>3
    <2>4. CASE r \notin D
      <3>1. r \in P /\ computed[r] < Prompt[r] /\ r \notin w.decode
        BY <1>4, <2>1, <2>2, <2>4, PhaseFacts
      <3>2. r \in PrefillIds(w)
        BY <1>8, <2>1, <2>2, <3>1
      <3>3. Remaining(Snapshot, r) = Prompt[r] - computed[r]
        BY SnapshotInv DEF Remaining
      <3>4. computed'[r] <= Prompt[r]
        BY <2>1, <2>2, <3>2, <3>3
      <3>. QED  BY <2>1, <2>2, <3>2, <3>4
    <2>. QED  BY <2>3, <2>4
  <1>. HIDE DEF P, D
  <1>9. PendingInv'
    BY <1>1, <1>2, <1>3, <1>5, <1>6, <1>7, <1>8 DEF PendingInv
  <1>. QED  BY <1>2, <1>9 DEF IdleInv

(* The larger of two numbers in order. *)
LEMMA MaxOfTwo ==
  ASSUME NEW a \in Nat, NEW b \in Nat, a <= b
  PROVE  Max({a, b}) = b
  <1>1. b \in {a, b} /\ \A y \in {a, b} : b >= y
    OBVIOUS
  <1>2. \A m \in {a, b} : (\A y \in {a, b} : m >= y) => m = b
    OBVIOUS
  <1>. QED  BY <1>1, <1>2 DEF Max

(* What the prompts of a plan are, in order. *)
LEMMA PromptFacts ==
  ASSUME NEW s, IsSnapshot(s), NEW w, IsPlan(s, w)
  PROVE  /\ PromptsOf(w) \in Seq(Requests) /\ IsInjective(PromptsOf(w))
         /\ ToSet(PromptsOf(w)) = PrefillIds(w)
  <1>1. /\ w.prefill \in Seq(Items) /\ DOMAIN w.prefill = 1..Len(w.prefill)
        /\ Len(w.prefill) \in Nat
        /\ \A i \in DOMAIN w.prefill : w.prefill[i][1] \in Requests
    BY PlanFacts DEF IsPlan
  <1>2. /\ PromptsOf(w) = [i \in 1..Len(w.prefill) |-> w.prefill[i][1]]
        /\ PromptsOf(w) \in Seq(Requests) /\ Len(PromptsOf(w)) = Len(w.prefill)
        /\ DOMAIN PromptsOf(w) = DOMAIN w.prefill
    BY <1>1 DEF PromptsOf
  <1>3. IsInjective(PromptsOf(w))
    BY <1>1, <1>2 DEF IsInjective, IsPlan
  <1>4. ToSet(PromptsOf(w)) = PrefillIds(w)
    BY <1>1, <1>2 DEF ToSet, PrefillIds
  <1>. QED  BY <1>2, <1>3, <1>4

(* allocate_slots never takes a block back: what a request holds becomes     *)
(* what its tokens need.                                                     *)
LEMMA AllocatedFacts ==
  ASSUME EngineInv, NEW w, IsPlan(Snapshot, w)
  PROVE  /\ Allocated(Snapshot, w) \in [Requests -> Nat]
         /\ \A r \in Requests : Allocated(Snapshot, w)[r] =
               IF r \in Scheduled(w) THEN Blocks(computed[r] + TokensOf(w, r)) ELSE blocks[r]
  <1>. DEFINE s == Snapshot
              held == Allocated(s, w)
  <1>1. IsSnapshot(s) /\ s.computed = computed
    BY SnapshotInv
  <1>2. ASSUME NEW r \in Requests
        PROVE  /\ held[r] \in Nat
               /\ held[r] = IF r \in Scheduled(w) THEN Blocks(computed[r] + TokensOf(w, r)) ELSE blocks[r]
    <2>1. /\ computed[r] \in Nat /\ TokensOf(w, r) \in Nat /\ blocks[r] \in Nat
          /\ blocks[r] = Blocks(computed[r]) \/ blocks[r] = 0
      BY <1>1, TokensOfFacts DEF EngineInv, TokensInv, KvInv
    <2>. DEFINE c == computed[r] + TokensOf(w, r)
    <2>2. c \in Nat /\ computed[r] <= c
      BY <2>1
    <2>3. Blocks(c) \in Nat /\ Blocks(computed[r]) <= Blocks(c)
      BY <2>1, <2>2, BlocksFacts
    <2>4. blocks[r] <= Blocks(c)
      BY <2>1, <2>3
    <2>5. Max({blocks[r], Blocks(c)}) = Blocks(c)
      BY <2>1, <2>3, <2>4, MaxOfTwo
    <2>6. held[r] = IF r \in Scheduled(w) THEN Max({blocks[r], Blocks(c)}) ELSE blocks[r]
      BY <1>1 DEF Allocated
    <2>. QED  BY <2>1, <2>3, <2>5, <2>6
  <1>3. DOMAIN held = Requests /\ held = [r \in Requests |-> held[r]]
    BY DEF Allocated
  <1>. QED  BY <1>2, <1>3

(* A plan that the adapter's validation and the allocator accept, and that   *)
(* does some work if there is any.                                           *)
Allocatable(s, w) ==
  /\ IsPlan(s, w)
  /\ Tokens(w) <= TokenBudget
  /\ ProjectSequences(s, w) <= SequenceBudget
  /\ ProjectKv(s, w) <= TotalBlocks
  /\ Workload(s) # {} => w # NoWork

(* Executing one is not refused: the projection that admitted the plan is    *)
(* what the allocation takes.                                                *)
LEMMA AllocationFits ==
  ASSUME EngineInv, NEW w, Allocatable(Snapshot, w)
  PROVE  /\ Admissible(Snapshot, w)
         /\ Allocated(Snapshot, w) \in [Requests -> Nat]
         /\ \A r \in Requests : Allocated(Snapshot, w)[r] =
               IF r \in Scheduled(w) THEN Blocks(computed[r] + TokensOf(w, r)) ELSE blocks[r]
         /\ SumFunction(Allocated(Snapshot, w)) <= TotalBlocks
  <1>. DEFINE s == Snapshot
              held == Allocated(s, w)
  <1>1. /\ IsSnapshot(s) /\ IsPlan(s, w) /\ IsAccounted(s, blocks) /\ s.computed = computed
        /\ RunningSet(s) = ToSet(running)
    BY SnapshotInv DEF Allocatable
  <1>2. Admissible(s, w)
    <2>1. \A i \in DOMAIN w.prefill : w.prefill[i][2] \in 1..Remaining(s, w.prefill[i][1])
      <3>1. ASSUME NEW i \in DOMAIN w.prefill
            PROVE  w.prefill[i][2] \in 1..Remaining(s, w.prefill[i][1])
        <4>1. w.prefill[i][2] \in Nat \ {0} /\ w.prefill[i][1] \in Requests
          BY <1>1, PlanFacts DEF IsPlan
        <4>2. w.prefill[i][2] <= Remaining(s, w.prefill[i][1])
          BY <1>1 DEF IsPlan
        <4>3. Remaining(s, w.prefill[i][1]) \in Int
          BY <1>1, <4>1, SnapshotFacts
        <4>. QED  BY <4>1, <4>2, <4>3
      <3>. QED  BY <3>1
    <2>. QED  BY <2>1 DEF Admissible, Allocatable
  <1>3. /\ held \in [Requests -> Nat]
        /\ \A r \in Requests : held[r] =
              IF r \in Scheduled(w) THEN Blocks(computed[r] + TokensOf(w, r)) ELSE blocks[r]
    BY <1>1, AllocatedFacts
  <1>5. SumFunction(held) = SumFunctionOnSet(held, Requests)
    BY <1>3 DEF SumFunction
  <1>6. /\ SumFunctionOnSet(held, Requests) = ProjectKv(s, w) - Released(s, {})
        /\ ProjectKv(s, w) \in Int
    <2>. DEFINE none == {}
    <2>1. \A r \in Requests : held[r] = IF r \in none THEN 0
                                        ELSE IF r \in Scheduled(w)
                                        THEN Blocks(s.computed[r] + TokensOf(w, r))
                                        ELSE blocks[r]
      BY <1>1, <1>3
    <2>2. none \in SUBSET RunningSet(s) /\ none \cap Scheduled(w) = {}
      OBVIOUS
    <2>3. SumFunctionOnSet(held, Requests) = ProjectKv(s, w) - Released(s, none)
      <3>. HIDE DEF held, s, none
      <3>. QED  BY <1>1, <2>1, <2>2, ProjectionIsHeld
    <2>. QED  BY <1>1, <2>3, ProjectionType
  <1>7. Released(s, {}) = 0
    <2>1. SumFunctionOnSet([r \in {} |-> Blocks(s.computed[r])], {}) = 0
      BY SumOfNone
    <2>. QED  BY <2>1 DEF Released, SumFunction
  <1>8. SumFunction(held) <= TotalBlocks
    BY <1>5, <1>6, <1>7 DEF Allocatable
  <1>. QED  BY <1>1, <1>2, <1>3, <1>8

(* Executing an allocatable plan keeps the invariant. *)
LEMMA ExecuteExactKeeps ==
  ASSUME EngineInv, fault = "none", pending = None, preempted = {}, NEW due,
         ledger' = Expired(due), control' = BindSnapshot(Snapshot), feedback' = {},
         UNCHANGED aborts,
         NEW w, Allocatable(Snapshot, w), ExecuteExact(Snapshot, w)
  PROVE  EngineInv'
  <1>. DEFINE s == Snapshot
              admitted == Admitted(s, w)
              held == Allocated(s, w)
  <1>1. /\ IsSnapshot(s) /\ IsPlan(s, w) /\ s.running = running /\ s.waiting = waiting
        /\ s.computed = computed /\ RunningSet(s) = ToSet(running) /\ Workload(s) = Live
    BY SnapshotInv DEF Allocatable
  <1>2. /\ waiting' = Drop(waiting, ToSet(admitted))
        /\ running' = running \o admitted
        /\ computed' = [r \in Requests |-> computed[r] + TokensOf(w, r)]
        /\ blocks' = held
        /\ finished' = {}
        /\ Bind(s, w)
        /\ UNCHANGED <<outputs, preempted, ended, fault>>
    <2>1. Admissible(s, w) /\ ~(SumFunction(held) > TotalBlocks)
      <3>1. held \in [Requests -> Nat] /\ IsFiniteSet(Requests)
        BY AllocationFits, BatchAssumption
      <3>2. SumFunction(held) = SumFunctionOnSet(held, Requests)
        BY <3>1 DEF SumFunction
      <3>3. SumFunction(held) \in Nat
        BY <3>1, <3>2, SumNat
      <3>. QED  BY <3>3, AllocationFits, BatchAssumption
    <2>. QED  BY <2>1 DEF ExecuteExact
  <1>3. /\ waiting \in Seq(Requests) /\ running \in Seq(Requests)
        /\ IsInjective(waiting) /\ IsInjective(running)
        /\ ToSet(waiting) \cap ToSet(running) = {}
    BY DEF EngineInv, QueuesInv
  <1>4. /\ admitted \in Seq(Requests) /\ IsInjective(admitted)
        /\ ToSet(admitted) = PrefillIds(w) \cap ToSet(waiting)
    <2>1. admitted = Keep(PromptsOf(w), ToSet(waiting))
      BY <1>1 DEF Admitted
    <2>2. /\ PromptsOf(w) \in Seq(Requests) /\ IsInjective(PromptsOf(w))
          /\ ToSet(PromptsOf(w)) = PrefillIds(w)
      BY <1>1, PromptFacts
    <2>. HIDE DEF admitted
    <2>. QED  BY <2>1, <2>2, KeepFacts
  <1>5. /\ PrefillIds(w) \subseteq Prefills(s) /\ Scheduled(w) \subseteq Live
        /\ w.decode \subseteq ToSet(running)
        /\ Scheduled(w) = PrefillIds(w) \cup w.decode
    <2>1. Decodes(s) \subseteq ToSet(running)
      BY <1>1 DEF Decodes
    <2>2. w.decode \subseteq Decodes(s)
      BY <1>1 DEF IsPlan
    <2>. QED  BY <1>1, <2>1, <2>2, TokensOfFacts DEF Scheduled
  <1>6. Scheduled(w) \cap ToSet(waiting) = ToSet(admitted)
    BY <1>3, <1>4, <1>5
  <1>7. /\ waiting' \in Seq(Requests) /\ IsInjective(waiting')
        /\ ToSet(waiting') = ToSet(waiting) \ ToSet(admitted)
    <2>1. waiting' = Keep(waiting, ToSet(waiting) \ ToSet(admitted))
      BY <1>2 DEF Drop
    <2>2. ToSet(waiting) \cap (ToSet(waiting) \ ToSet(admitted)) = ToSet(waiting) \ ToSet(admitted)
      OBVIOUS
    <2>. QED  BY <1>3, <2>1, <2>2, KeepFacts
  <1>8. /\ running' \in Seq(Requests) /\ IsInjective(running')
        /\ ToSet(running') = ToSet(running) \cup ToSet(admitted)
        /\ Len(running') = Len(running) + Len(admitted)
    <2>1. ToSet(running) \cap ToSet(admitted) = {}
      BY <1>3, <1>4
    <2>. HIDE DEF admitted
    <2>. QED  BY <1>2, <1>3, <1>4, <2>1, ConcatFacts
  <1>. HIDE DEF admitted, held, s
  <1>9. Live' = Live
    BY <1>4, <1>7, <1>8 DEF Live
  <1>10. QueuesInv'
    <2>1. preempted' = {} /\ finished' = {} /\ ended' = ended
      BY <1>2
    <2>2. ToSet(waiting') \cap ToSet(running') = {}
      BY <1>3, <1>7, <1>8
    <2>. QED  BY <1>7, <1>8, <1>9, <2>1, <2>2 DEF EngineInv, QueuesInv
  <1>11. \A r \in Requests : /\ computed'[r] = computed[r] + TokensOf(w, r)
                             /\ computed[r] \in Nat /\ TokensOf(w, r) \in Nat
                             /\ r \notin Scheduled(w) => TokensOf(w, r) = 0
    BY <1>1, <1>2, TokensOfFacts DEF EngineInv, TokensInv
  <1>12. TokensInv'
    <2>1. computed' \in [Requests -> Nat] /\ outputs' = outputs /\ ended' = ended
      BY <1>2, <1>11
    <2>2. ASSUME NEW r \in ToSet(waiting') PROVE computed'[r] = 0
      <3>1. r \in ToSet(waiting) /\ r \notin Scheduled(w) /\ r \in Requests
        BY <1>6, <1>7, QueueTypes DEF EngineInv
      <3>2. computed[r] = 0
        BY <3>1 DEF EngineInv, TokensInv
      <3>. QED  BY <1>11, <3>1, <3>2
    <2>3. ASSUME NEW r \in Requests \ (Live' \cup ended') PROVE computed'[r] = 0 /\ outputs'[r] = 0
      <3>1. r \in Requests \ (Live \cup ended) /\ r \notin Scheduled(w)
        BY <1>5, <1>9, <2>1
      <3>2. computed[r] = 0 /\ outputs[r] = 0
        BY <3>1 DEF EngineInv, TokensInv
      <3>. QED  BY <1>11, <2>1, <3>1, <3>2
    <2>. QED  BY <1>9, <2>1, <2>2, <2>3 DEF EngineInv, TokensInv
  <1>13. KvInv'
    <2>1. /\ held \in [Requests -> Nat]
          /\ \A r \in Requests : held[r] =
                IF r \in Scheduled(w) THEN Blocks(computed[r] + TokensOf(w, r)) ELSE blocks[r]
          /\ SumFunction(held) <= TotalBlocks
      BY AllocationFits DEF held, s
    <2>2. ASSUME NEW r \in Requests
          PROVE  blocks'[r] = IF r \in ToSet(running') THEN Blocks(computed'[r]) ELSE 0
      <3>1. computed'[r] = computed[r] + TokensOf(w, r)
        BY <1>11
      <3>2. CASE r \in Scheduled(w)
        <4>1. r \in ToSet(running')
          BY <1>5, <1>6, <1>8, <3>2 DEF Live
        <4>. QED  BY <1>2, <2>1, <3>1, <3>2, <4>1
      <3>3. CASE r \notin Scheduled(w)
        <4>1. r \in ToSet(running') <=> r \in ToSet(running)
          BY <1>6, <1>8, <3>3
        <4>2. computed'[r] = computed[r]
          BY <1>11, <3>3
        <4>3. blocks[r] = IF r \in ToSet(running) THEN Blocks(computed[r]) ELSE 0
          BY DEF EngineInv, KvInv
        <4>. QED  BY <1>2, <2>1, <3>3, <4>1, <4>2, <4>3
      <3>. QED  BY <3>2, <3>3
    <2>3. Len(running') <= SequenceBudget
      <3>1. ProjectSequences(s, w) = Len(running) + Cardinality(ToSet(admitted))
        BY <1>1, <1>6 DEF ProjectSequences
      <3>2. Cardinality(ToSet(admitted)) = Len(admitted)
        BY <1>4, InjectiveLength
      <3>3. ProjectSequences(s, w) <= SequenceBudget
        BY DEF Allocatable, s
      <3>. QED  BY <1>8, <3>1, <3>2, <3>3
    <2>4. UsedBlocks' <= TotalBlocks
      BY <1>2, <2>1 DEF UsedBlocks
    <2>. QED  BY <1>2, <2>1, <2>2, <2>3, <2>4 DEF KvInv
  <1>14. LedgerInv'
    <2>1. outputs' = outputs /\ preempted' = preempted
      BY <1>2
    <2>2. \A r \in Live \ preempted' : computed'[r] \in Nat /\ computed'[r] >= computed[r]
      <3>1. \A r \in Live : r \in Requests
        BY QueueTypes DEF EngineInv
      <3>2. ASSUME NEW r \in Live PROVE computed'[r] \in Nat /\ computed'[r] >= computed[r]
        BY <1>11, <3>1
      <3>. QED  BY <3>2
    <2>. QED  BY <1>9, <2>1, <2>2, RoundKeepsLedger
  <1>15. PendingInv' /\ IdleInv'
    <2>1. \A r \in ToSet(running') : computed'[r] = computed[r] + TokensOf(w, r)
      BY <1>8, <1>11, QueueTypes, <1>9 DEF EngineInv, Live
    <2>2. ToSet(running') \subseteq Live /\ outputs' = outputs
      BY <1>2, <1>9 DEF Live
    <2>3. Live # {} => w # NoWork
      BY <1>1 DEF Allocatable, s
    <2>4. IsPlan(Snapshot, w) /\ Bind(Snapshot, w)
      BY <1>1, <1>2 DEF s
    <2>. QED  BY <1>9, <2>1, <2>2, <2>3, <2>4, BindKeeps
  <1>16. FeedbackInv' /\ FaultInv'
    BY <1>2 DEF EngineInv, FeedbackInv, FaultInv
  <1>. QED  BY <1>10, <1>12, <1>13, <1>14, <1>15, <1>16 DEF EngineInv

(* vLLM's own schedule keeps the invariant, whoever it preempts. *)
LEMMA ExecuteNativeKeeps ==
  ASSUME EngineInv, fault = "none", pending = None, preempted = {}, NEW due,
         ledger' = Expired(due), control' = BindSnapshot(Snapshot), feedback' = {},
         UNCHANGED aborts, ExecuteNative(Snapshot)
  PROVE  EngineInv'
  <1>. DEFINE s == Snapshot
              w == NativePlan(s)
              kept == NativeKept(s)
              victims == RunningSet(s) \ ToSet(kept)
              admitted == Keep(waiting, Scheduled(w))
              remaining == Drop(waiting, Scheduled(w))
              held == Allocated(s, w)
  <1>1. /\ IsSnapshot(s) /\ s.running = running /\ s.waiting = waiting
        /\ s.computed = computed /\ RunningSet(s) = ToSet(running) /\ Workload(s) = Live
        /\ s.used = UsedBlocks /\ IsAccounted(s, blocks) /\ HasRoom(s)
    BY SnapshotInv, LiveHasRoom
  <1>2. s.used <= TotalBlocks /\ Len(s.running) <= SequenceBudget
    BY <1>1 DEF EngineInv, KvInv
  <1>3. /\ running' = kept \o admitted
        /\ waiting' = Keep(running, victims) \o remaining
        /\ preempted' = preempted \cup victims
        /\ computed' = [r \in Requests |->
                          IF r \in victims THEN 0 ELSE computed[r] + TokensOf(w, r)]
        /\ blocks' = [r \in Requests |-> IF r \in victims THEN 0 ELSE held[r]]
        /\ finished' = {}
        /\ Bind(s, w)
        /\ UNCHANGED <<outputs, ended, fault>>
    BY DEF ExecuteNative
  <1>4. /\ waiting \in Seq(Requests) /\ running \in Seq(Requests)
        /\ IsInjective(waiting) /\ IsInjective(running)
        /\ ToSet(waiting) \cap ToSet(running) = {}
    BY DEF EngineInv, QueuesInv
  <1>. HIDE DEF s
  <1>5. /\ kept \in Seq(Requests) /\ IsInjective(kept) /\ ToSet(kept) \subseteq ToSet(running)
        /\ Len(kept) <= Len(running)
    BY <1>1, <1>2, NativeKeptFacts
  <1>6. /\ IsPlan(s, w)
        /\ Scheduled(w) \cap victims = {}
        /\ kept # running => Scheduled(w) \subseteq ToSet(kept)
        /\ kept = running => ProjectSequences(s, w) <= SequenceBudget
        /\ ProjectKv(s, w) - Released(s, victims) <= TotalBlocks
        /\ Live # {} => w # NoWork
    <2>. HIDE DEF w, kept
    <2>. QED  BY <1>1, <1>2, NativePlanFacts DEF w, kept
  <1>. HIDE DEF w, kept
  <1>7. Scheduled(w) \subseteq Live
    BY <1>1, <1>6, TokensOfFacts
  <1>8. /\ admitted \in Seq(Requests) /\ IsInjective(admitted)
        /\ ToSet(admitted) = ToSet(waiting) \cap Scheduled(w)
    BY <1>4, KeepFacts
  <1>9. /\ remaining \in Seq(Requests) /\ IsInjective(remaining)
        /\ ToSet(remaining) = ToSet(waiting) \ Scheduled(w)
    <2>1. remaining = Keep(waiting, ToSet(waiting) \ Scheduled(w))
      BY DEF Drop
    <2>2. ToSet(waiting) \cap (ToSet(waiting) \ Scheduled(w)) = ToSet(waiting) \ Scheduled(w)
      OBVIOUS
    <2>. HIDE DEF remaining
    <2>. QED  BY <1>4, <2>1, <2>2, KeepFacts
  <1>10. /\ Keep(running, victims) \in Seq(Requests) /\ IsInjective(Keep(running, victims))
         /\ ToSet(Keep(running, victims)) = victims
    <2>1. ToSet(running) \cap victims = victims
      BY <1>1
    <2>. HIDE DEF victims
    <2>. QED  BY <1>4, <2>1, KeepFacts
  <1>11. victims = ToSet(running) \ ToSet(kept)
    BY <1>1
  <1>. HIDE DEF victims, admitted, remaining, held
  <1>12. /\ running' \in Seq(Requests) /\ IsInjective(running')
         /\ ToSet(running') = ToSet(kept) \cup (ToSet(waiting) \cap Scheduled(w))
         /\ Len(running') = Len(kept) + Len(admitted)
    <2>1. ToSet(kept) \cap ToSet(admitted) = {}
      BY <1>4, <1>5, <1>8
    <2>. QED  BY <1>3, <1>5, <1>8, <2>1, ConcatFacts
  <1>13. /\ waiting' \in Seq(Requests) /\ IsInjective(waiting')
         /\ ToSet(waiting') = victims \cup (ToSet(waiting) \ Scheduled(w))
    <2>1. victims \cap ToSet(remaining) = {}
      BY <1>4, <1>9, <1>11
    <2>. QED  BY <1>3, <1>9, <1>10, <2>1, ConcatFacts
  <1>14. Live' = Live /\ victims \subseteq Live
    BY <1>5, <1>11, <1>12, <1>13 DEF Live
  <1>15. QueuesInv'
    <2>1. preempted' = victims /\ finished' = {} /\ ended' = ended
      BY <1>3
    <2>2. ToSet(waiting') \cap ToSet(running') = {}
      BY <1>4, <1>5, <1>11, <1>12, <1>13
    <2>. QED  BY <1>12, <1>13, <1>14, <2>1, <2>2 DEF EngineInv, QueuesInv
  <1>16. ASSUME NEW r \in Requests
         PROVE  /\ computed[r] \in Nat /\ TokensOf(w, r) \in Nat
                /\ r \notin Scheduled(w) => TokensOf(w, r) = 0
                /\ computed'[r] = IF r \in victims THEN 0 ELSE computed[r] + TokensOf(w, r)
    BY <1>1, <1>3, <1>6, TokensOfFacts DEF EngineInv, TokensInv
  <1>17. TokensInv'
    <2>1. computed' \in [Requests -> Nat] /\ outputs' = outputs /\ ended' = ended
      BY <1>3, <1>16
    <2>2. ASSUME NEW r \in ToSet(waiting') PROVE computed'[r] = 0
      <3>1. CASE r \in victims
        BY <1>16, <1>14, <3>1, QueueTypes DEF EngineInv
      <3>2. CASE r \notin victims
        <4>1. r \in ToSet(waiting) /\ r \notin Scheduled(w) /\ r \in Requests
          BY <1>13, <3>2, QueueTypes DEF EngineInv
        <4>2. computed[r] = 0
          BY <4>1 DEF EngineInv, TokensInv
        <4>. QED  BY <1>16, <3>2, <4>1, <4>2
      <3>. QED  BY <3>1, <3>2
    <2>3. ASSUME NEW r \in Requests \ (Live' \cup ended') PROVE computed'[r] = 0 /\ outputs'[r] = 0
      <3>1. r \in Requests \ (Live \cup ended) /\ r \notin Scheduled(w) /\ r \notin victims
        BY <1>7, <1>14, <2>1
      <3>2. computed[r] = 0 /\ outputs[r] = 0
        BY <3>1 DEF EngineInv, TokensInv
      <3>. QED  BY <1>16, <2>1, <3>1, <3>2
    <2>. QED  BY <1>14, <2>1, <2>2, <2>3 DEF EngineInv, TokensInv
  <1>18. KvInv'
    <2>1. /\ held \in [Requests -> Nat]
          /\ \A r \in Requests : held[r] =
                IF r \in Scheduled(w) THEN Blocks(computed[r] + TokensOf(w, r)) ELSE blocks[r]
      BY <1>6, AllocatedFacts DEF held, s
    <2>2. \A r \in Requests : blocks'[r] = IF r \in victims THEN 0
                                           ELSE IF r \in Scheduled(w)
                                           THEN Blocks(computed[r] + TokensOf(w, r))
                                           ELSE blocks[r]
      BY <1>3, <2>1
    <2>3. ASSUME NEW r \in Requests
          PROVE  blocks'[r] = IF r \in ToSet(running') THEN Blocks(computed'[r]) ELSE 0
      <3>0. blocks[r] = IF r \in ToSet(running) THEN Blocks(computed[r]) ELSE 0
        BY DEF EngineInv, KvInv
      <3>1. CASE r \in victims
        <4>1. r \notin ToSet(running')
          BY <1>4, <1>11, <1>12, <3>1
        <4>. QED  BY <2>2, <3>1, <4>1
      <3>2. CASE r \notin victims /\ r \in Scheduled(w)
        <4>1. r \in ToSet(running')
          BY <1>7, <1>11, <1>12, <3>2 DEF Live
        <4>2. computed'[r] = computed[r] + TokensOf(w, r)
          BY <1>16, <3>2
        <4>. QED  BY <2>2, <3>2, <4>1, <4>2
      <3>3. CASE r \notin victims /\ r \notin Scheduled(w)
        <4>1. r \in ToSet(running') <=> r \in ToSet(running)
          BY <1>5, <1>11, <1>12, <3>3
        <4>2. computed'[r] = computed[r]
          BY <1>16, <3>3
        <4>. QED  BY <2>2, <3>0, <3>3, <4>1, <4>2
      <3>. QED  BY <3>1, <3>2, <3>3
    <2>4. UsedBlocks' <= TotalBlocks
      <3>1. SumFunctionOnSet(blocks', Requests) = ProjectKv(s, w) - Released(s, victims)
        <4>1. \A r \in Requests : blocks'[r] = IF r \in victims THEN 0
                                               ELSE IF r \in Scheduled(w)
                                               THEN Blocks(s.computed[r] + TokensOf(w, r))
                                               ELSE blocks[r]
          BY <1>1, <2>2
        <4>2. victims \in SUBSET RunningSet(s) /\ victims \cap Scheduled(w) = {}
          BY <1>1, <1>6, <1>11
        <4>. QED  BY <1>1, <1>6, <4>1, <4>2, ProjectionIsHeld
      <3>2. DOMAIN blocks' = Requests
        BY <1>3
      <3>3. UsedBlocks' = SumFunctionOnSet(blocks', Requests)
        BY <3>2 DEF UsedBlocks, SumFunction
      <3>. QED  BY <1>6, <3>1, <3>3
    <2>5. Len(running') <= SequenceBudget
      <3>1. Len(admitted) = Cardinality(ToSet(waiting) \cap Scheduled(w))
        <4>1. Cardinality(ToSet(admitted)) = Len(admitted)
          BY <1>8, InjectiveLength
        <4>. QED  BY <1>8, <4>1
      <3>2. CASE kept = running
        <4>1. ProjectSequences(s, w) = Len(running) + Cardinality(Scheduled(w) \cap ToSet(waiting))
          BY <1>1 DEF ProjectSequences
        <4>2. ToSet(waiting) \cap Scheduled(w) = Scheduled(w) \cap ToSet(waiting)
          OBVIOUS
        <4>3. Len(running') = ProjectSequences(s, w)
          BY <1>12, <3>1, <3>2, <4>1, <4>2
        <4>. QED  BY <1>6, <3>2, <4>3
      <3>3. CASE kept # running
        <4>1. ToSet(waiting) \cap Scheduled(w) = {}
          BY <1>4, <1>5, <1>6, <3>3
        <4>2. Len(admitted) = 0
          BY <3>1, <4>1, FS_EmptySet
        <4>. QED  BY <1>1, <1>2, <1>4, <1>5, <1>12, <4>2, BatchAssumption
      <3>. QED  BY <3>2, <3>3
    <2>6. blocks' \in [Requests -> Nat]
      BY <1>3, <2>1
    <2>. QED  BY <2>3, <2>4, <2>5, <2>6 DEF KvInv
  <1>19. LedgerInv'
    <2>1. outputs' = outputs /\ preempted' = victims /\ preempted \subseteq victims
      BY <1>3
    <2>2. \A r \in Live \ preempted' : computed'[r] \in Nat /\ computed'[r] >= computed[r]
      <3>1. ASSUME NEW r \in Live, r \notin victims
            PROVE  computed'[r] \in Nat /\ computed'[r] >= computed[r]
        <4>1. r \in Requests
          BY QueueTypes DEF EngineInv
        <4>. QED  BY <1>16, <3>1, <4>1
      <3>. QED  BY <2>1, <3>1
    <2>. QED  BY <1>14, <2>1, <2>2, RoundKeepsLedger
  <1>20. PendingInv' /\ IdleInv'
    <2>1. \A r \in ToSet(running') : computed'[r] = computed[r] + TokensOf(w, r)
      <3>1. victims \cap ToSet(running') = {}
        BY <1>4, <1>11, <1>12
      <3>2. ToSet(running') \subseteq Requests
        BY <1>4, <1>5, <1>12, QueueTypes DEF EngineInv
      <3>. QED  BY <1>16, <3>1, <3>2
    <2>2. ToSet(running') \subseteq Live /\ outputs' = outputs
      BY <1>3, <1>14 DEF Live
    <2>3. IsPlan(Snapshot, w) /\ Bind(Snapshot, w)
      BY <1>3, <1>6 DEF s
    <2>. QED  BY <1>6, <1>14, <2>1, <2>2, <2>3, BindKeeps
  <1>21. FeedbackInv' /\ FaultInv'
    BY <1>3 DEF EngineInv, FeedbackInv, FaultInv
  <1>. QED  BY <1>15, <1>17, <1>18, <1>19, <1>20, <1>21 DEF EngineInv

(* What passes the physical checks can be executed. *)
LEMMA FitsIsAllocatable ==
  ASSUME NEW s, NEW w, IsPlan(s, w), Fits(s, w), w # NoWork
  PROVE  Allocatable(s, w)
  BY DEF Allocatable, Fits

(* With nothing to schedule the empty plan can. *)
LEMMA IdleIsAllocatable ==
  ASSUME EngineInv, Workload(Snapshot) = {}
  PROVE  Allocatable(Snapshot, NoWork)
  <1>1. /\ IsSnapshot(Snapshot) /\ Snapshot.running = running /\ Snapshot.used = UsedBlocks
    BY SnapshotInv
  <1>2. /\ IsPlan(Snapshot, NoWork) /\ Tokens(NoWork) = 0 /\ Scheduled(NoWork) = {}
    BY <1>1, NoWorkFacts
  <1>3. ProjectSequences(Snapshot, NoWork) <= SequenceBudget
    <2>1. Cardinality(Scheduled(NoWork) \cap ToSet(Snapshot.waiting)) = 0
      BY <1>2, FS_EmptySet
    <2>2. Len(running) <= SequenceBudget /\ Len(running) \in Nat
      BY DEF EngineInv, KvInv, QueuesInv
    <2>. QED  BY <1>1, <2>1, <2>2 DEF ProjectSequences
  <1>4. ProjectKv(Snapshot, NoWork) <= TotalBlocks
    <2>1. SumFunctionOnSet([r \in {} |-> NewBlocks(Snapshot, r, TokensOf(NoWork, r))], {}) = 0
      BY SumOfNone
    <2>2. ProjectKv(Snapshot, NoWork) = Snapshot.used + 0
      BY <1>2, <2>1 DEF ProjectKv, SumFunction
    <2>3. Snapshot.used \in Nat /\ Snapshot.used <= TotalBlocks
      BY <1>1 DEF IsSnapshot, EngineInv, KvInv
    <2>. QED  BY <2>2, <2>3
  <1>. QED  BY <1>2, <1>3, <1>4, BatchAssumption DEF Allocatable

(* The expired ledger's TBT obligations are decodes of the snapshot. *)
LEMMA ObligationsAreDecodes ==
  ASSUME EngineInv, preempted = {}, NEW due
  PROVE  TbtObligations(Expired(due)) \subseteq Decodes(Snapshot)
  <1>1. ASSUME NEW r \in TbtObligations(Expired(due)) PROVE r \in Decodes(Snapshot)
    <2>1. r \in Live /\ ledger[r].tbt
      BY <1>1, ExpiredFacts DEF TbtObligations
    <2>2. computed[r] >= Prompt[r]
      BY <2>1 DEF EngineInv, LedgerInv
    <2>3. ~(computed[r] < Prompt[r])
      BY <2>1, <2>2, PhaseFacts
    <2>. QED  BY <2>1, <2>3, PhaseFacts
  <1>. QED  BY <1>1

LEMMA PlanStockKeeps ==
  ASSUME EngineInv, fault = "none", pending = None, preempted = {}, NEW due,
         ledger' = Expired(due), control' = BindSnapshot(Snapshot), feedback' = {},
         UNCHANGED aborts, PlanStock(Snapshot)
  PROVE  EngineInv'
  <1>1. CASE BuildStockPlan(Snapshot) = NoWork
    <2>1. Raise("stock_without_work")
      BY <1>1 DEF PlanStock
    <2>. QED  BY <2>1, RaiseKeeps
  <1>2. CASE BuildStockPlan(Snapshot) # NoWork
    <2>1. Allocatable(Snapshot, BuildStockPlan(Snapshot))
      BY <1>2, SnapshotInv, StockPlanFacts DEF Allocatable, StockFits
    <2>2. ExecuteExact(Snapshot, BuildStockPlan(Snapshot))
      BY <1>2 DEF PlanStock
    <2>. QED  BY <2>1, <2>2, ExecuteExactKeeps
  <1>. QED  BY <1>1, <1>2

LEMMA PlanFallbackKeeps ==
  ASSUME EngineInv, fault = "none", pending = None, preempted = {}, NEW due,
         ledger' = Expired(due), control' = BindSnapshot(Snapshot), feedback' = {},
         UNCHANGED aborts, PlanFallback(Snapshot, Expired(due))
  PROVE  EngineInv'
  <1>1. PICK mandatory : \E w \in FallbackPlans(Snapshot, mandatory) :
           IF Escapes(Snapshot, w) THEN ExecuteExact(Snapshot, w) ELSE ExecuteNative(Snapshot)
    BY DEF PlanFallback
  <1>2. PICK w \in FallbackPlans(Snapshot, mandatory) :
           IF Escapes(Snapshot, w) THEN ExecuteExact(Snapshot, w) ELSE ExecuteNative(Snapshot)
    BY <1>1
  <1>3. CASE Escapes(Snapshot, w)
    <2>1. IsPlan(Snapshot, w)
      BY SnapshotInv, FallbackFacts
    <2>2. Allocatable(Snapshot, w)
      BY <1>3, <2>1, FitsIsAllocatable DEF Escapes
    <2>3. ExecuteExact(Snapshot, w)
      BY <1>2, <1>3
    <2>. QED  BY <2>2, <2>3, ExecuteExactKeeps
  <1>4. CASE ~Escapes(Snapshot, w)
    <2>1. ExecuteNative(Snapshot)
      BY <1>2, <1>4
    <2>. QED  BY <2>1, ExecuteNativeKeeps
  <1>. QED  BY <1>3, <1>4

LEMMA PlanNormallyKeeps ==
  ASSUME EngineInv, fault = "none", pending = None, preempted = {}, NEW due,
         ledger' = Expired(due), control' = BindSnapshot(Snapshot), feedback' = {},
         UNCHANGED aborts, PlanNormally(Snapshot, Expired(due))
  PROVE  EngineInv'
  <1>. DEFINE plans == Generate(Snapshot)
  <1>1. PICK safe \in {SafeSet(Snapshot, plans, invalid) : invalid \in SUBSET plans} :
          IF ~(TbtObligations(Expired(due)) \subseteq Decodes(Snapshot))
          THEN Raise("obligation_mismatch")
          ELSE IF safe = {} THEN PlanFallback(Snapshot, Expired(due))
          ELSE IF ReferenceMissing(Snapshot, safe, TbtObligations(Expired(due)))
          THEN Raise("zero_reference_missing")
          ELSE \E w \in safe :
                  /\ MaySelect(safe, TbtObligations(Expired(due)), w)
                  /\ ExecuteExact(Snapshot, w)
    BY DEF PlanNormally
  <1>2. CASE safe = {}
    BY <1>1, <1>2, ObligationsAreDecodes, PlanFallbackKeeps
  <1>3. CASE safe # {} /\ ReferenceMissing(Snapshot, safe, TbtObligations(Expired(due)))
    <2>1. Raise("zero_reference_missing")
      BY <1>1, <1>3, ObligationsAreDecodes
    <2>. QED  BY <2>1, RaiseKeeps
  <1>4. CASE safe # {} /\ ~ReferenceMissing(Snapshot, safe, TbtObligations(Expired(due)))
    <2>1. PICK w \in safe : ExecuteExact(Snapshot, w)
      BY <1>1, <1>4, ObligationsAreDecodes
    <2>2. PICK invalid : safe = SafeSet(Snapshot, plans, invalid)
      OBVIOUS
    <2>3. w \in Generate(Snapshot) /\ w # NoWork /\ Fits(Snapshot, w)
      BY <2>1, <2>2 DEF SafeSet
    <2>4. Allocatable(Snapshot, w)
      BY <2>3, SnapshotInv, GenerateFacts, FitsIsAllocatable
    <2>. QED  BY <2>1, <2>4, ExecuteExactKeeps
  <1>. QED  BY <1>2, <1>3, <1>4

LEMMA ScheduleKeeps ==
  ASSUME EngineInv, Schedule, UNCHANGED selection_mode
  PROVE  EngineInv'
  <1>1. fault = "none" /\ pending = None /\ UNCHANGED aborts
    BY DEF Schedule
  <1>2. PICK due : /\ ledger' = Expired(due)
                   /\ \E s \in {Snapshot} :
                      IF preempted # {} \/ ~(Live \subseteq DOMAIN ledger)
                      THEN /\ Raise(IF preempted # {} THEN "preempted_request" ELSE "no_ledger")
                           /\ UNCHANGED <<control, feedback>>
                      ELSE /\ control' = BindSnapshot(s)
                           /\ feedback' = {}
                           /\ IF Workload(s) = {} THEN ExecuteExact(s, NoWork)
                              ELSE IF selection_mode = "forced_stock_plan" THEN PlanStock(s)
                              ELSE PlanNormally(s, Expired(due))
    BY DEF Schedule
  <1>3. Live \subseteq DOMAIN ledger
    BY DEF EngineInv, LedgerInv
  <1>4. CASE preempted # {}
    <2>1. Raise("preempted_request") /\ UNCHANGED <<control, feedback>>
      BY <1>2, <1>4
    <2>. QED  BY <1>1, <1>2, <2>1, RaiseKeeps
  <1>5. CASE preempted = {}
    <2>1. /\ control' = BindSnapshot(Snapshot)
          /\ feedback' = {}
          /\ IF Workload(Snapshot) = {} THEN ExecuteExact(Snapshot, NoWork)
             ELSE IF selection_mode = "forced_stock_plan" THEN PlanStock(Snapshot)
             ELSE PlanNormally(Snapshot, Expired(due))
      BY <1>2, <1>3, <1>5
    <2>2. CASE Workload(Snapshot) = {}
      BY <1>1, <1>2, <1>5, <2>1, <2>2, IdleIsAllocatable, ExecuteExactKeeps
    <2>3. CASE Workload(Snapshot) # {} /\ selection_mode = "forced_stock_plan"
      BY <1>1, <1>2, <1>5, <2>1, <2>3, PlanStockKeeps
    <2>4. CASE Workload(Snapshot) # {} /\ selection_mode # "forced_stock_plan"
      BY <1>1, <1>2, <1>5, <2>1, <2>4, PlanNormallyKeeps
    <2>. QED  BY <2>2, <2>3, <2>4
  <1>. QED  BY <1>4, <1>5

-----------------------------------------------------------------------------
(* The invariant, and what it is for. *)

LEMMA StepKeeps == EngineInv /\ [Next]_vars => EngineInv'
  <1>. SUFFICES ASSUME EngineInv, [Next]_vars PROVE EngineInv'
    OBVIOUS
  <1>1. CASE EngineStep
    BY <1>1, ScheduleKeeps, RecordDurationKeeps, UpdateFromOutputKeeps DEF EngineStep
  <1>2. CASE ClientStep
    BY <1>2, AddRequestKeeps, AbortKeeps DEF ClientStep
  <1>3. CASE UNCHANGED vars
    BY <1>3 DEF vars, queues, EngineInv, QueuesInv, TokensInv, KvInv, LedgerInv, FeedbackInv,
                IdleInv, PendingInv, FaultInv, Live, UsedBlocks
  <1>. QED  BY <1>1, <1>2, <1>3 DEF Next, Rest

(* The inductive invariant: queues and tokens, the KV blocks held, the ledger *)
(* and its pending feedback, the debts between and during iterations, and what *)
(* can have stopped the engine.                                              *)
THEOREM EngineInvariant == Spec => []EngineInv
  BY InitEstablishes, StepKeeps, PTL DEF Spec

LEMMA InvariantIsTyped == EngineInv => TypeOK
  <1>. SUFFICES ASSUME EngineInv PROVE TypeOK
    OBVIOUS
  <1>1. IsInjective(waiting \o running)
    BY ConcatFacts DEF EngineInv, QueuesInv
  <1>2. /\ Live \cap ended = {} /\ preempted \subseteq ToSet(waiting)
        /\ ToSet(waiting) \cup ToSet(running) \cup preempted \cup finished \cup ended \subseteq Requests
        /\ aborts \in 0..MaxAborts
    BY QueueTypes DEF EngineInv, QueuesInv
  <1>3. computed \in [Requests -> Nat] /\ outputs \in [Requests -> 0..MaxOutput]
    BY DEF EngineInv, TokensInv
  <1>4. blocks \in [Requests -> 0..TotalBlocks]
    <2>1. blocks \in [Requests -> Nat] /\ IsFiniteSet(Requests)
      BY BatchAssumption DEF EngineInv, KvInv
    <2>2. UsedBlocks = SumFunctionOnSet(blocks, Requests)
      BY <2>1 DEF UsedBlocks, SumFunction
    <2>3. ASSUME NEW r \in Requests PROVE blocks[r] \in 0..TotalBlocks
      <3>1. blocks[r] <= UsedBlocks /\ UsedBlocks \in Nat
        BY <2>1, <2>2, SumAtLeastElement, SumNat
      <3>2. UsedBlocks <= TotalBlocks /\ blocks[r] \in Nat
        BY <2>1 DEF EngineInv, KvInv
      <3>. QED  BY <3>1, <3>2, BatchAssumption
    <2>. QED  BY <2>1, <2>3
  <1>5. DOMAIN ledger \subseteq Requests /\ ledger \in [DOMAIN ledger -> Records]
    BY QueueTypes DEF EngineInv, LedgerInv
  <1>6. control.ttft \cup control.tbt \subseteq Requests
    BY DEF EngineInv, IdleInv, PendingInv, PendingIterations
  <1>7. \A u \in feedback : u.id \in Requests /\ u.service \in {0, 1}
    BY <1>2 DEF EngineInv, FeedbackInv
  <1>. QED  BY <1>1, <1>2, <1>3, <1>4, <1>5, <1>6, <1>7 DEF TypeOK

(* Every state of the scheduler is well typed, and no request is in two      *)
(* places: not twice in a queue, not in both, not in one after it ended.     *)
THEOREM EngineTypes == Spec => []TypeOK
  BY EngineInvariant, InvariantIsTyped, PTL

(* An exact plan, from the selector, the stock plan or the liveness escape,  *)
(* is never refused by the adapter, and allocating its blocks never fails,   *)
(* whichever plans predictions leave over and whatever was aborted meanwhile. *)
THEOREM PlansCanBeAllocated == Spec => []PlansAreAllocatable
  <1>1. EngineInv => PlansAreAllocatable
    BY DEF EngineInv, FaultInv, PlansAreAllocatable
  <1>. QED  BY <1>1, EngineInvariant, PTL

(* No iteration stops the engine over its feedback: update_from_output finds *)
(* a ledger record for every token, advance_service_debts accepts what the   *)
(* iteration reports, and the selector's obligations are active decodes.     *)
THEOREM FeedbackCanBeApplied == Spec => []FeedbackIsAccepted
  <1>1. EngineInv => FeedbackIsAccepted
    BY DEF EngineInv, FaultInv, FeedbackIsAccepted
  <1>. QED  BY <1>1, EngineInvariant, PTL

(* The obligation ledger holds the requests of the queues and their phases.  *)
THEOREM LedgerFollowsQueues == Spec => []LedgerMirrorsQueues
  <1>1. EngineInv => LedgerMirrorsQueues
    <2>. SUFFICES ASSUME EngineInv PROVE LedgerMirrorsQueues
      OBVIOUS
    <2>1. DOMAIN ledger = Live
      BY DEF EngineInv, LedgerInv
    <2>2. ASSUME NEW r \in Live
          PROVE  /\ ledger[r].tbt /\ r \notin preempted => computed[r] >= Prompt[r]
                 /\ ledger[r].ttft => outputs[r] = 0
                 /\ ledger[r].returned <=> outputs[r] > 0
      BY DEF EngineInv, LedgerInv
    <2>. QED  BY <2>1, <2>2 DEF LedgerMirrorsQueues
  <1>. QED  BY <1>1, EngineInvariant, PTL

(* The debts of an iteration in flight are those of its snapshot's requests. *)
THEOREM SnapshotHasItsDebts == Spec => []DebtsCoverSnapshot
  <1>1. EngineInv => DebtsCoverSnapshot
    BY DEF EngineInv, PendingInv, DebtsCoverSnapshot
  <1>. QED  BY <1>1, EngineInvariant, PTL

(* The KV blocks held are those of the running requests' tokens and never    *)
(* more than there are.                                                      *)
THEOREM KvBlocksFit == Spec => []KvIsAccounted
  <1>1. EngineInv => KvIsAccounted
    BY DEF EngineInv, KvInv, KvIsAccounted
  <1>. QED  BY <1>1, EngineInvariant, PTL

(* An iteration is idle only over an empty workload: when every prediction   *)
(* fails the escape or vLLM's own schedule still serves somebody.            *)
THEOREM BusyIterationsProgress == Spec => []WorkloadAlwaysProgresses
  <1>1. EngineInv => WorkloadAlwaysProgresses
    BY DEF EngineInv, PendingInv, WorkloadAlwaysProgresses
  <1>. QED  BY <1>1, EngineInvariant, PTL
=============================================================================
