------------------------- MODULE IsolatedProfiling_proofs -------------------------
(***************************************************************************)
(* Client and scheduler of an isolated profile agree, for every matrix of   *)
(* recipes, every order of arrivals and every failure: one recipe's requests *)
(* at a time, and the files in the order of the matrix.                      *)
(***************************************************************************)
EXTENDS IsolatedProfiling, TLAPS

TerminalKinds == {"batch_complete", "batch_failed"}
OtherKinds == {"admission_closed", "setup_complete"}
BatchEvent == [event : TerminalKinds \cup OtherKinds, recipe : Nat]

EndsIn(log) == {n \in DOMAIN log : log[n].event \in TerminalKinds}
RecipesIn(log, numbers) == {log[n].recipe : n \in numbers}
CompletedIn(log) ==
    RecipesIn(log, {n \in DOMAIN log : log[n].event = "batch_complete"})

(* A log with the terminal events of the recipes before i, in order. *)
OrderedUpTo(log, i) ==
    /\ log \in Seq(BatchEvent)
    /\ \A m, n \in EndsIn(log) : m < n => log[m].recipe < log[n].recipe
    /\ RecipesIn(log, EndsIn(log)) = 1..i - 1

OrderedRows ==
    /\ rows \in Seq(Nat)
    /\ \A m, n \in DOMAIN rows : m < n => rows[m] < rows[n]
    /\ ToSet(rows) = CompletedIn(events)

(* Once its admission is closed the whole batch has been at the engine. *)
OneBatch ==
    /\ cursor \in Nat \ {0} /\ index \in Nat \ {0} /\ offset \in Nat
    /\ index \in {cursor, cursor + 1}
    /\ inbox \subseteq Batch(cursor)
    /\ Live \subseteq Batch(index)
    /\ inbox \cap Live = {}
    /\ index = cursor + 1 => inbox = {} /\ Live = {}
    /\ admission_closed => index = cursor /\ inbox = {}
    /\ output # None /\ output.role \in {"setup", "target"} => admission_closed
    /\ fault # "unexpected_request"

MatrixInv == OneBatch /\ OrderedUpTo(events, index) /\ OrderedRows

-----------------------------------------------------------------------------
(* Appending an event: the old ones keep their places. *)
LEMMA AppendedEvent ==
    ASSUME NEW log \in Seq(BatchEvent), NEW e \in BatchEvent, NEW longer, longer = Append(log, e)
    PROVE  /\ longer \in Seq(BatchEvent)
           /\ DOMAIN log = 1..Len(log) /\ Len(log) \in Nat
           /\ DOMAIN longer = 1..Len(log) + 1
           /\ \A n \in 1..Len(log) : longer[n] = log[n]
           /\ longer[Len(log) + 1] = e
  OBVIOUS

(* An event that ends nothing leaves the order as it is. *)
LEMMA OtherEvent ==
    ASSUME NEW i, NEW log, OrderedUpTo(log, i), NEW e \in BatchEvent, e.event \in OtherKinds,
           NEW longer, longer = Append(log, e)
    PROVE  OrderedUpTo(longer, i) /\ CompletedIn(longer) = CompletedIn(log)
  <1>1. log \in Seq(BatchEvent)
    BY DEF OrderedUpTo
  <1>2. /\ longer \in Seq(BatchEvent)
        /\ DOMAIN log = 1..Len(log) /\ Len(log) \in Nat
        /\ DOMAIN longer = 1..Len(log) + 1
        /\ \A n \in 1..Len(log) : longer[n] = log[n]
        /\ longer[Len(log) + 1] = e
    BY <1>1, AppendedEvent
  <1>3. e.event \notin TerminalKinds /\ e.event # "batch_complete"
    BY DEF OtherKinds, TerminalKinds
  <1>4. \A n \in DOMAIN longer : n \in DOMAIN log \/ n = Len(log) + 1
    BY <1>2
  <1>5. DOMAIN log \subseteq DOMAIN longer
    BY <1>2
  <1> HIDE DEF BatchEvent
  <1>6. EndsIn(longer) = EndsIn(log)
    BY <1>2, <1>3, <1>4, <1>5 DEF EndsIn
  <1>7. {n \in DOMAIN longer : longer[n].event = "batch_complete"}
           = {n \in DOMAIN log : log[n].event = "batch_complete"}
    BY <1>2, <1>3, <1>4, <1>5
  <1>8. CompletedIn(longer) = CompletedIn(log)
    BY <1>2, <1>7 DEF CompletedIn, RecipesIn
  <1>9. /\ \A m, n \in EndsIn(longer) : m < n => longer[m].recipe < longer[n].recipe
        /\ RecipesIn(longer, EndsIn(longer)) = RecipesIn(log, EndsIn(log))
    <2>1. \A n \in EndsIn(log) : longer[n] = log[n]
      BY <1>2 DEF EndsIn
    <2> QED BY <1>6, <2>1 DEF OrderedUpTo, RecipesIn
  <1> QED BY <1>2, <1>8, <1>9 DEF OrderedUpTo

(* The end of recipe i is the next in the order. *)
LEMMA EndEvent ==
    ASSUME NEW i \in Nat \ {0}, NEW log, OrderedUpTo(log, i),
           NEW e \in BatchEvent, e.event \in TerminalKinds, e.recipe = i,
           NEW longer, longer = Append(log, e)
    PROVE  /\ OrderedUpTo(longer, i + 1)
           /\ CompletedIn(longer) =
                 CompletedIn(log) \cup (IF e.event = "batch_complete" THEN {i} ELSE {})
           /\ \A k \in CompletedIn(log) : k \in 1..i - 1
  <1>1. log \in Seq(BatchEvent)
    BY DEF OrderedUpTo
  <1>2. /\ longer \in Seq(BatchEvent)
        /\ DOMAIN log = 1..Len(log) /\ Len(log) \in Nat
        /\ DOMAIN longer = 1..Len(log) + 1
        /\ \A n \in 1..Len(log) : longer[n] = log[n]
        /\ longer[Len(log) + 1] = e
    BY <1>1, AppendedEvent
  <1> DEFINE last == Len(log) + 1
  <1>3. DOMAIN longer = DOMAIN log \cup {last} /\ last \notin DOMAIN log
        /\ \A n \in DOMAIN log : n < last /\ ~(last < n) /\ longer[n] = log[n]
        /\ longer[last] = e /\ ~(last < last)
    BY <1>2
  <1> HIDE DEF last, BatchEvent
  <1>4. EndsIn(longer) = EndsIn(log) \cup {last}
    BY <1>3 DEF EndsIn
  <1>5. \A n \in EndsIn(log) : longer[n] = log[n] /\ n \in DOMAIN log
    BY <1>3 DEF EndsIn
  <1>6. \A n \in EndsIn(log) : log[n].recipe \in 1..i - 1
    BY DEF OrderedUpTo, RecipesIn
  <1>7. RecipesIn(longer, EndsIn(longer)) = (1..i - 1) \cup {i}
    <2>1. RecipesIn(longer, EndsIn(longer)) = RecipesIn(log, EndsIn(log)) \cup {i}
      BY <1>3, <1>4, <1>5 DEF RecipesIn
    <2> QED BY <2>1 DEF OrderedUpTo
  <1>8. \A m, n \in EndsIn(longer) : m < n => longer[m].recipe < longer[n].recipe
    <2>1. SUFFICES ASSUME NEW m \in EndsIn(longer), NEW n \in EndsIn(longer), m < n
                   PROVE  longer[m].recipe < longer[n].recipe
      OBVIOUS
    <2>2. m \in EndsIn(log)
      BY <1>3, <1>4, <1>5, <2>1
    <2>3. CASE n \in EndsIn(log)
      BY <1>5, <2>1, <2>2, <2>3 DEF OrderedUpTo
    <2>4. CASE n = last
      BY <1>3, <1>5, <1>6, <2>2, <2>4
    <2> QED BY <1>4, <2>3, <2>4
  <1>9. (i + 1) - 1 = i /\ 1..i = (1..i - 1) \cup {i}
    OBVIOUS
  <1>10. OrderedUpTo(longer, i + 1)
    BY <1>2, <1>7, <1>8, <1>9 DEF OrderedUpTo
  <1>11. CompletedIn(longer) =
            CompletedIn(log) \cup (IF e.event = "batch_complete" THEN {i} ELSE {})
    BY <1>3 DEF CompletedIn, RecipesIn
  <1>12. \A k \in CompletedIn(log) : k \in 1..i - 1
    BY <1>6 DEF CompletedIn, RecipesIn, EndsIn, TerminalKinds
  <1> QED BY <1>10, <1>11, <1>12

(* A complete batch at the engine is the one the client sent. *)
LEMMA CompleteIsCurrent ==
    ASSUME OneBatch, index \in Matrix, AdmissionComplete
    PROVE  index = cursor /\ inbox = {}
  <1>1. Batch(index) # {}
    <2>1. /\ Recipe[index].prefills \in Nat /\ Recipe[index].decodes \in Nat
          /\ Recipe[index].prefills + Recipe[index].decodes > 0
      BY MatrixAssumption DEF Matrix
    <2>2. 1 \in 1..Recipe[index].prefills \/ 1 \in 1..Recipe[index].decodes
      BY <2>1
    <2>3. <<index, "p", 1>> \in Batch(index) \/ <<index, "d", 1>> \in Batch(index)
      BY <2>2 DEF Batch, Prefills, Decodes
    <2> QED BY <2>3
  <1>2. Live # {}
    BY <1>1 DEF AdmissionComplete
  <1>3. index = cursor
    BY <1>2 DEF OneBatch
  <1> QED BY <1>3 DEF OneBatch, AdmissionComplete

-----------------------------------------------------------------------------
LEMMA MatrixInit == Init => MatrixInv
  <1> SUFFICES ASSUME Init PROVE MatrixInv
    OBVIOUS
  <1>1. Live = {}
    BY DEF Init, Live, Nothing
  <1>2. OneBatch
    BY <1>1 DEF Init, OneBatch
  <1>3. events = <<>> /\ index = 1 /\ rows = <<>>
    BY DEF Init
  <1>4. EndsIn(events) = {} /\ CompletedIn(events) = {}
    BY <1>3 DEF EndsIn, CompletedIn, RecipesIn
  <1>5. OrderedUpTo(events, index)
    BY <1>3, <1>4 DEF OrderedUpTo, RecipesIn
  <1>6. OrderedRows
    BY <1>3, <1>4 DEF OrderedRows, ToSet
  <1> QED BY <1>2, <1>5, <1>6 DEF MatrixInv

LEMMA ArriveKeeps == ASSUME MatrixInv, NEW r \in inbox, Arrive(r) PROVE MatrixInv'
  <1>1. /\ inbox' = inbox \ {r} /\ output = None
        /\ UNCHANGED <<cursor, offset, index, admission_closed, output, events, rows, fault>>
    BY DEF Arrive
  <1>2. Live' = Live \cup {r}
    BY DEF Arrive, Live
  <1>3. OneBatch'
    BY <1>1, <1>2 DEF MatrixInv, OneBatch
  <1>4. OrderedUpTo(events, index)' /\ OrderedRows'
    BY <1>1 DEF MatrixInv, OrderedRows
  <1> QED BY <1>3, <1>4 DEF MatrixInv

LEMMA NextBatchKeeps == ASSUME MatrixInv, NextBatch PROVE MatrixInv'
  <1>1. /\ cursor' = cursor + 1 /\ inbox' = inbox \cup Batch(cursor + 1)
        /\ UNCHANGED <<requests, index, admission_closed, output, events, rows, fault>>
    BY DEF NextBatch, engine
  <1>2. PICK n \in offset + 1..Len(events) : IsTerminal(events[n]) /\ offset' = n
    BY DEF NextBatch
  <1>3. index = cursor + 1
    <2>1. offset \in Nat
      BY DEF MatrixInv, OneBatch
    <2>2. events \in Seq(BatchEvent) /\ DOMAIN events = 1..Len(events)
      BY DEF MatrixInv, OrderedUpTo
    <2>3. n \in 1..Len(events)
      BY <1>2, <2>1, <2>2
    <2>4. events[n].recipe \in 1..index - 1
      BY <1>2, <2>2, <2>3
         DEF MatrixInv, OrderedUpTo, RecipesIn, EndsIn, IsTerminal, TerminalKinds
    <2> QED BY <1>2, <2>4 DEF IsTerminal, MatrixInv, OneBatch
  <1>4. Live' = Live
    BY <1>1 DEF Live
  <1>5. OneBatch'
    <2>1. offset' \in Nat
      BY <1>2 DEF MatrixInv, OneBatch
    <2> QED BY <1>1, <1>3, <1>4, <2>1 DEF MatrixInv, OneBatch
  <1>6. OrderedUpTo(events, index)' /\ OrderedRows'
    BY <1>1 DEF MatrixInv, OrderedRows
  <1> QED BY <1>5, <1>6 DEF MatrixInv

(* _clean_current: the batch ends and the cursor moves on, after a log that  *)
(* may just have got an event that ends nothing.                             *)
LEMMA CleanKeeps ==
    ASSUME MatrixInv, index = cursor, inbox = {}, NEW kind \in TerminalKinds, NEW ended, NEW log,
           OrderedUpTo(log, index), CompletedIn(log) = CompletedIn(events), Clean(log, kind, ended),
           UNCHANGED client, fault' # "unexpected_request",
           output' # None => output'.role \notin {"setup", "target"},
           rows' = IF kind = "batch_complete" THEN Append(rows, index) ELSE rows
    PROVE  MatrixInv'
  <1>1. /\ index' = index + 1 /\ ~admission_closed' /\ events' = Append(log, Event(kind))
        /\ cursor' = cursor /\ offset' = offset /\ inbox' = {}
    BY DEF Clean, client
  <1>2. Live' = {}
    BY DEF Clean, Without, Aborted, Live
  <1>3. index \in Nat \ {0}
    BY DEF MatrixInv, OneBatch
  <1>4. OneBatch'
    <2>1. /\ index' = cursor' + 1 /\ index' \in Nat \ {0} /\ cursor' \in Nat \ {0}
          /\ offset' \in Nat
      BY <1>1, <1>3 DEF MatrixInv, OneBatch
    <2> QED BY <1>1, <1>2, <2>1 DEF OneBatch
  <1> DEFINE e == Event(kind)
             longer == events'
  <1>5. e \in BatchEvent /\ e.event = kind /\ e.recipe = index
    BY <1>3 DEF Event, BatchEvent
  <1>6. longer = Append(log, e)
    BY <1>1
  <1> HIDE DEF e, longer
  <1>7. /\ OrderedUpTo(longer, index + 1)
        /\ CompletedIn(longer) =
              CompletedIn(events) \cup (IF kind = "batch_complete" THEN {index} ELSE {})
        /\ \A k \in CompletedIn(events) : k \in 1..index - 1
    <2>1. OrderedUpTo(log, index) /\ CompletedIn(log) = CompletedIn(events)
      OBVIOUS
    <2> DEFINE done == CompletedIn(log)
    <2>2. /\ OrderedUpTo(longer, index + 1)
          /\ CompletedIn(longer) =
                done \cup (IF e.event = "batch_complete" THEN {index} ELSE {})
          /\ \A k \in done : k \in 1..index - 1
      BY <1>3, <1>5, <1>6, <2>1, EndEvent
    <2>3. done = CompletedIn(events)
      BY <2>1
    <2> HIDE DEF done
    <2> QED BY <1>5, <2>2, <2>3
  <1>8. OrderedUpTo(events', index')
    BY <1>1, <1>7 DEF longer
  <1>9. OrderedRows'
    <2>1. /\ rows \in Seq(Nat)
          /\ \A m, n \in DOMAIN rows : m < n => rows[m] < rows[n]
          /\ ToSet(rows) = CompletedIn(events)
      BY DEF MatrixInv, OrderedRows
    <2>2. CASE kind # "batch_complete"
      BY <1>7, <2>1, <2>2 DEF OrderedRows, longer
    <2>3. CASE kind = "batch_complete"
      <3>1. /\ rows' \in Seq(Nat) /\ Len(rows) \in Nat
            /\ DOMAIN rows = 1..Len(rows) /\ DOMAIN rows' = 1..Len(rows) + 1
            /\ \A n \in 1..Len(rows) : rows'[n] = rows[n]
            /\ rows'[Len(rows) + 1] = index
        BY <1>3, <2>1, <2>3
      <3>2. \A n \in DOMAIN rows : rows[n] \in 1..index - 1
        BY <1>7, <2>1 DEF ToSet
      <3>3. ToSet(rows') = ToSet(rows) \cup {index}
        <4>1. DOMAIN rows' = DOMAIN rows \cup {Len(rows) + 1}
          BY <3>1
        <4>2. \A n \in DOMAIN rows : rows'[n] = rows[n]
          BY <3>1
        <4> QED BY <3>1, <4>1, <4>2 DEF ToSet
      <3>4. \A m, n \in DOMAIN rows' : m < n => rows'[m] < rows'[n]
        <4>1. SUFFICES ASSUME NEW m \in 1..Len(rows) + 1, NEW n \in 1..Len(rows) + 1, m < n
                       PROVE  rows'[m] < rows'[n]
          BY <3>1
        <4>2. m \in 1..Len(rows)
          BY <3>1, <4>1
        <4>3. CASE n \in 1..Len(rows)
          BY <2>1, <3>1, <4>1, <4>2, <4>3
        <4>4. CASE n = Len(rows) + 1
          BY <1>3, <3>1, <3>2, <4>2, <4>4
        <4> QED BY <3>1, <4>1, <4>3, <4>4
      <3> QED BY <1>7, <2>1, <2>3, <3>1, <3>3, <3>4 DEF OrderedRows, longer
    <2> QED BY <2>2, <2>3
  <1> QED BY <1>4, <1>8, <1>9 DEF MatrixInv

(* A step that leaves the files, the cursors and the admission alone. *)
LEMMA QuietKeeps ==
    ASSUME MatrixInv, UNCHANGED <<cursor, offset, inbox, index, admission_closed, events, rows>>,
           Live' \subseteq Live, fault' # "unexpected_request",
           output' # None /\ output'.role \in {"setup", "target"} => admission_closed
    PROVE  MatrixInv'
  <1>1. OneBatch'
    BY DEF MatrixInv, OneBatch
  <1>2. OrderedUpTo(events, index)' /\ OrderedRows'
    BY DEF MatrixInv, OrderedRows
  <1> QED BY <1>1, <1>2 DEF MatrixInv

LEMMA ExecuteKeeps ==
    ASSUME MatrixInv, fault = "none", Execute, UNCHANGED client PROVE MatrixInv'
  <1> DEFINE log == IF admission_closed THEN events ELSE Append(events, Event("admission_closed"))
  <1>1. index \in Matrix /\ AdmissionComplete /\ UNCHANGED <<rows, fault>>
    BY DEF Execute
  <1>2. index = cursor /\ inbox = {}
    BY <1>1, CompleteIsCurrent DEF MatrixInv
  <1>3. OrderedUpTo(log, index) /\ CompletedIn(log) = CompletedIn(events)
    <2>1. CASE admission_closed
      BY <2>1 DEF MatrixInv
    <2>2. CASE ~admission_closed
      <3> DEFINE e == Event("admission_closed")
      <3>1. e \in BatchEvent /\ e.event \in OtherKinds
        BY DEF Event, BatchEvent, OtherKinds, MatrixInv, OneBatch
      <3>2. log = Append(events, e)
        BY <2>2
      <3> HIDE DEF e, log
      <3>3. OrderedUpTo(events, index)
        BY DEF MatrixInv
      <3> QED BY <3>1, <3>2, <3>3, OtherEvent
    <2> QED BY <2>1, <2>2
  <1>4. PICK plan \in Plans \cup (IF KvMayLack THEN {NoPlan} ELSE {}) :
            IF plan = NoPlan THEN Fail(log)
            ELSE /\ output' = plan
                 /\ registered' = "planned"
                 /\ requests' = [r \in Live |->
                        requests[r] + (IF r \in DOMAIN plan.work THEN plan.work[r] ELSE 0)]
                 /\ finished' = {}
                 /\ events' = log
                 /\ admission_closed' = TRUE
                 /\ UNCHANGED index
    BY DEF Execute
  <1> HIDE DEF log
  <1>5. CASE plan = NoPlan
    <2>1. Clean(log, "batch_failed", {}) /\ output' = Plan("idle", Nothing)
      BY <1>4, <1>5 DEF Fail, Idle
    <2>2. output'.role \notin {"setup", "target"}
      BY <2>1 DEF Plan
    <2>3. rows' = rows /\ fault' # "unexpected_request"
      BY <1>1
    <2> QED BY <1>2, <1>3, <2>1, <2>2, <2>3, CleanKeeps DEF TerminalKinds
  <1>6. CASE plan # NoPlan
    <2>1. /\ events' = log /\ admission_closed' = TRUE /\ index' = index
          /\ cursor' = cursor /\ offset' = offset /\ inbox' = inbox
      BY <1>4, <1>6 DEF client
    <2>2. Live' = Live
      BY <1>4, <1>6 DEF Live
    <2>3. OneBatch'
      BY <1>1, <1>2, <2>1, <2>2 DEF MatrixInv, OneBatch
    <2>4. OrderedRows'
      BY <1>1, <1>3, <2>1 DEF MatrixInv, OrderedRows
    <2>5. OrderedUpTo(events, index)'
      BY <1>3, <2>1
    <2> QED BY <2>3, <2>4, <2>5 DEF MatrixInv
  <1> QED BY <1>5, <1>6

LEMMA ScheduleKeeps == ASSUME MatrixInv, Schedule PROVE MatrixInv'
  <1>1. fault = "none" /\ UNCHANGED client
    BY DEF Schedule
  <1>2. Live \subseteq Batch(index)
    BY DEF MatrixInv, OneBatch
  <1>3. CASE AwaitAdmission
    <2>1. /\ output' = Plan("idle", Nothing)
          /\ UNCHANGED <<requests, index, admission_closed, events, rows, fault>>
      BY <1>3 DEF AwaitAdmission, Idle
    <2>2. output'.role \notin {"setup", "target"}
      BY <2>1 DEF Plan
    <2>3. Live' = Live
      BY <2>1 DEF Live
    <2> QED BY <1>1, <2>1, <2>2, <2>3, QuietKeeps DEF client
  <1>4. CASE Execute
    BY <1>1, <1>4, ExecuteKeeps
  <1>5. CASE FailShrunkBatch
    <2>1. /\ Clean(events, "batch_failed", {}) /\ output' = Plan("idle", Nothing)
          /\ UNCHANGED <<rows, fault>> /\ admission_closed
      BY <1>5 DEF FailShrunkBatch, Fail, Idle
    <2>2. output'.role \notin {"setup", "target"}
      BY <2>1 DEF Plan
    <2>3. index = cursor /\ inbox = {} /\ OrderedUpTo(events, index)
      BY <2>1 DEF MatrixInv, OneBatch
    <2>4. fault' # "unexpected_request"
      BY <1>1, <2>1
    <2> QED BY <1>1, <2>1, <2>2, <2>3, <2>4, CleanKeeps DEF TerminalKinds
  <1>6. CASE AfterMatrix
    <2>1. /\ output' = Plan("idle", Nothing)
          /\ UNCHANGED <<requests, index, admission_closed, events, rows, fault>>
      BY <1>6 DEF AfterMatrix, Idle
    <2>2. output'.role \notin {"setup", "target"}
      BY <2>1 DEF Plan
    <2>3. Live' = Live
      BY <2>1 DEF Live
    <2> QED BY <1>1, <2>1, <2>2, <2>3, QuietKeeps DEF client
  <1> QED BY <1>2, <1>3, <1>4, <1>5, <1>6 DEF Schedule

LEMMA RecordDurationKeeps == ASSUME MatrixInv, RecordDuration PROVE MatrixInv'
  <1>1. UNCHANGED <<cursor, offset, inbox, requests, index, admission_closed, output, events, rows, fault>>
    BY DEF RecordDuration, client
  <1>2. Live' = Live
    BY <1>1 DEF Live
  <1> QED BY <1>1, <1>2, QuietKeeps DEF MatrixInv, OneBatch

LEMMA UpdateFromOutputKeeps == ASSUME MatrixInv, UpdateFromOutput PROVE MatrixInv'
  <1>1. fault = "none" /\ output # None /\ UNCHANGED client
    BY DEF UpdateFromOutput
  <1>2. CASE registered = "none"
    <2>1. /\ UNCHANGED <<requests, index, admission_closed, output, events, rows>>
          /\ fault' = "unregistered_update"
      BY <1>2 DEF UpdateFromOutput, Raise
    <2>2. Live' = Live
      BY <2>1 DEF Live
    <2> QED BY <1>1, <2>1, <2>2, QuietKeeps DEF client, MatrixInv, OneBatch
  <1>3. CASE registered # "none"
    <2>1. output' = None /\ fault' = fault
      BY <1>3 DEF UpdateFromOutput
    <2>2. PICK ended \in IF MayStop THEN SUBSET Returning ELSE {{}} :
               IF output.role = "target"
               THEN /\ Clean(events, "batch_complete", ended)
                    /\ finished' = finished \cup Aborted \cup ended
                    /\ rows' = Append(rows, index)
               ELSE /\ requests' = Without(requests, ended)
                    /\ finished' = finished \cup ended
                    /\ events' = IF output.role = "setup"
                                 THEN Append(events, Event("setup_complete")) ELSE events
                    /\ UNCHANGED <<index, admission_closed, rows>>
      BY <1>3 DEF UpdateFromOutput
    <2>3. CASE output.role = "target"
      <3>1. admission_closed
        BY <1>1, <2>3 DEF MatrixInv, OneBatch
      <3>2. index = cursor /\ inbox = {} /\ OrderedUpTo(events, index)
        BY <3>1 DEF MatrixInv, OneBatch
      <3>3. Clean(events, "batch_complete", ended) /\ rows' = Append(rows, index)
        BY <2>2, <2>3
      <3>4. fault' # "unexpected_request"
        BY <1>1, <2>1
      <3> QED BY <1>1, <2>1, <3>2, <3>3, <3>4, CleanKeeps DEF TerminalKinds
    <2>4. CASE output.role # "target"
      <3>1. /\ requests' = Without(requests, ended)
            /\ events' = IF output.role = "setup"
                         THEN Append(events, Event("setup_complete")) ELSE events
            /\ UNCHANGED <<index, admission_closed, rows, cursor, offset, inbox>>
        BY <1>1, <2>2, <2>4 DEF client
      <3>2. Live' \subseteq Live
        BY <3>1 DEF Without, Live
      <3>3. OneBatch'
        BY <1>1, <2>1, <3>1, <3>2 DEF MatrixInv, OneBatch
      <3>4. CASE output.role # "setup"
        <4>1. OrderedUpTo(events, index)' /\ OrderedRows'
          BY <3>1, <3>4 DEF MatrixInv, OrderedRows
        <4> QED BY <3>3, <4>1 DEF MatrixInv
      <3>5. CASE output.role = "setup"
        <4> DEFINE e == Event("setup_complete")
                   longer == events'
        <4>1. e \in BatchEvent /\ e.event \in OtherKinds
          BY DEF Event, BatchEvent, OtherKinds, MatrixInv, OneBatch
        <4>2. longer = Append(events, e)
          BY <3>1, <3>5
        <4> HIDE DEF e, longer
        <4>3. OrderedUpTo(events, index)
          BY DEF MatrixInv
        <4>4. OrderedUpTo(longer, index) /\ CompletedIn(longer) = CompletedIn(events)
          BY <4>1, <4>2, <4>3, OtherEvent
        <4>5. OrderedUpTo(events', index')
          BY <3>1, <4>4 DEF longer
        <4>6. OrderedRows'
          BY <3>1, <4>4 DEF MatrixInv, OrderedRows, longer
        <4> QED BY <3>3, <4>5, <4>6 DEF MatrixInv
      <3> QED BY <3>4, <3>5
    <2> QED BY <2>3, <2>4
  <1> QED BY <1>2, <1>3

LEMMA MatrixNext == ASSUME MatrixInv, [Next]_vars PROVE MatrixInv'
  <1>1. CASE UNCHANGED vars
    <2>1. UNCHANGED <<cursor, offset, inbox, requests, index, admission_closed, output, events, rows, fault>>
      BY <1>1 DEF vars, client, engine
    <2>2. Live' = Live
      BY <2>1 DEF Live
    <2> QED BY <2>1, <2>2, QuietKeeps DEF MatrixInv, OneBatch
  <1>2. CASE Arrival
    BY <1>2, ArriveKeeps DEF Arrival
  <1> QED BY <1>1, <1>2, NextBatchKeeps, ScheduleKeeps, RecordDurationKeeps,
             UpdateFromOutputKeeps DEF Next, EngineStep

-----------------------------------------------------------------------------
(* What the client, the scheduler and the file keep between them. *)
THEOREM MatrixInvariant == Spec => []MatrixInv
  <1>1. Init => MatrixInv
    BY MatrixInit
  <1>2. MatrixInv /\ [Next]_vars => MatrixInv'
    BY MatrixNext
  <1> QED BY <1>1, <1>2, PTL DEF Spec

(* The scheduler never sees requests of two recipes. *)
THEOREM BatchesStayApart == Spec => []RecipesNeverMix
  <1>1. MatrixInv => RecipesNeverMix
    BY DEF MatrixInv, OneBatch, RecipesNeverMix
  <1> QED BY <1>1, MatrixInvariant, PTL

(* Events and rows follow the matrix: one end for each recipe, one row for   *)
(* each that was completed, in order; the client is one event behind at most. *)
THEOREM FilesFollowTheMatrix == Spec => []MatrixIsOrdered
  <1>1. MatrixInv => MatrixIsOrdered
    BY DEF MatrixInv, OneBatch, OrderedUpTo, OrderedRows, MatrixIsOrdered, Ends, EndsIn, RecipesOf,
           RecipesIn, CompletedIn, TerminalKinds
  <1> QED BY <1>1, MatrixInvariant, PTL

-----------------------------------------------------------------------------
(* How batches end: measured in the state their recipe names, or failed. *)

BatchFailed == \E n \in DOMAIN events : events[n].event = "batch_failed"

(* Python's None is not a plan. *)
NoneIsNoPlan == \A role, w : None # Plan(role, w)

(* An iteration that nobody registered follows a failure or the last recipe. *)
StopsInv ==
    /\ output # None /\ registered = "none" => index \notin Matrix \/ BatchFailed
    /\ fault # "none" => index \notin Matrix \/ BatchFailed

(* Until the target, no decode of the batch has computed beyond its prompt;  *)
(* in it, each request is one step beyond the state its recipe names.        *)
PreparationInv ==
    /\ requests \in [Live -> Nat]
    /\ output = None \/ output.role # "target" =>
          \A r \in Live : r[2] = "d" => requests[r] <= Recipe[index].context
    /\ TargetsFindTheirState

BatchInv == MatrixInv /\ StopsInv /\ PreparationInv

(* What the live requests of a recipe are. *)
LEMMA BatchFacts ==
    ASSUME MatrixInv
    PROVE  /\ Live # {} => index \in Matrix
           /\ \A r \in Live : r[1] = index /\ r[2] \in {"p", "d"}
           /\ \A r \in Decodes(index) : r[1] = index /\ r[2] = "d"
           /\ \A r \in Prefills(index) : r[1] = index /\ r[2] = "p"
           /\ \A r \in Live : r[2] = "d" => r \in Decodes(index)
  <1>1. Live \subseteq Batch(index)
    BY DEF MatrixInv, OneBatch
  <1>2. \A r \in Decodes(index) : r[1] = index /\ r[2] = "d"
    BY DEF Decodes
  <1>3. \A r \in Prefills(index) : r[1] = index /\ r[2] = "p"
    BY DEF Prefills
  <1>4. "p" # "d"
    OBVIOUS
  <1>5. \A r \in Live : index \in Matrix /\ (r \in Prefills(index) \/ r \in Decodes(index))
    BY <1>1 DEF Batch
  <1> QED BY <1>2, <1>3, <1>4, <1>5

LEMMA BatchInit == Init => BatchInv
  <1> SUFFICES ASSUME Init PROVE BatchInv
    OBVIOUS
  <1>1. MatrixInv
    BY MatrixInit
  <1>2. Live = {} /\ output = None /\ fault = "none"
    BY DEF Init, Live, Nothing
  <1>3. requests \in [Live -> Nat]
    BY DEF Init, Live, Nothing
  <1> QED BY <1>1, <1>2, <1>3 DEF BatchInv, StopsInv, PreparationInv, TargetsFindTheirState

(* A step that starts no iteration and ends none. *)
LEMMA BatchStutters ==
    ASSUME BatchInv, MatrixInv',
           UNCHANGED <<requests, index, output, registered, events, fault>>
    PROVE  BatchInv'
  <1>1. Live' = Live
    BY DEF Live
  <1>2. StopsInv'
    BY DEF BatchInv, StopsInv, BatchFailed
  <1>3. TargetsFindTheirState'
    BY DEF BatchInv, PreparationInv, TargetsFindTheirState, Prepared
  <1>4. PreparationInv'
    BY <1>1, <1>3 DEF BatchInv, PreparationInv
  <1> QED BY <1>2, <1>4 DEF BatchInv

(* A round that schedules nothing, over requests that are left or dropped. *)
LEMMA BatchIdles ==
    ASSUME BatchInv, MatrixInv', fault = "none", fault' = "none",
           output' = Plan("idle", Nothing), requests' = requests,
           index' = index, events' = events, output = None,
           registered' = "none" => index \notin Matrix
    PROVE  BatchInv'
  <1>1. Live' = Live
    BY DEF Live
  <1>2. StopsInv'
    BY DEF StopsInv
  <1>3. output'.role = "idle"
    BY DEF Plan
  <1>4. TargetsFindTheirState'
    BY <1>3 DEF TargetsFindTheirState
  <1>5. PreparationInv'
    BY <1>1, <1>4 DEF BatchInv, PreparationInv
  <1> QED BY <1>2, <1>5 DEF BatchInv

LEMMA FailKeepsBatch ==
    ASSUME MatrixInv, MatrixInv', NEW log, Fail(log), log \in Seq(BatchEvent)
    PROVE  StopsInv' /\ PreparationInv'
  <1>1. /\ requests' = Without(requests, Live \cup {}) /\ events' = Append(log, Event("batch_failed"))
        /\ output' = Plan("idle", Nothing)
    BY DEF Fail, Clean, Idle, Aborted
  <1>2. index \in Nat
    BY DEF MatrixInv, OneBatch
  <1>3. BatchFailed'
    <2> DEFINE e == Event("batch_failed")
               longer == events'
    <2>1. e \in BatchEvent /\ e.event = "batch_failed"
      BY <1>2 DEF Event, BatchEvent, TerminalKinds
    <2>2. longer = Append(log, e)
      BY <1>1
    <2> HIDE DEF e, longer, BatchEvent
    <2>3. DOMAIN longer = 1..Len(log) + 1 /\ Len(log) \in Nat /\ longer[Len(log) + 1] = e
      BY <2>1, <2>2, AppendedEvent
    <2>4. Len(log) + 1 \in DOMAIN longer
      BY <2>3
    <2>5. \E n \in DOMAIN longer : longer[n].event = "batch_failed"
      BY <2>1, <2>3, <2>4
    <2> QED BY <2>5 DEF longer, BatchFailed
  <1>4. StopsInv'
    BY <1>3 DEF StopsInv
  <1>5. Live' = {} /\ requests' \in [{} -> Nat]
    BY <1>1 DEF Without, Live
  <1>6. output'.role = "idle"
    BY <1>1 DEF Plan
  <1>7. TargetsFindTheirState'
    BY <1>6 DEF TargetsFindTheirState
  <1> QED BY <1>4, <1>5, <1>7 DEF PreparationInv

(* What a setup round grants no prompt has too much of. *)
LEMMA SetupFacts ==
    ASSUME BatchInv, index \in Matrix, NEW g \in Grants, ~SetupRaises
    PROVE  /\ DOMAIN SetupWork(g) \subseteq Live
           /\ \A r \in DOMAIN SetupWork(g) : SetupWork(g)[r] \in Nat
           /\ \A r \in DOMAIN SetupWork(g) : r \in Decodes(index) =>
                 r \in Unready /\ SetupWork(g)[r] = g[r] /\ g[r] <= Lacks(r)
  <1>1. Live = Batch(index)
    BY DEF SetupRaises
  <1>2. Unprepared \subseteq Live /\ Unready \subseteq Live
    BY <1>1 DEF Unprepared, Unready, Batch
  <1>3. \A r \in Unready : g[r] \in Nat /\ g[r] <= Lacks(r)
    BY DEF Grants
  <1>4. SetupTokens \in Nat
    BY MatrixAssumption
  <1>5. \A r \in Decodes(index) : r \notin Unprepared
    BY BatchFacts DEF Unprepared, BatchInv
  <1> QED BY <1>2, <1>3, <1>4, <1>5 DEF SetupWork

LEMMA SetupKeepsBatch ==
    ASSUME BatchInv, MatrixInv', index \in Matrix, output = None, fault = "none",
           NEW g \in Grants, ~SetupRaises,
           requests' = [r \in Live |-> requests[r] +
                           (IF r \in DOMAIN SetupWork(g) THEN SetupWork(g)[r] ELSE 0)],
           output' = Plan("setup", SetupWork(g)), registered' = "planned",
           index' = index, fault' = "none"
    PROVE  BatchInv'
  <1>1. Live' = Live /\ StopsInv'
    BY DEF Live, StopsInv
  <1>2. output'.role = "setup"
    BY DEF Plan
  <1>3. TargetsFindTheirState'
    BY <1>2 DEF TargetsFindTheirState
  <1>4. requests \in [Live -> Nat]
    BY DEF BatchInv, PreparationInv
  <1>5. requests' \in [Live -> Nat]
    BY <1>4, SetupFacts
  <1>6. ASSUME NEW r \in Live, r[2] = "d" PROVE requests'[r] <= Recipe[index].context
    <2>1. r \in Decodes(index) /\ r[1] = index
      BY <1>6, BatchFacts DEF BatchInv
    <2>2. requests[r] <= Recipe[index].context /\ requests[r] \in Nat
      BY <1>4, <1>6 DEF BatchInv, PreparationInv
    <2>3. Recipe[index].context \in Nat
      BY MatrixAssumption DEF Matrix
    <2>4. Lacks(r) = Recipe[index].context - requests[r]
      BY <1>6, <2>1 DEF Lacks, PromptOf
    <2>5. CASE r \in DOMAIN SetupWork(g)
      <3>1. requests'[r] = requests[r] + SetupWork(g)[r]
        BY <2>5
      <3>2. SetupWork(g)[r] \in Nat /\ SetupWork(g)[r] <= Lacks(r)
        BY <2>1, <2>5, SetupFacts
      <3> QED BY <2>2, <2>3, <2>4, <3>1, <3>2
    <2>6. CASE r \notin DOMAIN SetupWork(g)
      BY <2>2, <2>6
    <2> QED BY <2>5, <2>6
  <1> QED BY <1>1, <1>3, <1>5, <1>6 DEF BatchInv, PreparationInv

LEMMA TargetKeepsBatch ==
    ASSUME NoneIsNoPlan, BatchInv, MatrixInv', index \in Matrix, output = None, fault = "none",
           ~TargetRaises,
           requests' = [r \in Live |-> requests[r] +
                           (IF r \in DOMAIN TargetWork THEN TargetWork[r] ELSE 0)],
           output' = Plan("target", TargetWork), registered' = "planned",
           index' = index, fault' = "none"
    PROVE  BatchInv'
  <1>1. Live' = Live /\ StopsInv'
    BY DEF Live, StopsInv
  <1>2. output' # None
    BY DEF NoneIsNoPlan
  <1>3. output'.role = "target" /\ output'.work = TargetWork
    BY DEF Plan
  <1>4. requests \in [Live -> Nat] /\ Live = Batch(index) /\ Unready = {}
    BY DEF BatchInv, PreparationInv, TargetRaises
  <1>5. /\ DOMAIN TargetWork \subseteq Live
        /\ \A r \in DOMAIN TargetWork : r \in Prefills(index) \/ r \in Decodes(index)
        /\ \A r \in DOMAIN TargetWork : TargetWork[r] = IF r[2] = "d" THEN 1 ELSE Recipe[index].tokens
    BY <1>4 DEF TargetWork, Batch
  <1>6. Recipe[index].tokens \in Nat /\ Recipe[index].context \in Nat /\ Prepared(index) \in Nat
    BY MatrixAssumption DEF Matrix, Prepared
  <1>7. requests' \in [Live -> Nat]
    BY <1>4, <1>5, <1>6
  <1>8. ASSUME NEW r \in DOMAIN TargetWork
        PROVE  requests'[r] - TargetWork[r] =
                  IF r[2] = "d" THEN Recipe[index].context ELSE Prepared(index)
    <2>1. r \in Live /\ requests[r] \in Nat /\ TargetWork[r] \in Nat
      BY <1>4, <1>5, <1>6, <1>8
    <2>2. requests'[r] - TargetWork[r] = requests[r]
      BY <2>1
    <2>3. CASE r \in Decodes(index)
      <3>1. r[1] = index /\ r[2] = "d"
        BY <2>3, BatchFacts DEF BatchInv
      <3>2. ~(Lacks(r) > 0)
        BY <1>4, <2>3 DEF Unready
      <3>3. requests[r] <= Recipe[index].context
        BY <2>1, <3>1 DEF BatchInv, PreparationInv
      <3>4. Lacks(r) = Recipe[index].context - requests[r]
        BY <3>1 DEF Lacks, PromptOf
      <3> QED BY <1>6, <2>1, <2>2, <3>1, <3>2, <3>3, <3>4
    <2>4. CASE r \in Prefills(index)
      <3>1. r[2] # "d"
        BY <2>4, BatchFacts DEF BatchInv
      <3>2. requests[r] = Prepared(index)
        BY <2>4 DEF TargetRaises
      <3> QED BY <2>2, <3>1, <3>2
    <2> QED BY <1>5, <2>3, <2>4
  <1>9. TargetsFindTheirState'
    <2>1. \A r \in DOMAIN output'.work :
             requests'[r] - output'.work[r] =
                IF r[2] = "d" THEN Recipe[index'].context ELSE Prepared(index')
      BY <1>3, <1>8
    <2> QED BY <2>1 DEF TargetsFindTheirState, Prepared
  <1> QED BY <1>1, <1>2, <1>3, <1>7, <1>9 DEF BatchInv, PreparationInv

LEMMA ExecuteKeepsBatch ==
    ASSUME NoneIsNoPlan, BatchInv, MatrixInv', fault = "none", output = None, Execute
    PROVE  BatchInv'
  <1> DEFINE log == IF admission_closed THEN events ELSE Append(events, Event("admission_closed"))
  <1>1. index \in Matrix /\ fault' = fault
    BY DEF Execute
  <1>2. log \in Seq(BatchEvent)
    <2>1. events \in Seq(BatchEvent) /\ index \in Nat
      BY DEF BatchInv, MatrixInv, OrderedUpTo, OneBatch
    <2>2. Event("admission_closed") \in BatchEvent
      BY <2>1 DEF Event, BatchEvent, OtherKinds
    <2> HIDE DEF BatchEvent
    <2> QED BY <2>1, <2>2
  <1>3. PICK plan \in Plans \cup (IF KvMayLack THEN {NoPlan} ELSE {}) :
            IF plan = NoPlan THEN Fail(log)
            ELSE /\ output' = plan
                 /\ registered' = "planned"
                 /\ requests' = [r \in Live |->
                        requests[r] + (IF r \in DOMAIN plan.work THEN plan.work[r] ELSE 0)]
                 /\ finished' = {}
                 /\ events' = log
                 /\ admission_closed' = TRUE
                 /\ UNCHANGED index
    BY DEF Execute
  <1> HIDE DEF log
  <1>4. CASE plan = NoPlan
    BY <1>2, <1>3, <1>4, FailKeepsBatch DEF BatchInv
  <1>5. CASE plan # NoPlan
    <2>1. /\ output' = plan /\ registered' = "planned" /\ index' = index
          /\ requests' = [r \in Live |->
                requests[r] + (IF r \in DOMAIN plan.work THEN plan.work[r] ELSE 0)]
      BY <1>3, <1>5
    <2>2. plan \in Plans
      BY <1>5
    <2>3. ~SetupRaises
      BY <1>5, <2>2 DEF Plans
    <2>4. CASE Unprepared \cup Unready # {}
      <3>1. PICK g \in Grants : plan = Plan("setup", SetupWork(g))
        BY <2>2, <2>3, <2>4 DEF Plans
      <3>2. plan.work = SetupWork(g)
        BY <3>1 DEF Plan
      <3> QED BY <1>1, <2>1, <2>3, <3>1, <3>2, SetupKeepsBatch
    <2>5. CASE Unprepared \cup Unready = {}
      <3>1. plan = Plan("target", TargetWork) /\ ~TargetRaises
        BY <1>5, <2>2, <2>3, <2>5 DEF Plans
      <3>2. plan.work = TargetWork
        BY <3>1 DEF Plan
      <3> QED BY <1>1, <2>1, <3>1, <3>2, TargetKeepsBatch
    <2> QED BY <2>4, <2>5
  <1> QED BY <1>4, <1>5

LEMMA ScheduleKeepsBatch ==
    ASSUME NoneIsNoPlan, BatchInv, MatrixInv', Schedule PROVE BatchInv'
  <1>1. fault = "none" /\ output = None
    BY DEF Schedule
  <1>2. Live \subseteq Batch(index)
    BY DEF BatchInv, MatrixInv, OneBatch
  <1>3. CASE AwaitAdmission
    <2>1. /\ output' = Plan("idle", Nothing) /\ registered' = "wait"
          /\ UNCHANGED <<requests, index, events, fault>>
      BY <1>3 DEF AwaitAdmission, Idle
    <2> QED BY <1>1, <2>1, BatchIdles
  <1>4. CASE Execute
    BY <1>1, <1>4, ExecuteKeepsBatch
  <1>5. CASE FailShrunkBatch
    <2>1. Fail(events) /\ events \in Seq(BatchEvent)
      BY <1>5 DEF FailShrunkBatch, BatchInv, MatrixInv, OrderedUpTo
    <2> QED BY <2>1, FailKeepsBatch DEF BatchInv
  <1>6. CASE AfterMatrix
    <2>1. /\ output' = Plan("idle", Nothing) /\ index \notin Matrix
          /\ UNCHANGED <<requests, index, events, fault>>
      BY <1>6 DEF AfterMatrix, Idle
    <2> QED BY <1>1, <2>1, BatchIdles
  <1> QED BY <1>2, <1>3, <1>4, <1>5, <1>6 DEF Schedule

LEMMA UpdateKeepsBatch ==
    ASSUME BatchInv, MatrixInv', UpdateFromOutput PROVE BatchInv'
  <1>1. fault = "none" /\ output # None
    BY DEF UpdateFromOutput
  <1>2. CASE registered = "none"
    <2>1. UNCHANGED <<requests, index, output, registered, events>>
      BY <1>2 DEF UpdateFromOutput, Raise
    <2>3. StopsInv'
      BY <1>1, <1>2, <2>1 DEF BatchInv, StopsInv, BatchFailed
    <2>4. TargetsFindTheirState'
      BY <2>1 DEF BatchInv, PreparationInv, TargetsFindTheirState, Prepared
    <2>5. Live' = Live
      BY <2>1 DEF Live
    <2>6. PreparationInv'
      BY <2>1, <2>4, <2>5 DEF BatchInv, PreparationInv
    <2> QED BY <2>3, <2>6 DEF BatchInv
  <1>3. CASE registered # "none"
    <2>1. output' = None /\ fault' = "none"
      BY <1>1, <1>3 DEF UpdateFromOutput
    <2>2. PICK ended \in IF MayStop THEN SUBSET Returning ELSE {{}} :
               IF output.role = "target"
               THEN Clean(events, "batch_complete", ended)
               ELSE requests' = Without(requests, ended) /\ index' = index
      BY <1>3 DEF UpdateFromOutput
    <2>3. StopsInv' /\ TargetsFindTheirState'
      BY <2>1 DEF StopsInv, TargetsFindTheirState
    <2>4. CASE output.role = "target"
      <3>1. Live' = {} /\ requests' \in [{} -> Nat]
        BY <2>2, <2>4 DEF Clean, Without, Aborted, Live
      <3> QED BY <2>3, <3>1 DEF BatchInv, PreparationInv
    <2>5. CASE output.role # "target"
      <3>1. requests' = Without(requests, ended) /\ index' = index
        BY <2>2, <2>5
      <3>2. /\ requests \in [Live -> Nat]
            /\ \A r \in Live : r[2] = "d" => requests[r] <= Recipe[index].context
        BY <2>5 DEF BatchInv, PreparationInv
      <3>3. Live' = Live \ ended /\ \A r \in Live' : requests'[r] = requests[r]
        BY <3>1 DEF Without, Live
      <3>4. requests' \in [Live' -> Nat]
        BY <3>1, <3>2 DEF Without, Live
      <3> QED BY <2>3, <3>1, <3>2, <3>3, <3>4 DEF BatchInv, PreparationInv
    <2> QED BY <2>4, <2>5
  <1> QED BY <1>2, <1>3

LEMMA ArriveKeepsBatch ==
    ASSUME BatchInv, MatrixInv', NEW r \in inbox, Arrive(r) PROVE BatchInv'
  <1>1. /\ output = None /\ requests' = [x \in Live \cup {r} |-> IF x = r THEN 0 ELSE requests[x]]
        /\ UNCHANGED <<index, output, registered, events, fault>>
    BY DEF Arrive
  <1>2. Live' = Live \cup {r}
    BY <1>1 DEF Live
  <1>3. StopsInv'
    BY <1>1 DEF BatchInv, StopsInv, BatchFailed
  <1>4. TargetsFindTheirState'
    BY <1>1 DEF TargetsFindTheirState
  <1>5. index \in Matrix
    <2>1. Live' \subseteq Batch(index')
      BY DEF MatrixInv, OneBatch
    <2>2. r \in Batch(index)
      BY <1>1, <1>2, <2>1
    <2> QED BY <2>2 DEF Batch
  <1>6. 0 <= Recipe[index].context
    BY <1>5, MatrixAssumption DEF Matrix
  <1>7. requests' \in [Live' -> Nat]
    BY <1>1, <1>2 DEF BatchInv, PreparationInv
  <1>8. \A x \in Live' : x[2] = "d" => requests'[x] <= Recipe[index'].context
    BY <1>1, <1>2, <1>6 DEF BatchInv, PreparationInv
  <1> QED BY <1>3, <1>4, <1>7, <1>8 DEF BatchInv, PreparationInv

LEMMA BatchNext == ASSUME NoneIsNoPlan, BatchInv, [Next]_vars PROVE BatchInv'
  <1>1. MatrixInv'
    BY MatrixNext DEF BatchInv
  <1>2. CASE UNCHANGED vars
    BY <1>1, <1>2, BatchStutters DEF vars, engine
  <1>3. CASE Arrival
    BY <1>1, <1>3, ArriveKeepsBatch DEF Arrival
  <1>4. CASE NextBatch
    BY <1>1, <1>4, BatchStutters DEF NextBatch, engine
  <1>5. CASE RecordDuration
    BY <1>1, <1>5, BatchStutters DEF RecordDuration
  <1> QED BY <1>1, <1>2, <1>3, <1>4, <1>5, ScheduleKeepsBatch, UpdateKeepsBatch DEF Next, EngineStep

(* Before the matrix ends only a failed batch stops the engine, and a target *)
(* finds each request in exactly the state its recipe names, whatever the     *)
(* setup rounds, the division of their tokens and the early ends.            *)
THEOREM BatchesAreMeasured == ASSUME NoneIsNoPlan PROVE Spec => []MeasuredOrFailed
  <1>1. Init => BatchInv
    BY BatchInit
  <1>2. BatchInv /\ [Next]_vars => BatchInv'
    BY BatchNext
  <1>3. BatchInv => MeasuredOrFailed
    <2> SUFFICES ASSUME BatchInv PROVE MeasuredOrFailed
      OBVIOUS
    <2>1. BatchFailed => \E e \in ToSet(events) : e.event = "batch_failed"
      BY DEF BatchFailed, ToSet
    <2> QED BY <2>1 DEF BatchInv, StopsInv, PreparationInv, MeasuredOrFailed, StopsOnlyOnFailure
  <1> QED BY <1>1, <1>2, <1>3, PTL DEF Spec
=============================================================================
