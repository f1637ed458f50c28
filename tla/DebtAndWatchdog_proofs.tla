-------------------------- MODULE DebtAndWatchdog_proofs --------------------------
(***************************************************************************)
(* The two components that keep books on the iterations of the engine.      *)
(*                                                                         *)
(* The debts follow the lateness of their requests in charged time, for      *)
(* every set of requests, prompts and SLOs and every sequence of plans, as   *)
(* long as no id is used twice.  The watchdog counts right for every limit and every bound: *)
(* its counters are the streaks the iterations end in, it trips exactly on a *)
(* stall, and what it keeps are the latest diagnostics.                      *)
(***************************************************************************)
EXTENDS ServiceDebt, ProgressWatchdog, TLAPS

(* The service debts. *)

Request == [arrival : Nat, prefilled : Nat, first : Nat, tokens : Nat]

(* Types, and what a request's own fields say of it. *)
Types ==
    /\ now \in 0..MaxTime
    /\ frame \in Nat \ {0}
    /\ Live \subseteq Requests
    /\ requests \in [Live -> Request]
    /\ \A r \in Live : /\ requests[r].arrival <= now
                       /\ requests[r].first <= now
                       /\ IsPrefill(requests[r], r) => requests[r].tokens = 0
    /\ DOMAIN store.ttft \subseteq Requests
    /\ DOMAIN store.tbt \subseteq Requests
    /\ \A r \in DOMAIN store.ttft : store.ttft[r] \in Nat
    /\ \A r \in DOMAIN store.tbt : store.tbt[r] \in Nat
    /\ in_flight \in BOOLEAN
    /\ fault \in {"none", "duplicate", "out_of_range"}
    /\ uncharged \in Nat
    /\ opened_at \in [Requests -> Nat]

(* An id that is gone does not come back, and only an id that came has a debt. *)
Ids ==
    /\ gone \subseteq Requests
    /\ Live \cap gone = {}
    /\ terminal \subseteq gone
    /\ DOMAIN store.ttft \cup DOMAIN store.tbt \subseteq Live \cup gone

(* The feedback of every snapshot but the one in flight has been applied. *)
Frames ==
    /\ snapshot.frame = frame - 1
    /\ applied \subseteq 0..(frame - 1)
    /\ in_flight => frame - 1 \notin applied /\ store.hash = frame - 1
    /\ ~in_flight /\ fault = "none" /\ frame > 1 => frame - 1 \in applied
    /\ fault = "duplicate" => redelivered

(* The store was bound to the snapshot in flight, and what the snapshot says *)
(* of a request is still so.                                                 *)
Bound ==
    in_flight =>
        /\ DOMAIN store.ttft = DOMAIN snapshot.prefills
        /\ DOMAIN store.tbt \subseteq snapshot.decodes
        /\ DOMAIN snapshot.prefills \cap snapshot.decodes = {}
        /\ DOMAIN snapshot.prefills \cup snapshot.decodes \subseteq Live \cup gone
        /\ \A r \in Live \cap DOMAIN snapshot.prefills :
              /\ snapshot.prefills[r] = requests[r].prefilled
              /\ IsPrefill(requests[r], r)
        /\ \A r \in Live \cap snapshot.decodes : ~IsPrefill(requests[r], r)

(* A debt of q at time t of its clock, of either kind, is between its        *)
(* lateness and the time gone by.                                            *)
TtftWithin(debt, q, r, t) ==
    /\ q.arrival <= t
    /\ debt >= (t - q.arrival) * Prompt[r] - q.prefilled * TtftSlo[r]
    /\ debt <= (t - q.arrival) * Prompt[r]

TbtWithin(debt, q, r, t) ==
    /\ q.first <= t
    /\ q.tokens >= 1
    /\ debt >= (t - q.first) - (q.tokens - 1) * TbtSlo[r]
    /\ debt <= t - q.first

Debts ==
    fault = "none" =>
        /\ \A r \in Live \cap DOMAIN store.ttft :
              TtftWithin(store.ttft[r], requests[r], r, ChargedClock(r))
        /\ \A r \in Live \cap DOMAIN store.tbt :
              TbtWithin(store.tbt[r], requests[r], r, ChargedClock(r))

DebtInv == Types /\ Ids /\ Frames /\ Bound /\ Debts

-----------------------------------------------------------------------------
(* Products of naturals. *)
LEMMA Products ==
    /\ \A x, y \in Nat : x * y \in Nat
    /\ \A x, y, z \in Int : (x + y) * z = x * z + y * z
    /\ \A x, y \in Int : x * y \in Int
  OBVIOUS

(* The initial debt of a prompt is within its bounds. *)
LEMMA InitialIsWithin ==
    ASSUME NEW r \in Live, Types, NEW q, q = requests[r]
    PROVE  InitialDebt(r) \in Nat /\ TtftWithin(InitialDebt(r), q, r, now)
  <1>1. /\ q \in Request /\ Prompt[r] \in Nat /\ TtftSlo[r] \in Nat /\ now \in Nat
        /\ q.arrival \in Nat /\ q.prefilled \in Nat /\ now - q.arrival \in Nat
        /\ q.arrival <= now
    BY DebtAssumption DEF Types, Request
  <1> DEFINE gone_by == (now - q.arrival) * Prompt[r]
             done == q.prefilled * TtftSlo[r]
  <1>2. gone_by \in Nat /\ done \in Nat
    BY <1>1, Products
  <1>3. InitialDebt(r) = Positive(gone_by - done)
    BY DEF InitialDebt
  <1> HIDE DEF gone_by, done
  <1>4. /\ InitialDebt(r) \in Nat
        /\ InitialDebt(r) >= gone_by - done
        /\ InitialDebt(r) <= gone_by
    BY <1>2, <1>3 DEF Positive
  <1> QED BY <1>1, <1>4 DEF TtftWithin, gone_by, done

(* The TTFT debt keeps its bounds over an iteration of d that computes p     *)
(* tokens of its prompt.                                                     *)
LEMMA AdvancedTtftIsWithin ==
    ASSUME NEW r \in Requests, NEW d \in Nat, NEW p \in Nat, NEW t \in Int,
           NEW q \in Request, NEW debt \in Nat, TtftWithin(debt, q, r, t),
           NEW later \in Request, later.arrival = q.arrival, later.prefilled = q.prefilled + p,
           NEW after, after = Positive(debt + d * Prompt[r] - p * TtftSlo[r])
    PROVE  after \in Nat /\ TtftWithin(after, later, r, t + d)
  <1>1. /\ Prompt[r] \in Nat /\ TtftSlo[r] \in Nat /\ q.arrival \in Nat /\ q.prefilled \in Nat
        /\ t - q.arrival \in Nat /\ later.arrival <= t + d
    BY DebtAssumption DEF Request, TtftWithin
  <1> DEFINE gone_by == (t - q.arrival) * Prompt[r]
             passing == d * Prompt[r]
             done == q.prefilled * TtftSlo[r]
             doing == p * TtftSlo[r]
  <1>2. gone_by \in Nat /\ passing \in Nat /\ done \in Nat /\ doing \in Nat
    BY <1>1, Products
  <1>3. ((t + d) - later.arrival) * Prompt[r] = gone_by + passing
    <2>1. (t + d) - later.arrival = (t - q.arrival) + d
      BY <1>1
    <2> QED BY <1>1, <2>1, Products
  <1>4. later.prefilled * TtftSlo[r] = done + doing
    BY <1>1, Products
  <1>5. /\ debt >= gone_by - done
        /\ debt <= gone_by
        /\ after = Positive(debt + passing - doing)
    BY DEF TtftWithin
  <1> HIDE DEF gone_by, passing, done, doing
  <1>6. /\ after \in Nat
        /\ after >= (gone_by + passing) - (done + doing)
        /\ after <= gone_by + passing
    BY <1>2, <1>5 DEF Positive
  <1> QED BY <1>1, <1>3, <1>4, <1>6 DEF TtftWithin

(* The TBT debt keeps its bounds over an iteration of d, whether or not it   *)
(* returns a token.                                                          *)
LEMMA AdvancedTbtIsWithin ==
    ASSUME NEW r \in Requests, NEW d \in Nat, NEW t \in Int, NEW token \in {0, 1},
           NEW q \in Request, NEW debt \in Nat, TbtWithin(debt, q, r, t),
           NEW later \in Request, later.first = q.first, later.tokens = q.tokens + token,
           NEW after, after = Positive(debt + d - (IF token = 1 THEN TbtSlo[r] ELSE 0))
    PROVE  after \in Nat /\ TbtWithin(after, later, r, t + d)
  <1>1. /\ TbtSlo[r] \in Nat /\ q.first \in Nat /\ q.tokens \in Nat /\ q.tokens >= 1
        /\ q.first <= t
    BY DebtAssumption DEF Request, TbtWithin
  <1> DEFINE paid == (q.tokens - 1) * TbtSlo[r]
             paying == IF token = 1 THEN TbtSlo[r] ELSE 0
  <1>2. q.tokens - 1 \in Nat
    BY <1>1
  <1>3. paid \in Nat /\ paying \in Nat
    BY <1>1, <1>2, Products
  <1>4. (later.tokens - 1) * TbtSlo[r] = paid + paying
    <2>1. CASE token = 1
      <3>1. later.tokens - 1 = (q.tokens - 1) + 1
        BY <1>1, <2>1
      <3>2. ((q.tokens - 1) + 1) * TbtSlo[r] = paid + 1 * TbtSlo[r]
        BY <1>1, <1>2, Products
      <3>3. 1 * TbtSlo[r] = TbtSlo[r]
        BY <1>1
      <3> QED BY <2>1, <3>1, <3>2, <3>3
    <2>2. CASE token = 0
      BY <1>1, <1>2, <1>3, <2>2
    <2> QED BY <2>1, <2>2
  <1>5. /\ debt >= (t - q.first) - paid
        /\ debt <= t - q.first
        /\ after = Positive(debt + d - paying)
    BY DEF TbtWithin
  <1> HIDE DEF paid, paying
  <1>6. /\ after \in Nat
        /\ after >= ((t + d) - q.first) - (paid + paying)
        /\ after <= (t + d) - q.first
    BY <1>1, <1>3, <1>5 DEF Positive
  <1>7. later.tokens >= 1 /\ later.first <= t + d
    BY <1>1
  <1> QED BY <1>4, <1>6, <1>7 DEF TbtWithin

-----------------------------------------------------------------------------
LEMMA DebtInit == Init => DebtInv
  <1> SUFFICES ASSUME Init PROVE DebtInv
    OBVIOUS
  <1>1. Live = {} /\ requests \in [Live -> Request]
    BY DEF Init, Live, Empty
  <1>2. store.hash = 0 /\ DOMAIN store.ttft = {} /\ DOMAIN store.tbt = {}
    BY DEF Init, Empty
  <1>3. Types
    <2>1. now \in 0..MaxTime
      BY DebtAssumption DEF Init
    <2>2. frame \in Nat \ {0}
      BY DEF Init
    <2>3. in_flight \in BOOLEAN /\ fault \in {"none", "duplicate", "out_of_range"}
      BY Zenon DEF Init
    <2>4. uncharged \in Nat /\ opened_at \in [Requests -> Nat]
      BY DEF Init
    <2> QED BY <1>1, <1>2, <2>1, <2>2, <2>3, <2>4 DEF Types
  <1>4. Ids /\ Frames /\ Bound /\ Debts
    BY <1>1, <1>2 DEF Init, Ids, Frames, Bound, Debts
  <1> QED BY <1>3, <1>4 DEF DebtInv

LEMMA ArriveKeeps ==
    ASSUME ~MayReuse, DebtInv, NEW r \in Requests, Arrive(r) PROVE DebtInv'
  <1> USE DEF DebtInv
  <1>1. /\ r \notin Live /\ r \notin gone
        /\ Live' = Live \cup {r}
        /\ requests'[r] = NewRequest
        /\ \A x \in Live : requests'[x] = requests[x]
        /\ requests' \in [Live' -> Request]
    <2>1. r \notin Live /\ r \notin gone
      BY DEF Arrive
    <2>2. requests' = [x \in Live \cup {r} |-> IF x = r THEN NewRequest ELSE requests[x]]
      BY DEF Arrive
    <2>3. NewRequest \in Request
      BY DEF NewRequest, Types, Request
    <2>4. DOMAIN requests' = Live \cup {r}
      BY <2>2
    <2>5. \A x \in Live \cup {r} : requests'[x] \in Request
      BY <2>2, <2>3 DEF Types
    <2> QED BY <2>1, <2>2, <2>4, <2>5 DEF Live
  <1>2. Types'
    BY <1>1, DebtAssumption DEF Types, Arrive, NewRequest, IsPrefill
  <1>3. Ids'
    BY <1>1 DEF Ids, Arrive
  <1>4. Frames'
    BY DEF Frames, Arrive
  <1>5. Bound'
    BY <1>1 DEF Bound, Arrive, IsPrefill
  <1>6. Debts'
    BY <1>1 DEF Debts, Ids, Arrive, ChargedClock, TtftWithin, TbtWithin
  <1> QED BY <1>2, <1>3, <1>4, <1>5, <1>6

LEMMA AbortKeeps == ASSUME DebtInv, NEW r \in Requests, Abort(r) PROVE DebtInv'
  <1> USE DEF DebtInv
  <1>1. /\ Live' = Live \ {r}
        /\ requests' \in [Live' -> Request]
        /\ \A x \in Live' : requests'[x] = requests[x]
    BY DEF Abort, Keep, Live, Types
  <1>2. Types'
    BY <1>1 DEF Types, Abort, IsPrefill
  <1>3. Ids'
    BY <1>1 DEF Ids, Abort
  <1>4. Frames'
    BY DEF Frames, Abort
  <1>5. Bound'
    BY <1>1 DEF Bound, Abort, IsPrefill
  <1>6. Debts'
    BY <1>1 DEF Debts, Abort, ChargedClock, TtftWithin, TbtWithin
  <1> QED BY <1>2, <1>3, <1>4, <1>5, <1>6

(* No debt's clock moves while time passes uncharged. *)
LEMMA ElapseKeeps == ASSUME DebtInv, Elapse PROVE DebtInv'
  <1> USE DEF DebtInv
  <1>1. /\ now' = now + 1 /\ now < MaxTime /\ uncharged' = uncharged + 1
        /\ UNCHANGED <<requests, gone, frame, snapshot, in_flight, terminal, store, applied,
                       fault, opened_at, redelivered>>
    BY DEF Elapse
  <1>2. Live' = Live
    BY <1>1 DEF Live
  <1>3. Types'
    BY <1>1, <1>2, DebtAssumption DEF Types, Request, IsPrefill
  <1>4. Ids' /\ Frames'
    BY <1>1, <1>2 DEF Ids, Frames
  <1>5. Bound'
    BY <1>1, <1>2 DEF Bound, IsPrefill
  <1>6. \A r \in Requests : ChargedClock(r)' = ChargedClock(r)
    BY <1>1 DEF Types, ChargedClock
  <1>7. Debts'
    BY <1>1, <1>2, <1>6 DEF Types, Debts, TtftWithin, TbtWithin
  <1> QED BY <1>3, <1>4, <1>5, <1>7

(* What is marked is an amount of uncharged time. *)
LEMMA MarkIsTyped == ASSUME Types, MarkOpened PROVE opened_at' \in [Requests -> Nat]
  BY DEF Types, MarkOpened

LEMMA BindKeeps == ASSUME DebtInv, Bind PROVE DebtInv'
  <1> USE DEF DebtInv
  <1> DEFINE prefills == {r \in Live : IsPrefill(requests[r], r)}
             decodes == Live \ prefills
  <1>1. /\ snapshot' = [frame |-> frame, decodes |-> decodes,
                        prefills |-> [r \in prefills |-> requests[r].prefilled]]
        /\ store' = [hash |-> frame,
                     ttft |-> [r \in prefills |-> BoundTtft(r)],
                     tbt |-> KeptTbt(decodes)]
        /\ frame' = frame + 1 /\ in_flight' = TRUE /\ terminal' = {}
        /\ fault = "none"
        /\ MarkOpened
        /\ UNCHANGED <<now, requests, gone, applied, fault, uncharged, redelivered>>
    BY DEF Bind
  <1>2. DOMAIN store'.ttft = prefills /\ DOMAIN store'.tbt = decodes \cap DOMAIN store.tbt
    BY <1>1 DEF KeptTbt, Keep
  <1>3. /\ Live' = Live
        /\ \A r \in prefills : store'.ttft[r] = BoundTtft(r)
        /\ \A r \in decodes \cap DOMAIN store.tbt : store'.tbt[r] = store.tbt[r]
    BY <1>1 DEF KeptTbt, Keep, Live
  <1>o. opened_at' \in [Requests -> Nat]
    BY <1>1, MarkIsTyped
  <1>c. /\ \A r \in prefills \cap DOMAIN store.ttft : ChargedClock(r)' = ChargedClock(r)
        /\ \A r \in prefills \ DOMAIN store.ttft : ChargedClock(r)' = now
        /\ \A r \in decodes \cap DOMAIN store.tbt : ChargedClock(r)' = ChargedClock(r)
    <2>1. prefills \subseteq Requests /\ decodes \subseteq Requests /\ prefills \cap decodes = {}
      BY DEF Types
    <2> HIDE DEF prefills, decodes
    <2>2. /\ \A r \in prefills \cap DOMAIN store.ttft : opened_at'[r] = opened_at[r]
          /\ \A r \in prefills \ DOMAIN store.ttft : opened_at'[r] = uncharged
          /\ \A r \in decodes \cap DOMAIN store.tbt : opened_at'[r] = opened_at[r]
      BY <1>1, <1>2, <2>1 DEF MarkOpened
    <2>3. now' = now /\ uncharged' = uncharged /\ now \in Nat /\ uncharged \in Nat
      BY <1>1, DebtAssumption DEF Types
    <2> QED BY <2>2, <2>3 DEF ChargedClock
  <1>4. \A r \in prefills :
           BoundTtft(r) \in Nat /\ TtftWithin(BoundTtft(r), requests[r], r, ChargedClock(r)')
    <2> SUFFICES ASSUME NEW r \in prefills
                 PROVE  /\ BoundTtft(r) \in Nat
                        /\ TtftWithin(BoundTtft(r), requests[r], r, ChargedClock(r)')
      OBVIOUS
    <2>1. CASE r \in DOMAIN store.ttft
      BY <1>1, <1>c, <2>1 DEF BoundTtft, Types, Debts
    <2>2. CASE r \notin DOMAIN store.ttft
      BY <1>c, <2>2, InitialIsWithin DEF BoundTtft
    <2> QED BY <2>1, <2>2
  <1>5. Types'
    <2>1. /\ \A r \in DOMAIN store'.ttft : store'.ttft[r] \in Nat
          /\ \A r \in DOMAIN store'.tbt : store'.tbt[r] \in Nat
      BY <1>2, <1>3, <1>4 DEF Types
    <2>2. DOMAIN store'.ttft \subseteq Requests /\ DOMAIN store'.tbt \subseteq Requests
      BY <1>2 DEF Types
    <2> QED BY <1>1, <1>3, <1>o, <2>1, <2>2 DEF Types, IsPrefill
  <1>6. Ids'
    BY <1>1, <1>2, <1>3 DEF Ids
  <1>7. Frames'
    <2>1. frame \in Nat \ {0} /\ frame - 1 \in 0..frame
      BY DEF Types
    <2>2. frame \notin applied /\ applied \subseteq 0..frame
      BY <2>1 DEF Frames
    <2>3. snapshot'.frame = frame /\ store'.hash = frame /\ frame' - 1 = frame
      BY <1>1, <2>1
    <2> QED BY <1>1, <2>2, <2>3 DEF Frames
  <1>8. Bound'
    <2>1. /\ DOMAIN snapshot'.prefills = prefills /\ snapshot'.decodes = decodes
          /\ \A r \in prefills : snapshot'.prefills[r] = requests[r].prefilled
      BY <1>1
    <2> QED BY <1>1, <1>2, <1>3, <2>1 DEF Bound, IsPrefill
  <1>9. Debts'
    <2>1. ASSUME NEW r \in prefills
          PROVE  TtftWithin(store'.ttft[r], requests'[r], r, ChargedClock(r)')
      BY <1>1, <1>3, <1>4
    <2>2. ASSUME NEW r \in decodes \cap DOMAIN store.tbt
          PROVE  TbtWithin(store'.tbt[r], requests'[r], r, ChargedClock(r)')
      BY <1>1, <1>3, <1>c DEF Debts
    <2> HIDE DEF prefills, decodes
    <2> QED BY <1>2, <2>1, <2>2 DEF Debts
  <1> QED BY <1>5, <1>6, <1>7, <1>8, <1>9

LEMMA RedeliverKeeps == ASSUME DebtInv, Redeliver PROVE DebtInv'
  <1> USE DEF DebtInv
  <1>1. snapshot.frame \in applied
    BY DEF Redeliver, Frames, Types
  <1>2. fault' = "duplicate" /\ UNCHANGED <<store, applied>>
    BY <1>1 DEF Redeliver, UpdateFromActual, Refuses
  <1>3. /\ UNCHANGED <<now, requests, gone, frame, snapshot, in_flight, terminal,
                       uncharged, opened_at>>
        /\ ~in_flight /\ redelivered'
    BY DEF Redeliver
  <1>4. Types' /\ Ids'
    BY <1>2, <1>3 DEF Types, Ids, Live, IsPrefill
  <1>5. Frames' /\ Bound'
    BY <1>2, <1>3 DEF Frames, Bound
  <1>6. Debts'
    BY <1>2 DEF Debts
  <1> QED BY <1>4, <1>5, <1>6

(* What an iteration makes of a live request. *)
LEMMA ProgressFields ==
    ASSUME NEW q \in Request, NEW r, NEW f, NEW returned, NEW later \in Nat,
           r \in DOMAIN f.prefill => f.prefill[r] \in Nat,
           NEW after, after = Progress(q, r, f, returned, later)
    PROVE  /\ after \in Request
           /\ after.arrival = q.arrival
           /\ after.prefilled = IF r \in DOMAIN f.prefill THEN q.prefilled + f.prefill[r]
                                ELSE q.prefilled
           /\ after.tokens = IF r \in returned THEN q.tokens + 1 ELSE q.tokens
           /\ after.first = IF r \in returned /\ q.tokens = 0 THEN later ELSE q.first
  <1> DEFINE computed == IF r \in DOMAIN f.prefill THEN q.prefilled + f.prefill[r]
                         ELSE q.prefilled
             first == IF r \in returned /\ q.tokens = 0 THEN later ELSE q.first
             tokens == IF r \in returned THEN q.tokens + 1 ELSE q.tokens
  <1>1. computed \in Nat /\ first \in Nat /\ tokens \in Nat
    BY DEF Request
  <1>2. after = [q EXCEPT !.prefilled = computed, !.first = first, !.tokens = tokens]
    BY DEF Progress
  <1> HIDE DEF computed, first, tokens
  <1>3. /\ after \in Request /\ after.arrival = q.arrival
        /\ after.prefilled = computed /\ after.tokens = tokens /\ after.first = first
    BY <1>1, <1>2 DEF Request
  <1> QED BY <1>3 DEF computed, first, tokens

(* One iteration: nothing is refused, and each debt that stays keeps its      *)
(* bounds.                                                                   *)
LEMMA UpdateFromOutputKeeps == ASSUME DebtInv, UpdateFromOutput PROVE DebtInv'
  <1> USE DEF DebtInv
  <1>1. /\ in_flight /\ fault = "none" /\ in_flight' = FALSE /\ terminal' = {}
        /\ MarkOpened
        /\ UNCHANGED <<frame, snapshot, uncharged, redelivered>>
    BY DEF UpdateFromOutput
  <1>p. PICK d \in Durations, served \in SUBSET snapshot.decodes,
             plan \in {p \in [DOMAIN snapshot.prefills -> 0..2] :
                       \A r \in DOMAIN p : snapshot.prefills[r] + p[r] <= Prompt[r]} :
       LET known == (snapshot.decodes \cup DOMAIN snapshot.prefills) \cap (Live \ terminal)
           completed == {r \in DOMAIN plan \cap known :
                            plan[r] > 0 /\ snapshot.prefills[r] + plan[r] = Prompt[r]}
           returned == completed \cup (served \cap known)
       IN \E stops \in SUBSET returned :
          LET f == [frame |-> snapshot.frame, duration |-> d, prefill |-> plan,
                    decode |-> served \cap known, initialized |-> completed \ stops,
                    terminal |-> terminal \cup stops]
          IN /\ \A r \in returned : requests[r].tokens + 1 >= MaxOutput => r \in stops
             /\ now + d <= MaxTime
             /\ now' = now + d
             /\ requests' = [r \in Live \ stops |->
                                IF r \in known THEN Progress(requests[r], r, f, returned, now + d)
                                ELSE requests[r]]
             /\ gone' = gone \cup stops
             /\ feedback' = f
             /\ UpdateFromActual(snapshot, f)
    BY DEF UpdateFromOutput
  <1> DEFINE known == (snapshot.decodes \cup DOMAIN snapshot.prefills) \cap (Live \ terminal)
             completed == {r \in DOMAIN plan \cap known :
                             plan[r] > 0 /\ snapshot.prefills[r] + plan[r] = Prompt[r]}
             returned == completed \cup (served \cap known)
             feed(stops) == [frame |-> snapshot.frame, duration |-> d, prefill |-> plan,
                             decode |-> served \cap known, initialized |-> completed \ stops,
                             terminal |-> terminal \cup stops]
  <1>q. PICK stops \in SUBSET returned :
          /\ now + d <= MaxTime
          /\ now' = now + d
          /\ requests' = [r \in Live \ stops |->
                            IF r \in known
                            THEN Progress(requests[r], r, feed(stops), returned, now + d)
                            ELSE requests[r]]
          /\ gone' = gone \cup stops
          /\ UpdateFromActual(snapshot, feed(stops))
    BY <1>p
  <1> DEFINE f == feed(stops)
             tbt == DOMAIN store.tbt \ (terminal \cup stops)
             ttft == {r \in DOMAIN store.ttft : snapshot.prefills[r] + plan[r] < Prompt[r]}
             opened == (completed \ stops) \ ((terminal \cup stops) \cup tbt)
             accepted == /\ store' = Advance(snapshot, f)
                         /\ applied' = applied \cup {frame - 1}
                         /\ fault' = fault
             refused == fault' = "out_of_range" /\ UNCHANGED <<store, applied>>
  <1>2. /\ d \in Nat /\ now \in Nat /\ now' = now + d /\ now + d <= MaxTime
        /\ DOMAIN plan = DOMAIN snapshot.prefills
        /\ \A r \in DOMAIN plan : plan[r] \in Nat
    BY <1>q, DebtAssumption DEF Types
  <1>3. /\ f.frame = frame - 1 /\ f.duration = d /\ f.prefill = plan
        /\ f.decode = served \cap known /\ f.initialized = completed \ stops
        /\ f.terminal = terminal \cup stops
    BY DEF Frames
  <1>4. /\ known = (snapshot.decodes \cup DOMAIN snapshot.prefills) \cap Live
        /\ known \subseteq Live /\ returned \subseteq Live /\ stops \subseteq Live
        /\ Live \cap terminal = {}
    BY DEF Ids
  <1>5. /\ DOMAIN store.ttft = DOMAIN snapshot.prefills
        /\ DOMAIN store.tbt \subseteq snapshot.decodes
        /\ DOMAIN snapshot.prefills \cap snapshot.decodes = {}
        /\ completed \cap snapshot.decodes = {}
    BY <1>1, <1>2 DEF Bound
  <1>6. accepted \/ refused
    <2>1. ~Refuses(snapshot)
      BY <1>1 DEF Refuses, Frames
    <2>2. IsAcceptable(snapshot, f)
      <3> HIDE DEF f
      <3>1. store.hash = snapshot.frame
        BY <1>1 DEF Frames
      <3> QED BY <3>1, <1>3, <1>5 DEF IsAcceptable
    <2>3. snapshot.frame = frame - 1
      BY DEF Frames
    <2> HIDE DEF f
    <2> QED BY <1>q, <2>1, <2>2, <2>3 DEF UpdateFromActual, f
  <1>7. ASSUME accepted
        PROVE
        /\ DOMAIN store'.ttft = ttft
        /\ DOMAIN store'.tbt = tbt \cup opened
        /\ \A r \in ttft : store'.ttft[r] =
               Positive(store.ttft[r] + d * Prompt[r] - plan[r] * TtftSlo[r])
        /\ \A r \in tbt : store'.tbt[r] =
               Positive(store.tbt[r] + d - (IF r \in served \cap known THEN TbtSlo[r] ELSE 0))
        /\ \A r \in opened : store'.tbt[r] = 0
    <2> HIDE DEF f, known, completed, returned
    <2> QED BY <1>3, <1>7 DEF Advance, AdvancedTtft, AdvancedTbt
  <1>c. ASSUME accepted
        PROVE  /\ \A r \in ttft : ChargedClock(r)' = ChargedClock(r) + d
               /\ \A r \in tbt : ChargedClock(r)' = ChargedClock(r) + d
               /\ \A r \in opened : ChargedClock(r)' = now + d
    <2>1. /\ \A r \in ttft : r \in DOMAIN store.ttft /\ r \notin opened /\ r \notin tbt
          /\ \A r \in tbt : r \in DOMAIN store.tbt /\ r \notin ttft
          /\ \A r \in opened : r \notin DOMAIN store.tbt
      <3>1. ttft \cap completed = {}
        BY <1>5, DebtAssumption DEF Types
      <3>2. opened \subseteq completed \ tbt /\ opened \cap (terminal \cup stops) = {}
        OBVIOUS
      <3>3. tbt = DOMAIN store.tbt \ (terminal \cup stops) /\ ttft \subseteq DOMAIN store.ttft
        OBVIOUS
      <3> HIDE DEF ttft, tbt, opened, completed
      <3> QED BY <1>5, <3>1, <3>2, <3>3
    <2>2. DOMAIN store.ttft \subseteq Requests /\ DOMAIN store.tbt \subseteq Requests
      BY DEF Types
    <2>3. opened \subseteq Requests
      BY <1>4 DEF Types
    <2>4. /\ \A r \in ttft \cup tbt : opened_at'[r] = opened_at[r] /\ opened_at[r] \in Nat
          /\ \A r \in opened : opened_at'[r] = uncharged
      <3>1. DOMAIN store'.ttft = ttft /\ DOMAIN store'.tbt = tbt \cup opened
        BY <1>7, <1>c
      <3>2. opened_at \in [Requests -> Nat]
        BY DEF Types
      <3> HIDE DEF ttft, tbt, opened
      <3> QED BY <1>1, <2>1, <2>2, <2>3, <3>1, <3>2 DEF MarkOpened
    <2>5. uncharged' = uncharged /\ uncharged \in Nat
      BY <1>1 DEF Types
    <2> HIDE DEF ttft, tbt, opened
    <2> QED BY <1>2, <2>4, <2>5 DEF ChargedClock
  <1>8. /\ Live' = Live \ stops
        /\ \A r \in Live' : requests'[r] =
               IF r \in known THEN Progress(requests[r], r, f, returned, now + d)
               ELSE requests[r]
    <2> HIDE DEF f, known, completed, returned
    <2> QED BY <1>q DEF Live, f
  <1>9. ASSUME NEW r \in Live'
        PROVE  /\ requests'[r] \in Request
               /\ requests'[r].arrival = requests[r].arrival
               /\ requests'[r].prefilled =
                    IF r \in known \cap DOMAIN plan THEN requests[r].prefilled + plan[r]
                    ELSE requests[r].prefilled
               /\ requests'[r].tokens =
                    IF r \in returned THEN requests[r].tokens + 1 ELSE requests[r].tokens
               /\ requests'[r].first =
                    IF r \in returned /\ requests[r].tokens = 0 THEN now + d
                    ELSE requests[r].first
    <2>1. r \in Live /\ requests[r] \in Request
      BY <1>8 DEF Types
    <2>2. returned \subseteq known
      OBVIOUS
    <2>3. requests'[r] = IF r \in known THEN Progress(requests[r], r, f, returned, now + d)
                         ELSE requests[r]
      BY <1>8
    <2> HIDE DEF f, known, completed, returned
    <2>4. CASE r \in known
      <3>1. requests'[r] = Progress(requests[r], r, f, returned, now + d)
        BY <2>3, <2>4
      <3>2. r \in DOMAIN f.prefill => f.prefill[r] \in Nat
        BY <1>2, <1>3
      <3>3. now + d \in Nat
        BY <1>2
      <3> DEFINE after == requests'[r]
      <3> HIDE DEF after
      <3>4. /\ after \in Request
            /\ after.arrival = requests[r].arrival
            /\ after.prefilled = IF r \in DOMAIN f.prefill THEN requests[r].prefilled + f.prefill[r]
                                 ELSE requests[r].prefilled
            /\ after.tokens = IF r \in returned THEN requests[r].tokens + 1 ELSE requests[r].tokens
            /\ after.first = IF r \in returned /\ requests[r].tokens = 0 THEN now + d
                             ELSE requests[r].first
        BY <2>1, <3>1, <3>2, <3>3, ProgressFields DEF after
      <3> QED BY <1>3, <2>4, <3>4 DEF after
    <2>5. CASE r \notin known
      BY <2>1, <2>2, <2>3, <2>5
    <2> QED BY <2>4, <2>5
  <1> HIDE DEF f
  <1>10. Types'
    <2>1. now' \in 0..MaxTime /\ frame' \in Nat \ {0} /\ Live' \subseteq Requests
      <3>1. MaxTime \in Nat /\ frame' = frame
        BY <1>1, DebtAssumption
      <3> QED BY <1>2, <1>8, <3>1 DEF Types
    <2>8. in_flight' \in BOOLEAN /\ fault' \in {"none", "duplicate", "out_of_range"}
      <3>1. in_flight' \in BOOLEAN
        BY <1>1
      <3>2. fault' = fault \/ fault' = "out_of_range"
        BY <1>6
      <3>3. fault \in {"none", "duplicate", "out_of_range"}
        BY DEF Types
      <3> QED BY <3>1, <3>2, <3>3
    <2>9. uncharged' \in Nat /\ opened_at' \in [Requests -> Nat]
      BY <1>1, MarkIsTyped DEF Types
    <2>2. requests' \in [Live' -> Request]
      <3>1. requests' = [r \in Live' |-> requests'[r]]
        BY <1>q, <1>8
      <3> QED BY <1>9, <3>1
    <2>3. ASSUME NEW r \in Live'
          PROVE  /\ requests'[r].arrival <= now'
                 /\ requests'[r].first <= now'
                 /\ IsPrefill(requests[r], r)' => requests'[r].tokens = 0
      <3>1. /\ r \in Live /\ requests[r] \in Request
            /\ requests[r].arrival <= now /\ requests[r].first <= now
            /\ IsPrefill(requests[r], r) => requests[r].tokens = 0
        BY <1>8 DEF Types
      <3>2. requests'[r].arrival <= now' /\ requests'[r].first <= now'
        BY <1>2, <1>9, <3>1 DEF Request
      <3>3. ASSUME requests'[r].prefilled < Prompt[r] PROVE requests'[r].tokens = 0
        <4>1. Prompt[r] \in Nat
          BY <3>1, DebtAssumption DEF Types
        <4>2. requests[r].prefilled < Prompt[r]
          BY <1>2, <1>9, <3>1, <3>3, <4>1 DEF Request
        <4>3. r \notin snapshot.decodes
          BY <1>1, <3>1, <4>2 DEF Bound, IsPrefill
        <4>4. r \notin completed
          <5>1. SUFFICES ASSUME r \in completed PROVE FALSE
            OBVIOUS
          <5>2. r \in known \cap DOMAIN plan /\ snapshot.prefills[r] + plan[r] = Prompt[r]
            BY <5>1
          <5>3. snapshot.prefills[r] = requests[r].prefilled
            BY <1>1, <1>2, <3>1, <5>2 DEF Bound
          <5> QED BY <1>9, <3>3, <4>1, <5>2, <5>3
        <4>5. r \notin returned
          BY <4>3, <4>4
        <4> QED BY <1>9, <3>1, <4>2, <4>5 DEF IsPrefill
      <3> QED BY <3>2, <3>3 DEF IsPrefill
    <2>5. ASSUME NEW r \in ttft
          PROVE  Positive(store.ttft[r] + d * Prompt[r] - plan[r] * TtftSlo[r]) \in Nat
      <3>2. store.ttft[r] \in Nat /\ Prompt[r] \in Nat /\ TtftSlo[r] \in Nat /\ plan[r] \in Nat
        BY <1>2, <1>5, DebtAssumption DEF Types
      <3> DEFINE grows == d * Prompt[r]
                 falls == plan[r] * TtftSlo[r]
      <3>3. grows \in Nat /\ falls \in Nat
        BY <1>2, <3>2, Products
      <3> HIDE DEF grows, falls
      <3>4. Positive(store.ttft[r] + grows - falls) \in Nat
        BY <3>2, <3>3 DEF Positive
      <3> QED BY <3>4 DEF grows, falls
    <2>6. ASSUME NEW r \in tbt
          PROVE  Positive(store.tbt[r] + d
                          - (IF r \in served \cap known THEN TbtSlo[r] ELSE 0)) \in Nat
      <3>2. store.tbt[r] \in Nat /\ TbtSlo[r] \in Nat
        BY DebtAssumption DEF Types
      <3> QED BY <1>2, <3>2 DEF Positive
    <2>7. /\ DOMAIN store'.ttft \subseteq Requests /\ DOMAIN store'.tbt \subseteq Requests
          /\ \A r \in DOMAIN store'.ttft : store'.ttft[r] \in Nat
          /\ \A r \in DOMAIN store'.tbt : store'.tbt[r] \in Nat
      <3>1. CASE accepted
        <4>1. /\ ttft \subseteq Requests /\ tbt \subseteq Requests /\ opened \subseteq Requests
          BY <1>4 DEF Types
        <4> HIDE DEF accepted, f, known, completed, returned, ttft, tbt, opened
        <4> QED BY <1>7, <2>5, <2>6, <3>1, <4>1
      <3>2. CASE refused
        BY <3>2 DEF Types
      <3> HIDE DEF accepted, refused
      <3> QED BY <1>6, <3>1, <3>2
    <2> HIDE DEF known, completed, returned, ttft, tbt, opened, accepted, refused
    <2> QED BY <2>1, <2>2, <2>3, <2>7, <2>8, <2>9 DEF Types
  <1>11. Ids'
    <2>1. gone' = gone \cup stops
      BY <1>q
    <2>2. opened \subseteq Live \ stops
      BY <1>4
    <2>3. stops \subseteq Requests
      BY <1>4 DEF Types
    <2>4. DOMAIN store'.ttft \cup DOMAIN store'.tbt
              \subseteq DOMAIN store.ttft \cup DOMAIN store.tbt \cup Live
      <3>1. CASE accepted
        <4>1. ttft \subseteq DOMAIN store.ttft /\ tbt \subseteq DOMAIN store.tbt
          OBVIOUS
        <4> HIDE DEF accepted, known, completed, returned, ttft, tbt, opened
        <4> QED BY <1>7, <2>2, <3>1, <4>1
      <3>2. CASE refused
        BY <3>2
      <3> HIDE DEF accepted, refused
      <3> QED BY <1>6, <3>1, <3>2
    <2> HIDE DEF known, completed, returned, opened
    <2> QED BY <1>1, <1>4, <1>8, <2>1, <2>3, <2>4 DEF Ids
  <1>12. Frames' /\ Bound'
    <2>1. frame \in Nat \ {0} /\ applied \subseteq 0..(frame - 1)
      BY DEF Types, Frames
    <2>2. ~in_flight' /\ frame' = frame /\ snapshot' = snapshot
      BY <1>1
    <2>3. snapshot.frame = frame - 1 /\ redelivered' = redelivered /\ fault = "none"
      BY <1>1 DEF Frames
    <2>4. /\ applied' \subseteq 0..(frame - 1)
          /\ fault' = "none" => frame - 1 \in applied'
          /\ fault' # "duplicate"
      <3>1. CASE accepted
        BY <2>1, <2>3, <3>1
      <3>2. CASE refused
        BY <2>1, <3>2
      <3> HIDE DEF accepted, refused
      <3> QED BY <1>6, <3>1, <3>2
    <2>5. Frames'
      BY <2>2, <2>3, <2>4 DEF Frames
    <2> QED BY <2>2, <2>5 DEF Bound
  <1>13. ASSUME accepted, NEW r \in Live' \cap DOMAIN store'.ttft
         PROVE  TtftWithin(store'.ttft[r], requests'[r], r, ChargedClock(r)')
    <2> DEFINE clock == ChargedClock(r)
    <2>a. accepted
      BY <1>13
    <2>1. r \in ttft /\ r \in Live /\ r \in DOMAIN plan /\ r \in known /\ r \in Requests
      BY <1>2, <1>4, <1>5, <1>7, <1>8, <2>a DEF Types
    <2>2. requests'[r] \in Request /\ requests'[r].arrival = requests[r].arrival
          /\ requests'[r].prefilled = requests[r].prefilled + plan[r]
      BY <1>9, <2>1
    <2>3. /\ requests[r] \in Request /\ store.ttft[r] \in Nat
          /\ TtftWithin(store.ttft[r], requests[r], r, clock)
      BY <1>1, <2>1 DEF Types, Debts
    <2>4. store'.ttft[r] = Positive(store.ttft[r] + d * Prompt[r] - plan[r] * TtftSlo[r])
      BY <1>7, <2>1, <2>a
    <2>5. plan[r] \in Nat /\ ChargedClock(r)' = clock + d /\ clock \in Int
      BY <1>2, <1>c, <2>1, <2>a DEF Types, ChargedClock
    <2> DEFINE p == plan[r]
               q == requests[r]
               later == requests'[r]
               debt == store.ttft[r]
               after == store'.ttft[r]
    <2> HIDE DEF p, q, later, debt, after, clock
    <2>6. /\ d \in Nat /\ p \in Nat /\ clock \in Int /\ q \in Request
          /\ debt \in Nat /\ TtftWithin(debt, q, r, clock)
          /\ later \in Request /\ later.arrival = q.arrival /\ later.prefilled = q.prefilled + p
          /\ after = Positive(debt + d * Prompt[r] - p * TtftSlo[r])
      BY <1>2, <2>2, <2>3, <2>4, <2>5 DEF p, q, later, debt, after
    <2>7. TtftWithin(after, later, r, clock + d)
      BY <2>1, <2>6, AdvancedTtftIsWithin
    <2> QED BY <2>5, <2>7 DEF later, after
  <1>14. ASSUME accepted, NEW r \in Live' \cap DOMAIN store'.tbt
         PROVE  TbtWithin(store'.tbt[r], requests'[r], r, ChargedClock(r)')
    <2> DEFINE clock == ChargedClock(r)
    <2>a. accepted
      BY <1>14
    <2>1. r \in Live /\ r \in Requests /\ requests[r] \in Request
      BY <1>8 DEF Types
    <2>2. CASE r \in tbt
      <3> DEFINE token == IF r \in served \cap known THEN 1 ELSE 0
      <3>1. store.tbt[r] \in Nat /\ TbtWithin(store.tbt[r], requests[r], r, clock)
        BY <1>1, <2>1, <2>2 DEF Types, Debts
      <3>2. r \in returned <=> r \in served \cap known
        BY <1>5, <2>2
      <3>3. requests[r].tokens >= 1
        BY <3>1 DEF TbtWithin
      <3>4. /\ requests'[r] \in Request
            /\ requests'[r].first = requests[r].first
            /\ requests'[r].tokens = requests[r].tokens + token
        BY <1>9, <2>1, <3>2, <3>3 DEF Request
      <3>5. store'.tbt[r] = Positive(store.tbt[r] + d - (IF token = 1 THEN TbtSlo[r] ELSE 0))
        BY <1>7, <2>2, <2>a
      <3>6. token \in {0, 1} /\ ChargedClock(r)' = clock + d /\ clock \in Int
        BY <1>c, <2>1, <2>2, <2>a DEF Types, ChargedClock
      <3> DEFINE q == requests[r]
                 later == requests'[r]
                 debt == store.tbt[r]
                 after == store'.tbt[r]
      <3> HIDE DEF token, clock, q, later, debt, after
      <3>7. /\ d \in Nat /\ clock \in Int /\ token \in {0, 1} /\ q \in Request
            /\ debt \in Nat /\ TbtWithin(debt, q, r, clock)
            /\ later \in Request /\ later.first = q.first /\ later.tokens = q.tokens + token
            /\ after = Positive(debt + d - (IF token = 1 THEN TbtSlo[r] ELSE 0))
        BY <1>2, <2>1, <3>1, <3>4, <3>5, <3>6 DEF q, later, debt, after
      <3>8. TbtWithin(after, later, r, clock + d)
        BY <2>1, <3>7, AdvancedTbtIsWithin
      <3> QED BY <3>6, <3>8 DEF later, after
    <2>3. CASE r \in opened
      <3>1. r \in completed /\ r \in returned /\ r \in DOMAIN snapshot.prefills
        BY <1>2, <2>3
      <3>2. requests[r].tokens = 0
        BY <1>1, <2>1, <3>1 DEF Bound, Types
      <3>3. requests'[r].tokens = 0 + 1 /\ requests'[r].first = now + d
        BY <1>9, <3>1, <3>2
      <3>4. store'.tbt[r] = 0
        BY <1>7, <2>3, <2>a
      <3>5. TbtSlo[r] \in Nat /\ ChargedClock(r)' \in Nat /\ ChargedClock(r)' = now + d
        BY <1>2, <1>c, <2>1, <2>3, <2>a, DebtAssumption
      <3>6. (1 - 1) * TbtSlo[r] = 0
        BY <3>5
      <3> DEFINE later == requests'[r]
                 after == store'.tbt[r]
                 done == (later.tokens - 1) * TbtSlo[r]
                 t == ChargedClock(r)'
      <3>7. later.tokens = 1 /\ later.first = t /\ after = 0 /\ t \in Nat
        BY <3>3, <3>4, <3>5
      <3>8. done = 0
        BY <3>6, <3>7
      <3> HIDE DEF later, after, done, t
      <3>9. later.first <= t /\ later.tokens >= 1 /\ after >= (t - later.first) - done /\ after <= t - later.first
        BY <3>7, <3>8
      <3> QED BY <3>9 DEF TbtWithin, later, after, done, t
    <2> QED BY <1>7, <2>2, <2>3, <2>a
  <1>15. Debts'
    <2>1. ~refused \/ fault' # "none"
      OBVIOUS
    <2> HIDE DEF known, completed, returned, ttft, tbt, opened, accepted, refused
    <2> QED BY <1>6, <1>13, <1>14, <2>1 DEF Debts
  <1> QED BY <1>10, <1>11, <1>12, <1>15

LEMMA DebtNext == ASSUME ~MayReuse, DebtInv, [Next]_vars PROVE DebtInv'
  <1>1. ASSUME NEW r \in Requests, Arrive(r) \/ Abort(r) PROVE DebtInv'
    BY <1>1, ArriveKeeps, AbortKeeps
  <1>2. CASE UNCHANGED vars
    <2>1. Types' /\ Ids'
      BY <1>2 DEF DebtInv, vars, Types, Ids, Live, IsPrefill
    <2>2. Frames' /\ Bound'
      BY <1>2 DEF DebtInv, vars, Frames, Bound, Live, IsPrefill
    <2>3. Debts'
      BY <1>2 DEF DebtInv, vars, Debts, Live, ChargedClock, TtftWithin, TbtWithin
    <2> QED BY <2>1, <2>2, <2>3 DEF DebtInv
  <1> QED BY <1>1, <1>2, ElapseKeeps, BindKeeps, UpdateFromOutputKeeps, RedeliverKeeps DEF Next

-----------------------------------------------------------------------------
(* What bind_snapshot and update_from_actual keep between them, as long as   *)
(* no client uses an id twice.                                               *)
THEOREM DebtInvariant == ASSUME ~MayReuse PROVE Spec => []DebtInv
  <1>1. Init => DebtInv
    BY DebtInit
  <1>2. DebtInv /\ [Next]_vars => DebtInv'
    BY DebtNext
  <1> QED BY <1>1, <1>2, PTL DEF Spec

(* The store keeps its types. *)
THEOREM DebtsAreTyped == ASSUME ~MayReuse PROVE Spec => []TypeOK
  <1>1. DebtInv => TypeOK
    <2> SUFFICES ASSUME DebtInv PROVE TypeOK
      OBVIOUS
    <2>1. frame \in Nat \ {0} /\ applied \subseteq 0..(frame - 1)
      BY DEF DebtInv, Types, Frames
    <2>2. applied \subseteq 0..frame
      BY <2>1
    <2> QED BY <2>1, <2>2 DEF DebtInv, Types, Ids, TypeOK
  <1> QED BY <1>1, DebtInvariant, PTL

(* update_from_actual refuses no first delivery of any iteration's feedback, *)
(* neither as inconsistent with the store nor as a duplicate.                *)
THEOREM FeedbackIsNeverRefused == ASSUME ~MayReuse PROVE Spec => []RefusesOnlyDuplicates
  <1>1. DebtInv => RefusesOnlyDuplicates
    BY DEF DebtInv, Types, Frames, RefusesOnlyDuplicates
  <1> QED BY <1>1, DebtInvariant, PTL

(* Every debt is its request's lateness in charged time, whichever plans run *)
(* and however much time passes uncharged.                                   *)
THEOREM DebtFollowsChargedTime == ASSUME ~MayReuse PROVE Spec => []DebtIsChargedLateness
  <1>1. DebtInv => TtftDebtIsLateness
    BY DEF DebtInv, Debts, TtftWithin, TtftDebtIsLateness
  <1>2. DebtInv => TbtDebtIsLateness
    BY DEF DebtInv, Debts, TbtWithin, TbtDebtIsLateness
  <1>3. DebtInv => DebtIsChargedLateness
    BY <1>1, <1>2 DEF DebtIsChargedLateness
  <1> QED BY <1>3, DebtInvariant, PTL

-----------------------------------------------------------------------------
(* The watchdog. *)

Diagnostics ==
    [iteration : Iterations, zero_progress : Nat, decode_only : Nat, triggered : BOOLEAN]

(* The types of the watchdog's fields. *)
WatchdogTypes ==
    /\ records \in Seq(Diagnostics)
    /\ consecutive_zero_progress \in Nat
    /\ consecutive_decode_only \in Nat
    /\ fail_fast \in BOOLEAN
    /\ raised \in BOOLEAN
    /\ history \in Seq(Iterations)

(* The last diagnostic is that of the last iteration. *)
LastIsCurrent ==
    records # <<>> =>
        /\ records[Len(records)].triggered
               <=> consecutive_zero_progress >= ZeroProgressLimit
        /\ raised <=> records[Len(records)].triggered /\ fail_fast

WatchdogInv == WatchdogTypes /\ StreaksAreExact /\ LastIsCurrent /\ DumpIsLatest

-----------------------------------------------------------------------------
(* What del records[:-max_records] leaves. *)
LEMMA KeptIsSuffix ==
    ASSUME NEW S, NEW s \in Seq(S), s # <<>>
    PROVE  /\ Kept(s) \in Seq(S)
           /\ Kept(s) # <<>>
           /\ Len(Kept(s)) = Smaller(MaxRecords, Len(s))
           /\ \A j \in 1..Len(Kept(s)) : Kept(s)[j] = s[(Len(s) - Len(Kept(s))) + j]
           /\ Kept(s)[Len(Kept(s))] = s[Len(s)]
  <1> DEFINE n == Smaller(MaxRecords, Len(s))
  <1>1. n \in 1..Len(s)
    BY WatchdogAssumption DEF Smaller
  <1>2. /\ Kept(s) \in Seq(S)
        /\ Len(Kept(s)) = n
        /\ \A j \in 1..n : Kept(s)[j] = s[(Len(s) - n) + j]
    <2>1. Kept(s) = SubSeq(s, (Len(s) - n) + 1, Len(s))
      BY DEF Kept
    <2> HIDE DEF n
    <2> QED BY <1>1, <2>1
  <1> QED BY <1>1, <1>2

(* n is the length of the longest suffix of h in the set Q. *)
Streak(n, h, Q) ==
    /\ n \in 0..Len(h)
    /\ \A j \in (Len(h) - n) + 1 .. Len(h) : h[j] \in Q
    /\ n < Len(h) => h[Len(h) - n] \notin Q

Stalls == {i \in Iterations : Stalled(i)}
DecodeOnlys == {i \in Iterations : DecodeOnly(i)}

LEMMA StreaksOfSets ==
    ASSUME history \in Seq(Iterations)
    PROVE  /\ IsStreak(consecutive_zero_progress, Stalled)
               <=> Streak(consecutive_zero_progress, history, Stalls)
           /\ IsStreak(consecutive_decode_only, DecodeOnly)
               <=> Streak(consecutive_decode_only, history, DecodeOnlys)
  <1>1. \A n \in 0..Len(history) : \A j \in (Len(history) - n) + 1 .. Len(history) :
            history[j] \in Iterations
    OBVIOUS
  <1>2. \A n \in 0..Len(history) : n < Len(history) => history[Len(history) - n] \in Iterations
    OBVIOUS
  <1> QED BY <1>1, <1>2 DEF IsStreak, Streak, Stalls, DecodeOnlys

(* A streak that the next iteration continues grows by one; one that it does *)
(* not continue is over.                                                     *)
LEMMA StreakGrows ==
    ASSUME NEW Q, NEW h \in Seq(Iterations), NEW i \in Iterations, NEW n, Streak(n, h, Q)
    PROVE  Streak(IF i \in Q THEN n + 1 ELSE 0, Append(h, i), Q)
  <1> DEFINE g == Append(h, i)
  <1>1. /\ Len(g) = Len(h) + 1
        /\ g[Len(g)] = i
        /\ \A j \in 1..Len(h) : g[j] = h[j]
    OBVIOUS
  <1>2. n \in 0..Len(h) /\ Len(h) \in Nat
    BY DEF Streak
  <1>3. CASE i \in Q
    <2> HIDE DEF g
    <2>1. ASSUME NEW j \in (Len(g) - (n + 1)) + 1 .. Len(g) PROVE g[j] \in Q
      <3>1. j = Len(g) \/ j \in (Len(h) - n) + 1 .. Len(h)
        BY <1>1, <1>2
      <3>2. j \in (Len(h) - n) + 1 .. Len(h) => j \in 1..Len(h)
        BY <1>2
      <3> QED BY <1>1, <1>3, <3>1, <3>2 DEF Streak
    <2>2. ASSUME n + 1 < Len(g) PROVE g[Len(g) - (n + 1)] \notin Q
      <3>1. Len(g) - (n + 1) = Len(h) - n /\ Len(h) - n \in 1..Len(h) /\ n < Len(h)
        BY <1>1, <1>2, <2>2
      <3> QED BY <1>1, <3>1 DEF Streak
    <2>3. n + 1 \in 0..Len(g)
      BY <1>1, <1>2
    <2>4. Streak(n + 1, g, Q)
      BY <2>1, <2>2, <2>3 DEF Streak
    <2> QED BY <1>3, <2>4 DEF g
  <1>4. CASE i \notin Q
    <2> HIDE DEF g
    <2>1. Streak(0, g, Q)
      BY <1>1, <1>2, <1>4 DEF Streak
    <2> QED BY <1>4, <2>1 DEF g
  <1> QED BY <1>3, <1>4

LEMMA WatchdogStarts == WatchdogInit => WatchdogInv
  <1> SUFFICES ASSUME WatchdogInit PROVE WatchdogInv
    OBVIOUS
  <1>1. records = <<>> /\ history = <<>> /\ Len(records) = 0 /\ Len(history) = 0
    BY DEF WatchdogInit
  <1>2. WatchdogTypes
    <2>1. records \in Seq(Diagnostics) /\ history \in Seq(Iterations)
      BY <1>1
    <2>2. consecutive_zero_progress \in Nat /\ consecutive_decode_only \in Nat
      BY DEF WatchdogInit
    <2>3. fail_fast \in BOOLEAN /\ raised \in BOOLEAN
      BY Zenon DEF WatchdogInit
    <2> QED BY <2>1, <2>2, <2>3 DEF WatchdogTypes
  <1>3. StreaksAreExact
    BY <1>1, <1>2 DEF WatchdogInit, StreaksAreExact, IsStreak
  <1>4. LastIsCurrent
    BY <1>1 DEF LastIsCurrent
  <1>5. DumpIsLatest
    BY <1>1, WatchdogAssumption DEF DumpIsLatest, Smaller
  <1> QED BY <1>2, <1>3, <1>4, <1>5 DEF WatchdogInv

LEMMA WatchdogSteps == WatchdogInv /\ [WatchdogNext]_watchdog_vars => WatchdogInv'
  <1> SUFFICES ASSUME WatchdogInv, [WatchdogNext]_watchdog_vars PROVE WatchdogInv'
    OBVIOUS
  <1>1. ASSUME NEW i \in Iterations, RecordIteration(i) PROVE WatchdogInv'
    <2> USE DEF WatchdogInv
    <2>1. i.nonempty \in BOOLEAN /\ i.prefill \in Nat /\ i.decode \in Nat
      BY WatchdogAssumption DEF Iterations
    <2>2. ZeroProgressAfter(i) \in Nat /\ DecodeOnlyAfter(i) \in Nat
      BY DEF WatchdogTypes, ZeroProgressAfter, DecodeOnlyAfter
    <2>3. Record(i) \in Diagnostics
      BY <2>1, <2>2, WatchdogAssumption DEF Record, Diagnostics
    <2>4. Append(records, Record(i)) \in Seq(Diagnostics) /\ Append(records, Record(i)) # <<>>
      BY <2>3 DEF WatchdogTypes
    <2>5. WatchdogTypes'
      <3>1. records' \in Seq(Diagnostics)
        BY <1>1, <2>4, KeptIsSuffix DEF RecordIteration
      <3>2. raised' \in BOOLEAN
        BY <1>1 DEF RecordIteration
      <3>3. /\ consecutive_zero_progress' \in Nat /\ consecutive_decode_only' \in Nat
            /\ fail_fast' \in BOOLEAN
        BY <1>1, <2>2 DEF RecordIteration, WatchdogTypes
      <3>4. history' \in Seq(Iterations)
        BY <1>1 DEF RecordIteration, WatchdogTypes
      <3> QED BY <3>1, <3>2, <3>3, <3>4 DEF WatchdogTypes
    <2>6. StreaksAreExact'
      <3>1. /\ history' = Append(history, i) /\ history \in Seq(Iterations)
            /\ consecutive_zero_progress'
                  = IF i \in Stalls THEN consecutive_zero_progress + 1 ELSE 0
            /\ consecutive_decode_only'
                  = IF i \in DecodeOnlys THEN consecutive_decode_only + 1 ELSE 0
        BY <1>1 DEF RecordIteration, ZeroProgressAfter, DecodeOnlyAfter, Stalls, DecodeOnlys, WatchdogTypes
      <3>2. /\ Streak(consecutive_zero_progress, history, Stalls)
            /\ Streak(consecutive_decode_only, history, DecodeOnlys)
        BY <3>1, StreaksOfSets DEF StreaksAreExact
      <3>3. /\ Streak(consecutive_zero_progress', history', Stalls)
            /\ Streak(consecutive_decode_only', history', DecodeOnlys)
        BY <3>1, <3>2, StreakGrows
      <3>4. history' \in Seq(Iterations)
        BY <2>5 DEF WatchdogTypes
      <3>5. IsStreak(consecutive_zero_progress, Stalled)'
        BY <3>3, <3>4 DEF IsStreak, Streak, Stalls
      <3>6. IsStreak(consecutive_decode_only, DecodeOnly)'
        BY <3>3, <3>4 DEF IsStreak, Streak, DecodeOnlys
      <3> QED BY <3>5, <3>6 DEF StreaksAreExact
    <2>7. LastIsCurrent'
      <3> DEFINE all == Append(records, Record(i))
      <3>1. records'[Len(records')] = Record(i)
        <4>1. all[Len(all)] = Record(i)
          BY <2>3 DEF WatchdogTypes
        <4>2. records' = Kept(all)
          BY <1>1 DEF RecordIteration
        <4> QED BY <2>4, <4>1, <4>2, KeptIsSuffix
      <3>2. Record(i).triggered <=> ZeroProgressAfter(i) >= ZeroProgressLimit
        <4>1. Record(i).triggered
                  = (i.nonempty /\ ZeroProgressAfter(i) >= ZeroProgressLimit)
          BY Zenon DEF Record
        <4>2. ZeroProgressAfter(i) >= ZeroProgressLimit => i.nonempty
          BY <2>1, WatchdogAssumption DEF ZeroProgressAfter, Stalled
        <4> QED BY <4>1, <4>2
      <3> QED BY <1>1, <3>1, <3>2 DEF RecordIteration, LastIsCurrent
    <2>8. DumpIsLatest'
      <3> DEFINE all == Append(records, Record(i))
      <3>1. /\ records' = Kept(all)
            /\ history' = Append(history, i)
        BY <1>1 DEF RecordIteration
      <3>2. /\ Len(records') = Smaller(MaxRecords, Len(all))
            /\ \A j \in 1..Len(records') : records'[j] = all[(Len(all) - Len(records')) + j]
        BY <2>4, <3>1, KeptIsSuffix
      <3>3. /\ Len(all) = Len(records) + 1
            /\ \A j \in 1..Len(records) : all[j] = records[j]
            /\ all[Len(all)] = Record(i)
            /\ Len(history') = Len(history) + 1
            /\ \A j \in 1..Len(history) : history'[j] = history[j]
            /\ history'[Len(history')] = i
        BY <2>3, <3>1 DEF WatchdogTypes
      <3>4. Record(i).iteration = i
        BY DEF Record
      <3>5. \A j \in 1..Len(all) : all[j].iteration = history'[(Len(history') - Len(all)) + j]
        <4> SUFFICES ASSUME NEW j \in 1..Len(all)
                     PROVE  all[j].iteration = history'[(Len(history') - Len(all)) + j]
          OBVIOUS
        <4>1. Len(records) <= Len(history) /\ Len(records) \in Nat /\ Len(history) \in Nat
          BY WatchdogAssumption DEF DumpIsLatest, Smaller, WatchdogTypes
        <4>2. CASE j = Len(all)
          <5>1. (Len(history') - Len(all)) + j = Len(history')
            BY <3>3, <4>1, <4>2
          <5> QED BY <3>3, <3>4, <4>2, <5>1
        <4>3. CASE j \in 1..Len(records)
          <5>1. records[j].iteration = history[(Len(history) - Len(records)) + j]
            BY <4>3 DEF DumpIsLatest
          <5>2. /\ (Len(history') - Len(all)) + j = (Len(history) - Len(records)) + j
                /\ (Len(history) - Len(records)) + j \in 1..Len(history)
            BY <3>3, <4>1, <4>3
          <5> HIDE DEF all
          <5> QED BY <3>3, <4>3, <5>1, <5>2
        <4> HIDE DEF all
        <4> QED BY <3>3, <4>1, <4>2, <4>3
      <3>6. Len(records') = Smaller(MaxRecords, Len(history'))
        BY <3>2, <3>3, WatchdogAssumption DEF DumpIsLatest, Smaller, WatchdogTypes
      <3>7. \A j \in 1..Len(records') :
               records'[j].iteration = history'[(Len(history') - Len(records')) + j]
        <4> SUFFICES ASSUME NEW j \in 1..Len(records')
                     PROVE  records'[j].iteration = history'[(Len(history') - Len(records')) + j]
          OBVIOUS
        <4>1. /\ Len(records) \in Nat /\ Len(history) \in Nat /\ Len(all) = Len(records) + 1
              /\ Len(history') = Len(history) + 1 /\ Len(records') \in 0..Len(all)
          BY <3>2, <3>3, WatchdogAssumption DEF Smaller, WatchdogTypes
        <4> HIDE DEF all
        <4>2. (Len(all) - Len(records')) + j \in 1..Len(all)
          BY <4>1
        <4>3. (Len(history') - Len(all)) + ((Len(all) - Len(records')) + j)
                  = (Len(history') - Len(records')) + j
          BY <4>1
        <4> QED BY <3>2, <3>5, <4>2, <4>3
      <3> QED BY <3>6, <3>7 DEF DumpIsLatest
    <2> QED BY <2>5, <2>6, <2>7, <2>8
  <1>2. CASE UNCHANGED watchdog_vars
    BY <1>2 DEF watchdog_vars, WatchdogInv, WatchdogTypes, StreaksAreExact, IsStreak, LastIsCurrent, DumpIsLatest
  <1> QED BY <1>1, <1>2 DEF WatchdogNext

(* A streak of at least n iterations is what the last n iterations say. *)
LEMMA StreakIsTrip ==
    ASSUME WatchdogInv
    PROVE  consecutive_zero_progress >= ZeroProgressLimit
               <=> /\ Len(history) >= ZeroProgressLimit
                   /\ \A j \in (Len(history) - ZeroProgressLimit) + 1 .. Len(history) :
                         Stalled(history[j])
  <1> DEFINE n == consecutive_zero_progress
             limit == ZeroProgressLimit
  <1>1. /\ n \in 0..Len(history)
        /\ \A j \in (Len(history) - n) + 1 .. Len(history) : Stalled(history[j])
        /\ n < Len(history) => ~Stalled(history[Len(history) - n])
    BY DEF WatchdogInv, StreaksAreExact, IsStreak
  <1>2. Len(history) \in Nat /\ limit \in Nat \ {0}
    BY WatchdogAssumption DEF WatchdogInv, WatchdogTypes
  <1> HIDE DEF n, limit
  <1>3. ASSUME n >= limit
        PROVE  /\ Len(history) >= limit
               /\ \A j \in (Len(history) - limit) + 1 .. Len(history) : Stalled(history[j])
    BY <1>1, <1>2, <1>3
  <1>4. ASSUME Len(history) >= limit, n < limit
        PROVE  ~\A j \in (Len(history) - limit) + 1 .. Len(history) : Stalled(history[j])
    <2>1. Len(history) - n \in (Len(history) - limit) + 1 .. Len(history) /\ n < Len(history)
      BY <1>1, <1>2, <1>4
    <2> QED BY <1>1, <2>1
  <1>5. n < limit \/ n >= limit
    BY <1>1, <1>2
  <1> QED BY <1>3, <1>4, <1>5 DEF n, limit

LEMMA InvariantMeansTrips == WatchdogInv => TripsOnStall
  BY StreakIsTrip DEF WatchdogInv, LastIsCurrent, TripsOnStall

-----------------------------------------------------------------------------
(* The watchdog's invariant, for every limit. *)
THEOREM WatchdogInvariant == WatchdogSpec => []WatchdogInv
  BY WatchdogStarts, WatchdogSteps, PTL DEF WatchdogSpec

(* Both counters are exactly the streaks that the iterations end in, the     *)
(* watchdog trips exactly on ZeroProgressLimit stalls in a row, and the      *)
(* diagnostics kept are the latest ones, in order.                           *)
THEOREM WatchdogIsExact == WatchdogSpec => []DiagnosisIsExact
  <1>1. WatchdogInv => StreaksAreExact /\ DumpIsLatest
    BY DEF WatchdogInv
  <1>2. WatchdogInv => DiagnosisIsExact
    BY <1>1, InvariantMeansTrips DEF DiagnosisIsExact
  <1> QED BY <1>2, WatchdogInvariant, PTL
=============================================================================
