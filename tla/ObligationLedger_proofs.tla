------------------------- MODULE ObligationLedger_proofs -------------------------
(***************************************************************************)
(* Theorems about the obligation ledger, for every set of requests and     *)
(* events, all SLOs and every bound of the clock.                          *)
(***************************************************************************)
EXTENDS ObligationLedger, FiniteSetTheorems, TLAPS

LEMMA DeadlineFacts ==
  /\ None \in Deadline
  /\ \A t \in Nat : t \in Deadline /\ t # None
  /\ \A d \in Deadline : d # None => d \in Nat
  BY LedgerAssumption DEF Deadline

LEMMA VerdictType == \A d : Verdict(d) \in {"success", "miss"}
  BY DEF Verdict

LEMMA RecordMissType ==
  ASSUME NEW q \in RequestLedger, NEW kind, NEW d \in Nat
  PROVE  /\ RecordMiss(q, kind, d) \in RequestLedger
         /\ RecordMiss(q, kind, d).ttft = q.ttft
         /\ RecordMiss(q, kind, d).tbt = q.tbt
         /\ RecordMiss(q, kind, d).tbt_sequence = q.tbt_sequence
         /\ RecordMiss(q, kind, d).goodput_eligible = FALSE
  BY DeadlineFacts DEF RecordMiss, RequestLedger

LEMMA SettledByTokenType ==
  ASSUME NEW q \in RequestLedger, NEW kind, NEW d \in Nat
  PROVE  /\ SettledByToken(q, kind, d) \in RequestLedger
         /\ SettledByToken(q, kind, d).ttft = q.ttft
         /\ SettledByToken(q, kind, d).tbt = q.tbt
         /\ SettledByToken(q, kind, d).tbt_sequence = q.tbt_sequence
         /\ SettledByToken(q, kind, d).goodput_eligible
              = (q.goodput_eligible /\ Verdict(d) # "miss")
  <1>1. CASE q.goodput_eligible /\ Verdict(d) = "miss"
    BY <1>1, RecordMissType DEF SettledByToken
  <1>2. CASE ~(q.goodput_eligible /\ Verdict(d) = "miss")
    BY <1>2 DEF SettledByToken, RequestLedger
  <1>. QED  BY <1>1, <1>2

(* What a returned token does to a request's record (observe_output): the   *)
(* TTFT obligation closes if open, else the TBT one; Goodput is lost iff    *)
(* the token was late for it.                                               *)
LEMMA AfterTokenType ==
  ASSUME NEW q \in RequestLedger
  PROVE  /\ AfterToken(q) \in RequestLedger
         /\ AfterToken(q).ttft = None
         /\ AfterToken(q).tbt = IF q.ttft # None THEN q.tbt ELSE None
         /\ AfterToken(q).tbt_sequence = q.tbt_sequence
         /\ AfterToken(q).goodput_eligible =
              (/\ q.goodput_eligible
               /\ q.ttft # None => Verdict(q.ttft) # "miss"
               /\ q.ttft = None /\ q.tbt # None => Verdict(q.tbt) # "miss")
  <1>. USE DeadlineFacts
  <1>1. CASE q.ttft # None
    <2>1. q.ttft \in Nat  BY <1>1 DEF RequestLedger
    <2>. DEFINE s == SettledByToken(q, "TTFT", q.ttft)
    <2>2. AfterToken(q) = [s EXCEPT !.ttft = None, !.first_token_returned = TRUE]
      BY <1>1 DEF AfterToken
    <2>3. /\ s \in RequestLedger
          /\ s.tbt = q.tbt
          /\ s.tbt_sequence = q.tbt_sequence
          /\ s.goodput_eligible = (q.goodput_eligible /\ Verdict(q.ttft) # "miss")
      BY <2>1, SettledByTokenType
    <2>. HIDE DEF s
    <2>. QED  BY <1>1, <2>2, <2>3 DEF RequestLedger
  <1>2. CASE q.ttft = None /\ q.tbt # None
    <2>1. q.tbt \in Nat  BY <1>2 DEF RequestLedger
    <2>. DEFINE s == SettledByToken(q, "TBT", q.tbt)
    <2>2. AfterToken(q) = [s EXCEPT !.tbt = None]
      BY <1>2 DEF AfterToken
    <2>3. /\ s \in RequestLedger
          /\ s.ttft = None
          /\ s.tbt_sequence = q.tbt_sequence
          /\ s.goodput_eligible = (q.goodput_eligible /\ Verdict(q.tbt) # "miss")
      BY <1>2, <2>1, SettledByTokenType
    <2>. HIDE DEF s
    <2>. QED  BY <1>2, <2>2, <2>3 DEF RequestLedger
  <1>3. CASE q.ttft = None /\ q.tbt = None
    BY <1>3 DEF AfterToken, RequestLedger
  <1>. QED  BY <1>1, <1>2, <1>3

LEMMA OpenNextTbtType ==
  ASSUME now \in Nat, NEW q \in RequestLedger
  PROVE  /\ OpenNextTbt(q) \in RequestLedger
         /\ OpenNextTbt(q).ttft = q.ttft
         /\ OpenNextTbt(q).tbt = now + TbtSlo
         /\ OpenNextTbt(q).tbt_sequence = q.tbt_sequence + 1
         /\ OpenNextTbt(q).goodput_eligible = q.goodput_eligible
  <1>1. now + TbtSlo \in Deadline  BY LedgerAssumption, DeadlineFacts
  <1>2. q.tbt_sequence + 1 \in Nat  BY DEF RequestLedger
  <1>. QED  BY <1>1, <1>2 DEF OpenNextTbt, RequestLedger

(* What expiry does to a request's record (expire_deadlines): due           *)
(* obligations close, the others stay, and any due one loses Goodput.       *)
LEMMA AfterExpiryType ==
  ASSUME NEW q \in RequestLedger
  PROVE  /\ AfterExpiry(q) \in RequestLedger
         /\ AfterExpiry(q).ttft = IF Passed(q.ttft) THEN None ELSE q.ttft
         /\ AfterExpiry(q).tbt = IF Passed(q.tbt) THEN None ELSE q.tbt
         /\ AfterExpiry(q).tbt_sequence = q.tbt_sequence
         /\ AfterExpiry(q).goodput_eligible =
              (q.goodput_eligible /\ ~Passed(q.ttft) /\ ~Passed(q.tbt))
  <1>. USE DeadlineFacts
  <1>. DEFINE a == AfterTtftExpiry(q)
  <1>1. /\ a \in RequestLedger
        /\ a.ttft = IF Passed(q.ttft) THEN None ELSE q.ttft
        /\ a.tbt = q.tbt
        /\ a.tbt_sequence = q.tbt_sequence
        /\ a.goodput_eligible = (q.goodput_eligible /\ ~Passed(q.ttft))
    <2>1. CASE Passed(q.ttft)
      <3>1. q.ttft \in Nat  BY <2>1 DEF Passed, RequestLedger
      <3>. DEFINE s == RecordMiss(q, "TTFT", q.ttft)
      <3>2. /\ s \in RequestLedger /\ s.tbt = q.tbt
            /\ s.tbt_sequence = q.tbt_sequence /\ s.goodput_eligible = FALSE
        BY <3>1, RecordMissType
      <3>3. a = [s EXCEPT !.ttft = None]  BY <2>1 DEF AfterTtftExpiry
      <3>. HIDE DEF s, a
      <3>. QED  BY <2>1, <3>2, <3>3 DEF RequestLedger
    <2>2. CASE ~Passed(q.ttft)
      BY <2>2 DEF AfterTtftExpiry, RequestLedger
    <2>. QED  BY <2>1, <2>2
  <1>2. CASE Passed(q.tbt)
    <2>1. q.tbt \in Nat  BY <1>2 DEF Passed, RequestLedger
    <2>. DEFINE s == RecordMiss(a, "TBT", q.tbt)
    <2>. HIDE DEF a
    <2>2. /\ s \in RequestLedger /\ s.ttft = a.ttft
          /\ s.tbt_sequence = a.tbt_sequence /\ s.goodput_eligible = FALSE
      BY <1>1, <2>1, RecordMissType
    <2>3. AfterExpiry(q) = [s EXCEPT !.tbt = None]
      BY <1>2 DEF AfterExpiry, a
    <2>. HIDE DEF s
    <2>. QED  BY <1>1, <1>2, <2>2, <2>3 DEF RequestLedger
  <1>3. CASE ~Passed(q.tbt)
    <2>1. AfterExpiry(q) = a  BY <1>3 DEF AfterExpiry
    <2>. HIDE DEF a
    <2>. QED  BY <1>1, <1>3, <2>1 DEF RequestLedger
  <1>. QED  BY <1>2, <1>3

-----------------------------------------------------------------------------
(* Types of the sets of outcomes the actions add. *)
LEMMA IdTypes ==
  ASSUME NEW r \in Requests, NEW q \in RequestLedger
  PROVE  /\ TtftIds(r, q) \subseteq ObligationIds
         /\ TbtIds(r, q) \subseteq ObligationIds
         /\ TokenSettles(r, q) \subseteq ObligationIds
         /\ TokenVerdicts(r, q) \subseteq Updates
  <1>1. TtftIds(r, q) \subseteq ObligationIds /\ TbtIds(r, q) \subseteq ObligationIds
    BY DEF TtftIds, TbtIds, TtftId, TbtId, ObligationIds, RequestLedger
  <1>2. TokenSettles(r, q) \subseteq ObligationIds
    BY <1>1 DEF TokenSettles
  <1>3. TokenVerdicts(r, q) \subseteq Updates
    BY <1>2, VerdictType DEF TokenVerdicts, Counted, Updates, Outcomes
  <1>. QED  BY <1>1, <1>2, <1>3

LEMMA ActiveIdsType == TypeOK => \A r \in Live : ActiveIds(r) \subseteq ObligationIds
  BY IdTypes DEF TypeOK, ActiveIds

LEMMA TypeInit == Init => TypeOK
  BY LedgerAssumption DEF Init, TypeOK, Live

LEMMA TypeNext == TypeOK /\ [Next]_vars => TypeOK'
  <1>. SUFFICES ASSUME TypeOK, [Next]_vars PROVE TypeOK'
    OBVIOUS
  <1>. USE LedgerAssumption DEF Live
  <1>1. CASE Tick
    BY <1>1 DEF Tick, TypeOK
  <1>2. ASSUME NEW r \in Requests, NEW arrival_time \in 0..now,
               RegisterRequest(r, arrival_time)
        PROVE  TypeOK'
    <2>. DEFINE new == [ttft |-> arrival_time + TtftSlo, tbt |-> None, tbt_sequence |-> 0,
                        first_token_returned |-> FALSE,
                        recovery_first_miss_time |-> None, goodput_eligible |-> TRUE]
    <2>1. arrival_time + TtftSlo \in Deadline  BY DeadlineFacts DEF TypeOK
    <2>2. new \in RequestLedger  BY <2>1, DeadlineFacts DEF RequestLedger
    <2>3. requests' = [x \in Live \cup {r} |-> IF x = r THEN new ELSE requests[x]]
      BY <1>2 DEF RegisterRequest
    <2>. HIDE DEF new
    <2>. QED  BY <1>2, <2>2, <2>3 DEF RegisterRequest, TypeOK
  <1>3. ASSUME NEW e \in Events, NEW r \in Requests, ReturnToken(e, r)
        PROVE  TypeOK'
    <2>. DEFINE q == requests[r]
                next == OpenNextTbt(AfterToken(q))
    <2>1. r \in Live /\ q \in RequestLedger  BY <1>3 DEF ReturnToken, TypeOK
    <2>2. next \in RequestLedger
      <3>1. now \in Nat  BY DEF TypeOK
      <3>2. AfterToken(q) \in RequestLedger  BY <2>1, AfterTokenType
      <3>. QED  BY <3>1, <3>2, OpenNextTbtType
    <2>3. /\ TokenSettles(r, q) \subseteq ObligationIds
          /\ TokenVerdicts(r, q) \subseteq Updates
      BY <2>1, IdTypes
    <2>4. \/ UNCHANGED <<requests, settled, updates>>
          \/ /\ requests' = [requests EXCEPT ![r] = next]
             /\ settled' = settled \cup TokenSettles(r, q)
             /\ updates' = updates \cup TokenVerdicts(r, q)
      BY <1>3 DEF ReturnToken
    <2>5. /\ fault' \in {"none", "duplicate", "orphan"}
          /\ seen_event_ids' \subseteq Events
          /\ UNCHANGED <<now, terminal_counts>>
      BY <1>3 DEF ReturnToken, TypeOK
    <2>. HIDE DEF q, next
    <2>. QED  BY <2>1, <2>2, <2>3, <2>4, <2>5 DEF TypeOK
  <1>4. ASSUME NEW e \in Events, NEW r \in Requests, NEW n \in {0, 1},
               NEW reason \in Reasons, Terminate(e, r, n, reason)
        PROVE  TypeOK'
    <2>. DEFINE q == requests[r]
    <2>1. r \in Live /\ q \in RequestLedger  BY <1>4 DEF Terminate, TypeOK
    <2>2. /\ TokenVerdicts(r, q) \subseteq Updates
          /\ ActiveIds(r) \subseteq ObligationIds
      BY <2>1, IdTypes, ActiveIdsType
    <2>3. \A S \in SUBSET ActiveIds(r) : {Counted(o, "cancelled") : o \in S} \subseteq Updates
      BY <2>2 DEF Counted, Updates, Outcomes
    <2>4. \/ UNCHANGED <<requests, settled, updates, terminal_counts>>
          \/ /\ requests' = [x \in Live \ {r} |-> requests[x]]
             /\ settled' = settled \cup ActiveIds(r)
             /\ updates' \subseteq Updates
             /\ terminal_counts' = [terminal_counts EXCEPT ![reason] = @ + 1]
      BY <1>4, <2>2, <2>3 DEF Terminate, TypeOK
    <2>5. /\ fault' \in {"none", "duplicate", "orphan"}
          /\ seen_event_ids' \subseteq Events
          /\ UNCHANGED now
      BY <1>4 DEF Terminate, TypeOK
    <2>. HIDE DEF q
    <2>. QED  BY <2>1, <2>2, <2>4, <2>5 DEF TypeOK
  <1>5. CASE ExpireDeadlines
    <2>1. \A r \in Live : DueIds(r) \subseteq ObligationIds
      BY ActiveIdsType DEF DueIds
    <2>2. \A r \in Live : ExpiryMisses(r) \subseteq Updates
      BY <2>1 DEF ExpiryMisses, Counted, Updates, Outcomes
    <2>3. \A visited \in SUBSET Live : Expire(visited) =>
              /\ requests' \in [Live -> RequestLedger]
              /\ settled' \subseteq ObligationIds
      BY <2>1, AfterExpiryType DEF Expire, TypeOK
    <2>4. /\ requests' \in [Live -> RequestLedger]
          /\ settled' \subseteq ObligationIds
      BY <1>5, <2>3 DEF ExpireDeadlines
    <2>5. /\ updates' \subseteq Updates
          /\ fault' \in {"none", "duplicate", "orphan"}
          /\ UNCHANGED <<now, seen_event_ids, terminal_counts>>
      BY <1>5, <2>2 DEF ExpireDeadlines, TypeOK
    <2>. QED  BY <2>4, <2>5 DEF TypeOK
  <1>6. CASE UNCHANGED vars
    BY <1>6 DEF vars, TypeOK
  <1>. QED  BY <1>1, <1>2, <1>3, <1>4, <1>5, <1>6 DEF Next, Register, Token, EndOfRequest

(* The ledger's state keeps its types (ObligationLedger, _RequestLedger),     *)
(* also when ids are reused.                                                 *)
THEOREM TypeCorrect == Spec => []TypeOK
  BY TypeInit, TypeNext, PTL DEF Spec

-----------------------------------------------------------------------------
(* The parts of an obligation's id. *)
LEMMA IdFacts ==
  /\ \A r : TtftId(r)[1] = r /\ TtftId(r)[2] = "TTFT"
  /\ \A r, n : TbtId(r, n)[1] = r /\ TbtId(r, n)[2] = "TBT" /\ TbtId(r, n)[3] = n
  BY DEF TtftId, TbtId

(* With one obligation open at most, a token settles all that is open, and  *)
(* what is open is named by the request.                                    *)
LEMMA OpenIds ==
  ASSUME NEW r, NEW q, q.ttft = None \/ q.tbt = None
  PROVE  /\ TokenSettles(r, q) = TtftIds(r, q) \cup TbtIds(r, q)
         /\ \A o \in TokenSettles(r, q) :
               /\ o[1] = r
               /\ \/ o = TtftId(r) /\ q.ttft # None
                  \/ o = TbtId(r, q.tbt_sequence) /\ q.tbt # None /\ q.ttft = None
         /\ \A o, p \in TokenSettles(r, q) : o = p
  BY IdFacts DEF TokenSettles, TtftIds, TbtIds

(* The outcome a token counts: the verdict on the obligation it settles.    *)
LEMMA TokenOutcome ==
  ASSUME NEW r, NEW q \in RequestLedger, q.ttft = None \/ q.tbt = None
  PROVE  /\ \A u \in TokenVerdicts(r, q) :
               /\ q.goodput_eligible
               /\ u.obligation \in TokenSettles(r, q)
         /\ \A u, w \in TokenVerdicts(r, q) : u = w
         /\ AfterToken(q).goodput_eligible <=>
               (q.goodput_eligible /\ \A u \in TokenVerdicts(r, q) : u.outcome # "miss")
  <1>. DEFINE d == IF q.ttft # None THEN q.ttft ELSE q.tbt
  <1>1. \A u : u \in TokenVerdicts(r, q) <=>
              /\ q.goodput_eligible
              /\ \E o \in TokenSettles(r, q) : u = Counted(o, Verdict(d))
    BY DEF TokenVerdicts, RequestLedger
  <1>2. \A o : Counted(o, Verdict(d)).obligation = o /\ Counted(o, Verdict(d)).outcome = Verdict(d)
    BY DEF Counted
  <1>3. TokenSettles(r, q) # {} <=> q.ttft # None \/ q.tbt # None
    BY DEF TokenSettles, TtftIds, TbtIds
  <1>4. AfterToken(q).goodput_eligible =
              (/\ q.goodput_eligible
               /\ q.ttft # None => Verdict(q.ttft) # "miss"
               /\ q.ttft = None /\ q.tbt # None => Verdict(q.tbt) # "miss")
    BY AfterTokenType
  <1>5. \A o, p \in TokenSettles(r, q) : o = p
    BY OpenIds
  <1>6. AfterToken(q).goodput_eligible <=>
            (q.goodput_eligible /\ (TokenSettles(r, q) # {} => Verdict(d) # "miss"))
    BY <1>3, <1>4
  <1>. HIDE DEF d
  <1>. QED  BY <1>1, <1>2, <1>5, <1>6

LEMMA InvInit == Init => LedgerInv
  <1>. SUFFICES ASSUME Init PROVE LedgerInv
    OBVIOUS
  <1>1. TypeOK  BY TypeInit
  <1>. QED
    BY <1>1 DEF Init, LedgerInv, NeverRaises, SettledOnce, SettledInOrder,
                GoodputIsFirstMiss, MissesOf, Live

LEMMA InvRegister ==
  ASSUME ReuseIds = FALSE, LedgerInv, TypeOK',
         NEW r \in Requests, NEW arrival_time \in 0..now, RegisterRequest(r, arrival_time)
  PROVE  LedgerInv'
  <1>. DEFINE q == requests'[r]
  <1>1. /\ r \notin Live /\ TtftId(r) \notin settled
        /\ Live' = Live \cup {r}
        /\ \A x \in Live : requests'[x] = requests[x]
        /\ UNCHANGED <<settled, updates, fault>>
    BY DEF RegisterRequest, Live
  <1>2. /\ q.ttft # None /\ q.tbt = None
        /\ q.tbt_sequence = 0 /\ q.goodput_eligible = TRUE
    <2>1. arrival_time + TtftSlo \in Nat
      BY LedgerAssumption DEF LedgerInv, TypeOK
    <2>. QED  BY <2>1, DeadlineFacts DEF RegisterRequest
  <1>3. \A o \in settled : o[1] # r
    BY <1>1 DEF LedgerInv, SettledInOrder
  <1>4. ActiveIds(r)' = {TtftId(r)} /\ \A x \in Live : ActiveIds(x)' = ActiveIds(x)
    BY <1>1, <1>2 DEF ActiveIds, TtftIds, TbtIds
  <1>5. \A u \in updates : u.obligation[1] # r
    BY <1>3 DEF LedgerInv, SettledOnce
  <1>. HIDE DEF q
  <1>6. SettledOnce'
    BY <1>1, <1>2, <1>4 DEF LedgerInv, SettledOnce, q
  <1>7. SettledInOrder'
    BY <1>1, <1>2, <1>3 DEF LedgerInv, SettledInOrder, q
  <1>8. GoodputIsFirstMiss'
    BY <1>1, <1>2, <1>5 DEF LedgerInv, GoodputIsFirstMiss, MissesOf, q
  <1>. QED  BY <1>1, <1>6, <1>7, <1>8 DEF LedgerInv, NeverRaises

(* The obligations of one request stay where they are when another moves.   *)
LEMMA OthersKeep ==
  ASSUME NEW r, \A x \in Live' \ {r} : x \in Live /\ requests'[x] = requests[x]
  PROVE  \A x \in Live' \ {r} : ActiveIds(x)' = ActiveIds(x)
  BY DEF ActiveIds

LEMMA OpenIdsInv ==
  ASSUME LedgerInv, NEW r \in Live
  PROVE  /\ requests[r] \in RequestLedger
         /\ requests[r].ttft = None \/ requests[r].tbt = None
         /\ ActiveIds(r) = TokenSettles(r, requests[r])
         /\ \A o \in ActiveIds(r) : o[1] = r /\ o \notin settled
         /\ ~Orphaned(r, requests[r])
  <1>1. requests[r] \in RequestLedger  BY DEF LedgerInv, TypeOK
  <1>2. requests[r].ttft = None \/ requests[r].tbt = None
    BY DEF LedgerInv, SettledOnce
  <1>. QED
    BY <1>1, <1>2, OpenIds DEF LedgerInv, SettledOnce, SettledInOrder, ActiveIds, Orphaned

LEMMA InvReturnToken ==
  ASSUME LedgerInv, TypeOK', NEW e \in Events, NEW r \in Requests, ReturnToken(e, r)
  PROVE  LedgerInv'
  <1>. DEFINE q == requests[r]
              t == AfterToken(q)
  <1>1. /\ r \in Live /\ q \in RequestLedger
        /\ q.ttft = None \/ q.tbt = None
        /\ ActiveIds(r) = TokenSettles(r, q)
        /\ \A o \in TokenSettles(r, q) : o[1] = r /\ o \notin settled
        /\ ~Orphaned(r, q)
    BY OpenIdsInv DEF ReturnToken
  <1>2. TokenSettles(r, q) \cap settled = {}
    BY <1>1
  <1>3. /\ requests' = [requests EXCEPT ![r] = OpenNextTbt(t)]
        /\ settled' = settled \cup TokenSettles(r, q)
        /\ updates' = updates \cup TokenVerdicts(r, q)
        /\ UNCHANGED fault
    BY <1>1, <1>2 DEF ReturnToken
  <1>4. /\ t \in RequestLedger /\ t.ttft = None /\ t.tbt_sequence = q.tbt_sequence
        /\ t.goodput_eligible <=>
             (q.goodput_eligible /\ \A u \in TokenVerdicts(r, q) : u.outcome # "miss")
    BY <1>1, AfterTokenType, TokenOutcome
  <1>5. /\ requests'[r].ttft = None /\ requests'[r].tbt = now + TbtSlo
        /\ requests'[r].tbt_sequence = q.tbt_sequence + 1
        /\ requests'[r].goodput_eligible = t.goodput_eligible
        /\ requests'[r].tbt # None
    <2>1. now \in Nat /\ now + TbtSlo \in Nat  BY LedgerAssumption DEF LedgerInv, TypeOK
    <2>2. requests'[r] = OpenNextTbt(t)  BY <1>1, <1>3 DEF LedgerInv, TypeOK, Live
    <2>. HIDE DEF t
    <2>. QED  BY <1>4, <2>1, <2>2, OpenNextTbtType, DeadlineFacts
  <1>6. Live' = Live /\ \A x \in Live \ {r} : requests'[x] = requests[x]
    BY <1>3 DEF LedgerInv, TypeOK, Live
  <1>7. \A x \in Live \ {r} : ActiveIds(x)' = ActiveIds(x)
    BY <1>6, OthersKeep
  <1>8. ActiveIds(r)' = {TbtId(r, q.tbt_sequence + 1)}
    BY <1>5 DEF ActiveIds, TtftIds, TbtIds
  <1>9. \A o \in settled' : o \in settled \/ (o \in TokenSettles(r, q) /\ o[1] = r)
    BY <1>1, <1>3
  <1>10. \A o \in TokenSettles(r, q) :
            \/ o = TtftId(r) /\ q.ttft # None
            \/ o = TbtId(r, q.tbt_sequence) /\ q.tbt # None /\ q.ttft = None
    BY <1>1, OpenIds
  <1>11. TtftId(r) \in settled'
    <2>1. CASE q.ttft = None
      BY <1>1, <1>3, <2>1 DEF LedgerInv, SettledInOrder
    <2>2. CASE q.ttft # None
      BY <1>3, <2>2 DEF TokenSettles, TtftIds
    <2>. QED  BY <2>1, <2>2
  <1>12. \A o \in settled' : o[1] = r /\ o[2] = "TBT" => o[3] \in Int /\ o[3] < q.tbt_sequence + 1
    <2>. SUFFICES ASSUME NEW o \in settled', o[1] = r, o[2] = "TBT"
                  PROVE  o[3] \in Int /\ o[3] < q.tbt_sequence + 1
      OBVIOUS
    <2>1. q.tbt_sequence \in Nat  BY <1>1 DEF RequestLedger
    <2>2. CASE o \in settled
      <3>1. o[3] \in Nat  BY <2>2 DEF LedgerInv, TypeOK, ObligationIds
      <3>2. o[3] <= q.tbt_sequence
        BY <1>1, <2>1, <2>2, <3>1 DEF LedgerInv, SettledInOrder
      <3>. QED  BY <2>1, <3>1, <3>2
    <2>3. CASE o \in TokenSettles(r, q)
      BY <1>10, <2>1, <2>3, IdFacts
    <2>. QED  BY <1>9, <2>2, <2>3
  <1>13. TbtId(r, q.tbt_sequence + 1) \notin settled'
    <2>1. q.tbt_sequence \in Nat  BY <1>1 DEF RequestLedger
    <2>. QED  BY <1>12, <2>1, IdFacts
  <1>. HIDE DEF q, t
  <1>14. SettledOnce'
    <2>1. \A x \in Live' : ActiveIds(x)' \cap settled' = {}
      <3>1. \A x \in Live \ {r} : \A o \in ActiveIds(x) : o[1] = x /\ o \notin settled
        BY OpenIdsInv
      <3>. QED  BY <1>6, <1>7, <1>8, <1>9, <1>13, <3>1
    <2>2. \A x \in Live' : requests'[x].ttft = None \/ requests'[x].tbt = None
      BY <1>5, <1>6 DEF LedgerInv, SettledOnce
    <2>3. \A u \in TokenVerdicts(r, q) : u.obligation \in TokenSettles(r, q)
      BY <1>1, TokenOutcome
    <2>4. \A u \in updates' : u.obligation \in settled'
      BY <1>3, <2>3 DEF LedgerInv, SettledOnce
    <2>5. \A u, w \in updates' : u.obligation = w.obligation => u = w
      <3>1. \A u, w \in TokenVerdicts(r, q) : u = w  BY <1>1, TokenOutcome
      <3>2. \A u \in updates : u.obligation \in settled  BY DEF LedgerInv, SettledOnce
      <3>3. \A u, w \in updates : u.obligation = w.obligation => u = w
        BY DEF LedgerInv, SettledOnce
      <3>. QED  BY <1>2, <1>3, <2>3, <3>1, <3>2, <3>3
    <2>. QED  BY <2>1, <2>2, <2>4, <2>5 DEF SettledOnce
  <1>15. SettledInOrder'
    <2>1. \A x \in Live' : requests'[x].ttft = None <=> TtftId(x) \in settled'
      <3>1. \A x \in Live \ {r} : TtftId(x) \in settled' <=> TtftId(x) \in settled
        BY <1>3, <1>9, IdFacts
      <3>. QED  BY <1>5, <1>6, <1>11, <3>1 DEF LedgerInv, SettledInOrder
    <2>2. \A o \in settled' : TtftId(o[1]) \in settled'
      BY <1>3, <1>9, <1>11 DEF LedgerInv, SettledInOrder
    <2>3. \A x \in Live' : \A o \in settled' :
             o[1] = x /\ o[2] = "TBT" =>
                 IF requests'[x].tbt = None
                 THEN o[3] <= requests'[x].tbt_sequence
                 ELSE o[3] < requests'[x].tbt_sequence
      <3>1. \A x \in Live \ {r} : \A o \in settled' : o[1] = x => o \in settled
        BY <1>9
      <3>. QED  BY <1>5, <1>6, <1>12, <3>1 DEF LedgerInv, SettledInOrder
    <2>. QED  BY <2>1, <2>2, <2>3 DEF SettledInOrder
  <1>16. GoodputIsFirstMiss'
    <2>1. \A u \in TokenVerdicts(r, q) : q.goodput_eligible /\ u.obligation[1] = r
      BY <1>1, TokenOutcome
    <2>2. \A x \in Requests \ {r} : MissesOf(x)' = MissesOf(x)
      BY <1>3, <2>1 DEF MissesOf
    <2>3. \A x \in Live \ {r} : requests'[x].goodput_eligible <=> MissesOf(x)' = {}
      BY <1>6, <2>2 DEF LedgerInv, TypeOK, GoodputIsFirstMiss
    <2>4. q.goodput_eligible <=> MissesOf(r) = {}
      BY <1>1 DEF LedgerInv, GoodputIsFirstMiss, q
    <2>5. MissesOf(r)' = MissesOf(r) \cup {u \in TokenVerdicts(r, q) : u.outcome = "miss"}
      BY <1>3, <2>1 DEF MissesOf
    <2>6. requests'[r].goodput_eligible <=> MissesOf(r)' = {}
      BY <1>4, <1>5, <2>4, <2>5
    <2>7. \A u, w \in MissesOf(r)' : u = w
      <3>1. \A u, w \in TokenVerdicts(r, q) : u = w  BY <1>1, TokenOutcome
      <3>2. \A u, w \in MissesOf(r) : u = w  BY DEF LedgerInv, GoodputIsFirstMiss
      <3>. QED  BY <2>1, <2>4, <2>5, <3>1, <3>2
    <2>. QED
      BY <1>6, <2>2, <2>3, <2>6, <2>7 DEF LedgerInv, GoodputIsFirstMiss
  <1>. QED  BY <1>3, <1>14, <1>15, <1>16 DEF LedgerInv, NeverRaises

LEMMA InvTerminate ==
  ASSUME LedgerInv, TypeOK', NEW e \in Events, NEW r \in Requests, NEW n \in {0, 1},
         NEW reason \in Reasons, Terminate(e, r, n, reason)
  PROVE  LedgerInv'
  <1>. DEFINE q == requests[r]
              cancelled == ActiveIds(r) \ (IF n = 1 THEN TokenSettles(r, q) ELSE {})
              verdicts == IF n = 1 THEN TokenVerdicts(r, q) ELSE {}
              counted == {Counted(o, "cancelled") : o \in cancelled} \cup verdicts
  <1>1. /\ r \in Live /\ q \in RequestLedger
        /\ q.ttft = None \/ q.tbt = None
        /\ ActiveIds(r) = TokenSettles(r, q)
        /\ \A o \in ActiveIds(r) : o[1] = r /\ o \notin settled
        /\ ~Orphaned(r, q)
    BY OpenIdsInv DEF Terminate
  <1>2. ActiveIds(r) \cap settled = {}
    BY <1>1
  <1>3. /\ requests' = [x \in Live \ {r} |-> requests[x]]
        /\ settled' = settled \cup ActiveIds(r)
        /\ updates' = updates \cup counted
        /\ UNCHANGED fault
    BY <1>1, <1>2 DEF Terminate
  <1>4. /\ Live' = Live \ {r}
        /\ \A x \in Live' : requests'[x] = requests[x] /\ ActiveIds(x)' = ActiveIds(x)
    BY <1>3, OthersKeep DEF Live
  <1>5. \A o \in settled' : o \in settled \/ o[1] = r
    BY <1>1, <1>3
  <1>6. /\ \A u \in counted : u.obligation \in ActiveIds(r)
        /\ \A u \in counted : u.outcome = "miss" => q.goodput_eligible
        /\ \A u, w \in counted : u = w
    <2>1. \A o : Counted(o, "cancelled").obligation = o /\ Counted(o, "cancelled").outcome = "cancelled"
      BY DEF Counted
    <2>2. \A u \in verdicts : q.goodput_eligible /\ u.obligation \in TokenSettles(r, q)
      BY <1>1, TokenOutcome
    <2>3. \A u, w \in verdicts : u = w
      BY <1>1, TokenOutcome
    <2>4. \A o, p \in ActiveIds(r) : o = p
      BY <1>1, OpenIds
    <2>5. verdicts = {} \/ cancelled = {}
      BY <1>1
    <2>6. \A u \in counted : u \in verdicts \/ \E o \in cancelled : u = Counted(o, "cancelled")
      OBVIOUS
    <2>7. \A o \in cancelled : o \in ActiveIds(r)
      OBVIOUS
    <2>. HIDE DEF verdicts, cancelled, counted
    <2>. QED  BY <1>1, <2>1, <2>2, <2>3, <2>4, <2>5, <2>6, <2>7
  <1>. HIDE DEF q, cancelled, verdicts, counted
  <1>7. SettledOnce'
    <2>1. \A x \in Live' : ActiveIds(x)' \cap settled' = {}
      <3>1. \A x \in Live' : \A o \in ActiveIds(x) : o[1] = x /\ o \notin settled
        BY <1>4, OpenIdsInv
      <3>. QED  BY <1>4, <1>5, <3>1
    <2>2. \A x \in Live' : requests'[x].ttft = None \/ requests'[x].tbt = None
      BY <1>4 DEF LedgerInv, SettledOnce
    <2>3. \A u \in updates' : u.obligation \in settled'
      BY <1>3, <1>6 DEF LedgerInv, SettledOnce
    <2>4. \A u, w \in updates' : u.obligation = w.obligation => u = w
      <3>1. \A u \in updates : u.obligation \in settled  BY DEF LedgerInv, SettledOnce
      <3>2. \A u, w \in updates : u.obligation = w.obligation => u = w
        BY DEF LedgerInv, SettledOnce
      <3>. QED  BY <1>2, <1>3, <1>6, <3>1, <3>2
    <2>. QED  BY <2>1, <2>2, <2>3, <2>4 DEF SettledOnce
  <1>8. SettledInOrder'
    <2>1. TtftId(r) \in settled'
      <3>1. CASE q.ttft = None
        BY <1>1, <1>3, <3>1 DEF LedgerInv, SettledInOrder, q
      <3>2. CASE q.ttft # None
        BY <1>3, <3>2 DEF ActiveIds, TtftIds, q
      <3>. QED  BY <3>1, <3>2
    <2>2. \A x \in Live' : TtftId(x) \in settled' <=> TtftId(x) \in settled
      BY <1>3, <1>4, <1>5, IdFacts
    <2>3. \A x \in Live' : \A o \in settled' : o[1] = x => o \in settled
      BY <1>4, <1>5
    <2>4. \A o \in settled' : TtftId(o[1]) \in settled'
      BY <1>3, <1>5, <2>1 DEF LedgerInv, SettledInOrder
    <2>. QED  BY <1>4, <2>2, <2>3, <2>4 DEF LedgerInv, SettledInOrder
  <1>9. GoodputIsFirstMiss'
    <2>1. \A u \in counted : u.obligation[1] = r
      BY <1>1, <1>6
    <2>2. \A x \in Requests \ {r} : MissesOf(x)' = MissesOf(x)
      BY <1>3, <2>1 DEF MissesOf
    <2>3. \A u, w \in MissesOf(r)' : u = w
      <3>1. MissesOf(r)' = MissesOf(r) \cup {u \in counted : u.outcome = "miss"}
        BY <1>3, <2>1 DEF MissesOf
      <3>2. q.goodput_eligible => MissesOf(r) = {}
        BY <1>1 DEF LedgerInv, GoodputIsFirstMiss, q
      <3>3. \A u, w \in MissesOf(r) : u = w  BY DEF LedgerInv, GoodputIsFirstMiss
      <3>. QED  BY <1>6, <3>1, <3>2, <3>3
    <2>. QED  BY <1>4, <2>2, <2>3 DEF LedgerInv, TypeOK, GoodputIsFirstMiss
  <1>. QED  BY <1>3, <1>7, <1>8, <1>9 DEF LedgerInv, NeverRaises

LEMMA InvExpire ==
  ASSUME LedgerInv, TypeOK', ExpireDeadlines
  PROVE  LedgerInv'
  <1>1. \A r \in Live : DueIds(r) \subseteq ActiveIds(r)
    BY DEF DueIds
  <1>2. \A r \in Live : DueIds(r) \cap settled = {}
    BY <1>1 DEF LedgerInv, SettledOnce
  <1>3. /\ settled' = settled \cup UNION {DueIds(r) : r \in Live}
        /\ requests' = [r \in Live |-> AfterExpiry(requests[r])]
        /\ updates' = updates \cup UNION {ExpiryMisses(r) : r \in Live}
        /\ UNCHANGED fault
    BY <1>2 DEF ExpireDeadlines, Expire
  <1>4. \A r \in Live :
          /\ requests[r] \in RequestLedger
          /\ requests[r].ttft = None \/ requests[r].tbt = None
          /\ \A o \in ActiveIds(r) : o[1] = r /\ o \notin settled
    BY OpenIdsInv
  <1>5. Live' = Live
    BY <1>3 DEF Live
  <1>6. \A r \in Live :
          /\ requests'[r].ttft = IF Passed(requests[r].ttft) THEN None ELSE requests[r].ttft
          /\ requests'[r].tbt = IF Passed(requests[r].tbt) THEN None ELSE requests[r].tbt
          /\ requests'[r].tbt_sequence = requests[r].tbt_sequence
          /\ requests'[r].goodput_eligible =
               (/\ requests[r].goodput_eligible
                /\ ~Passed(requests[r].ttft) /\ ~Passed(requests[r].tbt))
    BY <1>3, <1>4, AfterExpiryType
  <1>7. \A r \in Live :
          DueIds(r) = (IF Passed(requests[r].ttft) THEN {TtftId(r)} ELSE {})
                 \cup (IF Passed(requests[r].tbt) THEN TbtIds(r, requests[r]) ELSE {})
    <2>. SUFFICES ASSUME NEW r \in Live
                  PROVE  DueIds(r) = (IF Passed(requests[r].ttft) THEN {TtftId(r)} ELSE {})
                               \cup (IF Passed(requests[r].tbt) THEN TbtIds(r, requests[r]) ELSE {})
      OBVIOUS
    <2>1. \A o \in TbtIds(r, requests[r]) : o # TtftId(r)
      BY IdFacts DEF TbtIds
    <2>2. Passed(requests[r].ttft) => requests[r].ttft # None
      BY DEF Passed
    <2>. QED  BY <2>1, <2>2 DEF DueIds, ActiveIds, TtftIds
  <1>8. \A r \in Live : ActiveIds(r)' = ActiveIds(r) \ DueIds(r)
    <2>. SUFFICES ASSUME NEW r \in Live PROVE ActiveIds(r)' = ActiveIds(r) \ DueIds(r)
      OBVIOUS
    <2>1. \A o \in TbtIds(r, requests[r]) : o # TtftId(r)
      BY IdFacts DEF TbtIds
    <2>2. TtftIds(r, requests[r])' = IF Passed(requests[r].ttft) THEN {} ELSE TtftIds(r, requests[r])
      BY <1>6 DEF TtftIds
    <2>3. TbtIds(r, requests[r])' = IF Passed(requests[r].tbt) THEN {} ELSE TbtIds(r, requests[r])
      BY <1>6 DEF TbtIds
    <2>4. TtftIds(r, requests[r]) \subseteq {TtftId(r)}
      BY DEF TtftIds
    <2>. QED  BY <1>7, <2>1, <2>2, <2>3, <2>4 DEF ActiveIds
  <1>9. \A r \in Live : \A o \in settled' : o[1] = r => o \in settled \/ o \in DueIds(r)
    BY <1>1, <1>3, <1>4
  <1>10. \A r \in Live : DueIds(r) \subseteq settled'
    BY <1>3
  <1>11. \A r \in Live : \A o, p \in ActiveIds(r) : o = p
    BY <1>4, OpenIdsInv, OpenIds
  <1>12. SettledOnce'
    <2>1. \A r \in Live' : ActiveIds(r)' \cap settled' = {}
      BY <1>4, <1>5, <1>8, <1>9
    <2>2. \A r \in Live' : requests'[r].ttft = None \/ requests'[r].tbt = None
      BY <1>4, <1>5, <1>6
    <2>3. \A r \in Live : \A u \in ExpiryMisses(r) : u.obligation \in DueIds(r)
      BY DEF ExpiryMisses, Counted
    <2>4. \A u \in updates' : u.obligation \in settled'
      BY <1>3, <1>10, <2>3 DEF LedgerInv, SettledOnce
    <2>5. \A u, w \in updates' : u.obligation = w.obligation => u = w
      <3>1. \A u \in updates : u.obligation \in settled  BY DEF LedgerInv, SettledOnce
      <3>2. \A u, w \in updates : u.obligation = w.obligation => u = w
        BY DEF LedgerInv, SettledOnce
      <3>3. \A r \in Live : \A u \in ExpiryMisses(r) : u = Counted(u.obligation, "miss")
        BY DEF ExpiryMisses, Counted
      <3>4. \A u \in updates' : u \in updates \/ \E r \in Live : u \in ExpiryMisses(r)
        BY <1>3
      <3>. QED  BY <1>2, <2>3, <3>1, <3>2, <3>3, <3>4
    <2>. QED  BY <2>1, <2>2, <2>4, <2>5 DEF SettledOnce
  <1>13. SettledInOrder'
    <2>1. \A r \in Live' : requests'[r].ttft = None <=> TtftId(r) \in settled'
      <3>. SUFFICES ASSUME NEW r \in Live
                    PROVE  requests'[r].ttft = None <=> TtftId(r) \in settled'
        BY <1>5
      <3>1. TtftId(r) \in settled' <=> TtftId(r) \in settled \/ TtftId(r) \in DueIds(r)
        BY <1>3, <1>9, <1>10, IdFacts
      <3>2. TtftId(r) \in DueIds(r) <=> Passed(requests[r].ttft)
        BY <1>7, IdFacts DEF TbtIds
      <3>3. Passed(requests[r].ttft) => requests[r].ttft # None
        BY DEF Passed
      <3>. QED  BY <1>6, <3>1, <3>2, <3>3 DEF LedgerInv, SettledInOrder
    <2>2. \A r \in Live : TbtIds(r, requests[r]) # {} => TtftId(r) \in settled
      BY <1>4 DEF LedgerInv, SettledInOrder, TbtIds
    <2>3. \A o \in settled' : TtftId(o[1]) \in settled'
      <3>1. \A r \in Live : DueIds(r) # {} => TtftId(r) \in settled'
        BY <1>3, <1>7, <1>10, <2>2
      <3>2. \A o \in settled' : o \in settled \/ \E r \in Live : o \in DueIds(r) /\ o[1] = r
        BY <1>1, <1>3, <1>4
      <3>. QED  BY <1>3, <3>1, <3>2 DEF LedgerInv, SettledInOrder
    <2>4. \A r \in Live' : \A o \in settled' :
             o[1] = r /\ o[2] = "TBT" =>
                 IF requests'[r].tbt = None
                 THEN o[3] <= requests'[r].tbt_sequence
                 ELSE o[3] < requests'[r].tbt_sequence
      <3>. SUFFICES ASSUME NEW r \in Live, NEW o \in settled', o[1] = r, o[2] = "TBT"
                    PROVE  IF requests'[r].tbt = None
                           THEN o[3] <= requests[r].tbt_sequence
                           ELSE o[3] < requests[r].tbt_sequence
        BY <1>5, <1>6
      <3>1. /\ requests[r].tbt_sequence \in Nat
            /\ requests'[r].tbt = IF Passed(requests[r].tbt) THEN None ELSE requests[r].tbt
        BY <1>4, <1>6 DEF RequestLedger
      <3>2. CASE o \in settled
        <4>1. o[3] \in Nat  BY <3>2 DEF LedgerInv, TypeOK, ObligationIds
        <4>2. IF requests[r].tbt = None
              THEN o[3] <= requests[r].tbt_sequence
              ELSE o[3] < requests[r].tbt_sequence
          BY <3>2 DEF LedgerInv, SettledInOrder
        <4>3. requests[r].tbt = None => requests'[r].tbt = None
          BY <3>1
        <4>. QED  BY <3>1, <4>1, <4>2, <4>3
      <3>3. CASE o \in DueIds(r)
        <4>1. /\ Passed(requests[r].tbt)
              /\ o = TbtId(r, requests[r].tbt_sequence)
          BY <1>7, <3>3, IdFacts DEF TbtIds
        <4>2. o[3] = requests[r].tbt_sequence /\ requests'[r].tbt = None
          BY <3>1, <4>1, IdFacts
        <4>. QED  BY <3>1, <4>2
      <3>. QED  BY <1>9, <3>2, <3>3
    <2>. QED  BY <2>1, <2>3, <2>4 DEF SettledInOrder
  <1>14. GoodputIsFirstMiss'
    <2>1. \A r \in Live : \A u \in ExpiryMisses(r) :
             u.obligation[1] = r /\ u.outcome = "miss" /\ u.obligation \in DueIds(r)
      BY <1>1, <1>4 DEF ExpiryMisses, Counted
    <2>2. \A r \in Live : MissesOf(r)' = MissesOf(r) \cup ExpiryMisses(r)
      BY <1>3, <2>1 DEF MissesOf
    <2>3. \A r \in Requests \ Live : MissesOf(r)' = MissesOf(r)
      BY <1>3, <2>1 DEF MissesOf
    <2>4. \A r \in Live : ExpiryMisses(r) = {} <=> ~requests[r].goodput_eligible \/ DueIds(r) = {}
      BY DEF ExpiryMisses
    <2>5. \A r \in Live : DueIds(r) = {} <=> ~Passed(requests[r].ttft) /\ ~Passed(requests[r].tbt)
      BY <1>7 DEF TbtIds, Passed
    <2>6. \A r \in Live : requests[r].goodput_eligible <=> MissesOf(r) = {}
      BY DEF LedgerInv, GoodputIsFirstMiss
    <2>7. \A r \in Live : requests'[r].goodput_eligible <=> MissesOf(r)' = {}
      BY <1>6, <2>2, <2>4, <2>5, <2>6
    <2>8. \A r \in Live : \A u, w \in ExpiryMisses(r) : u = w
      BY <1>1, <1>11 DEF ExpiryMisses
    <2>9. \A r \in Requests : \A u, w \in MissesOf(r) : u = w
      BY DEF LedgerInv, GoodputIsFirstMiss
    <2>10. \A r \in Requests : \A u, w \in MissesOf(r)' : u = w
      BY <2>2, <2>3, <2>4, <2>6, <2>8, <2>9
    <2>. QED  BY <1>5, <2>7, <2>10 DEF GoodputIsFirstMiss
  <1>. QED  BY <1>3, <1>12, <1>13, <1>14 DEF LedgerInv, NeverRaises

LEMMA InvNext ==
  ASSUME ReuseIds = FALSE, LedgerInv, [Next]_vars
  PROVE  LedgerInv'
  <1>1. TypeOK'  BY TypeNext DEF LedgerInv
  <1>2. CASE Tick \/ UNCHANGED vars
    <2>1. UNCHANGED <<requests, settled, updates, fault>>
      BY <1>2 DEF Tick, vars
    <2>. QED
      BY <1>1, <2>1 DEF LedgerInv, NeverRaises, SettledOnce, SettledInOrder,
                        GoodputIsFirstMiss, MissesOf, ActiveIds, Live
  <1>3. CASE Register
    BY <1>1, <1>3, InvRegister DEF Register
  <1>4. CASE Token
    BY <1>1, <1>4, InvReturnToken DEF Token
  <1>5. CASE EndOfRequest
    BY <1>1, <1>5, InvTerminate DEF EndOfRequest
  <1>6. CASE ExpireDeadlines
    BY <1>1, <1>6, InvExpire
  <1>. QED  BY <1>2, <1>3, <1>4, <1>5, <1>6 DEF Next

(* With unique request ids the ledger never raises, its books balance and   *)
(* Goodput is lost exactly by the first reported miss, for any number of    *)
(* requests and events, any SLOs and any length of run.                     *)
THEOREM LedgerCorrect ==
  ASSUME ReuseIds = FALSE
  PROVE  Spec => []LedgerInv
  <1>1. Init => LedgerInv  BY InvInit
  <1>2. LedgerInv /\ [Next]_vars => LedgerInv'  BY InvNext
  <1>. QED  BY <1>1, <1>2, PTL DEF Spec

(* No legal sequence of registrations, tokens, terminal events and expiry    *)
(* passes makes _settle or observe_output raise (state_store.py:284, 361).   *)
THEOREM LedgerNeverRaises ==
  ASSUME ReuseIds = FALSE
  PROVE  Spec => []NeverRaises
  <1>1. LedgerInv => NeverRaises  BY DEF LedgerInv
  <1>. QED  BY <1>1, LedgerCorrect, PTL

(* The books balance: no obligation is settled twice or counted twice, in    *)
(* whatever order a token, the deadline's expiry and the end of the request  *)
(* reach it (_settle, expire_deadlines, observe_output).                     *)
THEOREM EachObligationSettlesOnce ==
  ASSUME ReuseIds = FALSE
  PROVE  Spec => []SettledOnce
  <1>1. LedgerInv => SettledOnce  BY DEF LedgerInv
  <1>. QED  BY <1>1, LedgerCorrect, PTL

(* A request loses Goodput exactly by its first reported miss, and reports   *)
(* one miss at most (_record_miss and the silent retirements after it).      *)
THEOREM GoodputLostByFirstMiss ==
  ASSUME ReuseIds = FALSE
  PROVE  Spec => []GoodputIsFirstMiss
  <1>1. LedgerInv => GoodputIsFirstMiss  BY DEF LedgerInv
  <1>. QED  BY <1>1, LedgerCorrect, PTL

(* TTFT first, then the TBT obligations by their numbers (line 369): the     *)
(* order that makes an id about to be settled a new one.                     *)
THEOREM SettlementIsOrdered ==
  ASSUME ReuseIds = FALSE
  PROVE  Spec => []SettledInOrder
  <1>1. LedgerInv => SettledInOrder  BY DEF LedgerInv
  <1>. QED  BY <1>1, LedgerCorrect, PTL

-----------------------------------------------------------------------------
(* Recovery.  A record's step keeps lost Goodput lost and the first miss     *)
(* time fixed; a record in Recovery has lost Goodput.                        *)
Sticky(p, q) ==
  /\ ~p.goodput_eligible => ~q.goodput_eligible
  /\ p.recovery_first_miss_time # None =>
        q.recovery_first_miss_time = p.recovery_first_miss_time

LostInRecovery(q) == q.recovery_first_miss_time # None => ~q.goodput_eligible

RecoveryInv == TypeOK /\ \A r \in Live : LostInRecovery(requests[r])

LEMMA RecordMissRecovery ==
  ASSUME NEW q \in RequestLedger, NEW kind, NEW d \in Nat
  PROVE  Sticky(q, RecordMiss(q, kind, d)) /\ LostInRecovery(RecordMiss(q, kind, d))
  BY DEF RecordMiss, RequestLedger, Sticky, LostInRecovery

LEMMA SettledByTokenRecovery ==
  ASSUME NEW q \in RequestLedger, LostInRecovery(q), NEW kind, NEW d \in Nat
  PROVE  Sticky(q, SettledByToken(q, kind, d)) /\ LostInRecovery(SettledByToken(q, kind, d))
  BY RecordMissRecovery DEF SettledByToken, Sticky

LEMMA AfterTokenRecovery ==
  ASSUME NEW q \in RequestLedger, LostInRecovery(q)
  PROVE  Sticky(q, OpenNextTbt(AfterToken(q))) /\ LostInRecovery(OpenNextTbt(AfterToken(q)))
  <1>. USE DeadlineFacts
  <1>1. AfterToken(q) \in RequestLedger  BY AfterTokenType
  <1>2. Sticky(q, AfterToken(q)) /\ LostInRecovery(AfterToken(q))
    <2>1. CASE q.ttft # None
      <3>. DEFINE s == SettledByToken(q, "TTFT", q.ttft)
      <3>1. q.ttft \in Nat  BY <2>1 DEF RequestLedger
      <3>2. s \in RequestLedger /\ Sticky(q, s) /\ LostInRecovery(s)
        BY <3>1, SettledByTokenType, SettledByTokenRecovery
      <3>3. AfterToken(q) = [s EXCEPT !.ttft = None, !.first_token_returned = TRUE]
        BY <2>1 DEF AfterToken
      <3>. HIDE DEF s
      <3>. QED  BY <3>2, <3>3 DEF RequestLedger, Sticky, LostInRecovery
    <2>2. CASE q.ttft = None /\ q.tbt # None
      <3>. DEFINE s == SettledByToken(q, "TBT", q.tbt)
      <3>1. q.tbt \in Nat  BY <2>2 DEF RequestLedger
      <3>2. s \in RequestLedger /\ Sticky(q, s) /\ LostInRecovery(s)
        BY <3>1, SettledByTokenType, SettledByTokenRecovery
      <3>3. AfterToken(q) = [s EXCEPT !.tbt = None]
        BY <2>2 DEF AfterToken
      <3>. HIDE DEF s
      <3>. QED  BY <3>2, <3>3 DEF RequestLedger, Sticky, LostInRecovery
    <2>3. CASE q.ttft = None /\ q.tbt = None
      BY <2>3 DEF AfterToken, RequestLedger, Sticky, LostInRecovery
    <2>. QED  BY <2>1, <2>2, <2>3
  <1>. DEFINE a == AfterToken(q)
  <1>. HIDE DEF a
  <1>3. a \in RequestLedger /\ Sticky(q, a) /\ LostInRecovery(a)
    BY <1>1, <1>2 DEF a
  <1>4. Sticky(q, OpenNextTbt(a)) /\ LostInRecovery(OpenNextTbt(a))
    BY <1>3 DEF OpenNextTbt, RequestLedger, Sticky, LostInRecovery
  <1>. QED  BY <1>4 DEF a

LEMMA AfterExpiryRecovery ==
  ASSUME NEW q \in RequestLedger, LostInRecovery(q)
  PROVE  Sticky(q, AfterExpiry(q)) /\ LostInRecovery(AfterExpiry(q))
  <1>. USE DeadlineFacts
  <1>. DEFINE a == AfterTtftExpiry(q)
  <1>1. a \in RequestLedger /\ Sticky(q, a) /\ LostInRecovery(a)
    <2>1. CASE Passed(q.ttft)
      <3>. DEFINE s == RecordMiss(q, "TTFT", q.ttft)
      <3>1. q.ttft \in Nat  BY <2>1 DEF Passed, RequestLedger
      <3>2. s \in RequestLedger /\ Sticky(q, s) /\ LostInRecovery(s)
        BY <3>1, RecordMissType, RecordMissRecovery
      <3>3. a = [s EXCEPT !.ttft = None]  BY <2>1 DEF AfterTtftExpiry
      <3>. HIDE DEF s, a
      <3>. QED  BY <3>2, <3>3 DEF RequestLedger, Sticky, LostInRecovery
    <2>2. CASE ~Passed(q.ttft)
      BY <2>2 DEF AfterTtftExpiry, Sticky
    <2>. QED  BY <2>1, <2>2
  <1>2. CASE Passed(q.tbt)
    <2>. DEFINE s == RecordMiss(a, "TBT", q.tbt)
    <2>1. q.tbt \in Nat  BY <1>2 DEF Passed, RequestLedger
    <2>. HIDE DEF a
    <2>2. s \in RequestLedger /\ Sticky(a, s) /\ LostInRecovery(s)
      BY <1>1, <2>1, RecordMissType, RecordMissRecovery
    <2>3. AfterExpiry(q) = [s EXCEPT !.tbt = None]  BY <1>2 DEF AfterExpiry, a
    <2>. HIDE DEF s
    <2>. QED  BY <1>1, <2>2, <2>3 DEF RequestLedger, Sticky, LostInRecovery
  <1>3. CASE ~Passed(q.tbt)
    BY <1>1, <1>3 DEF AfterExpiry
  <1>. QED  BY <1>2, <1>3

(* What any step does to the record of a request that survives it.           *)
LEMMA RecordsStep ==
  ASSUME RecoveryInv, TypeOK', [Next]_vars
  PROVE  /\ \A r \in Live \cap Live' : Sticky(requests[r], requests'[r])
         /\ \A r \in Live' : LostInRecovery(requests'[r])
  <1>1. /\ now \in Nat
        /\ \A r \in Live : requests[r] \in RequestLedger /\ LostInRecovery(requests[r])
    BY LedgerAssumption DEF RecoveryInv, TypeOK
  <1>2. CASE UNCHANGED requests
    BY <1>1, <1>2 DEF Sticky, Live
  <1>3. ASSUME NEW r \in Requests, NEW arrival_time \in 0..now,
               RegisterRequest(r, arrival_time)
        PROVE  /\ \A x \in Live \cap Live' : Sticky(requests[x], requests'[x])
               /\ \A x \in Live' : LostInRecovery(requests'[x])
    <2>1. /\ Live' = Live \cup {r} /\ r \notin Live
          /\ \A x \in Live : requests'[x] = requests[x]
          /\ requests'[r].recovery_first_miss_time = None
      BY <1>3 DEF RegisterRequest, Live
    <2>. QED  BY <1>1, <2>1 DEF Sticky, LostInRecovery
  <1>4. ASSUME NEW e \in Events, NEW r \in Requests, ReturnToken(e, r),
               ~UNCHANGED requests
        PROVE  /\ \A x \in Live \cap Live' : Sticky(requests[x], requests'[x])
               /\ \A x \in Live' : LostInRecovery(requests'[x])
    <2>1. /\ r \in Live
          /\ requests' = [requests EXCEPT ![r] = OpenNextTbt(AfterToken(requests[r]))]
      BY <1>4 DEF ReturnToken
    <2>2. /\ Sticky(requests[r], OpenNextTbt(AfterToken(requests[r])))
          /\ LostInRecovery(OpenNextTbt(AfterToken(requests[r])))
      BY <1>1, <2>1, AfterTokenRecovery
    <2>3. /\ Live' = Live
          /\ requests'[r] = OpenNextTbt(AfterToken(requests[r]))
          /\ \A x \in Live \ {r} : requests'[x] = requests[x]
      BY <2>1 DEF Live, RecoveryInv, TypeOK
    <2>. QED  BY <1>1, <2>2, <2>3 DEF Sticky
  <1>5. ASSUME NEW e \in Events, NEW r \in Requests, NEW n \in {0, 1},
               NEW reason \in Reasons, Terminate(e, r, n, reason), ~UNCHANGED requests
        PROVE  /\ \A x \in Live \cap Live' : Sticky(requests[x], requests'[x])
               /\ \A x \in Live' : LostInRecovery(requests'[x])
    <2>1. requests' = [x \in Live \ {r} |-> requests[x]]
      BY <1>5 DEF Terminate
    <2>2. Live' = Live \ {r} /\ \A x \in Live' : requests'[x] = requests[x]
      BY <2>1 DEF Live
    <2>. QED  BY <1>1, <2>2 DEF Sticky
  <1>6. ASSUME ExpireDeadlines
        PROVE  /\ \A x \in Live \cap Live' : Sticky(requests[x], requests'[x])
               /\ \A x \in Live' : LostInRecovery(requests'[x])
    <2>1. PICK visited \in SUBSET Live : Expire(visited)
      BY <1>6 DEF ExpireDeadlines
    <2>2. /\ Live' = Live
          /\ \A x \in Live : requests'[x] =
                IF x \in visited THEN AfterExpiry(requests[x]) ELSE requests[x]
      BY <2>1 DEF Expire, Live
    <2>3. \A x \in Live : /\ Sticky(requests[x], AfterExpiry(requests[x]))
                          /\ LostInRecovery(AfterExpiry(requests[x]))
      BY <1>1, AfterExpiryRecovery
    <2>. QED  BY <1>1, <2>2, <2>3 DEF Sticky
  <1>7. CASE Tick \/ UNCHANGED vars
    BY <1>2, <1>7 DEF Tick, vars
  <1>8. CASE Next
    <2>1. CASE UNCHANGED requests  BY <2>1, <1>2
    <2>2. CASE ~UNCHANGED requests
      BY <1>8, <2>2, <1>3, <1>4, <1>5, <1>6, <1>7
      DEF Next, Register, Token, EndOfRequest
    <2>. QED  BY <2>1, <2>2
  <1>. QED  BY <1>7, <1>8

(* The first TBT miss that decides recovery_due (line 462) is remembered     *)
(* unchanged, and Goodput stays lost, until the request leaves the ledger.   *)
(* Ids may be reused.                                                        *)
THEOREM RecoveryNeverForgets == Spec => RecoveryIsSticky
  <1>1. Init => RecoveryInv
    BY TypeInit DEF Init, RecoveryInv, Live
  <1>2. RecoveryInv /\ [Next]_vars => RecoveryInv'
    BY TypeNext, RecordsStep DEF RecoveryInv
  <1>3. RecoveryInv /\ [Next]_vars =>
          [\A r \in Live \cap Live' :
              /\ ~requests[r].goodput_eligible => ~requests'[r].goodput_eligible
              /\ requests[r].recovery_first_miss_time # None =>
                    /\ ~requests[r].goodput_eligible
                    /\ requests'[r].recovery_first_miss_time =
                          requests[r].recovery_first_miss_time]_vars
    <2>. SUFFICES ASSUME RecoveryInv, [Next]_vars, NEW r \in Live \cap Live'
                  PROVE  /\ ~requests[r].goodput_eligible => ~requests'[r].goodput_eligible
                         /\ requests[r].recovery_first_miss_time # None =>
                              /\ ~requests[r].goodput_eligible
                              /\ requests'[r].recovery_first_miss_time =
                                    requests[r].recovery_first_miss_time
      OBVIOUS
    <2>1. TypeOK'  BY TypeNext DEF RecoveryInv
    <2>2. Sticky(requests[r], requests'[r])  BY <2>1, RecordsStep
    <2>3. LostInRecovery(requests[r])  BY DEF RecoveryInv
    <2>. QED  BY <2>2, <2>3 DEF Sticky, LostInRecovery
  <1>. QED  BY <1>1, <1>2, <1>3, PTL DEF Spec, RecoveryIsSticky

-----------------------------------------------------------------------------
(* The ledger implements its contract, module ObligationContract.            *)

(* The obligations of a live request form a chain: its newest one is open or *)
(* settled, all before it are settled, and none after it is.                 *)
Chain(r) ==
  LET k == requests[r].tbt_sequence IN
  /\ ActiveIds(r) \subseteq {IdOf(r, k)}
  /\ IdOf(r, k) \in settled \cup ActiveIds(r)
  /\ \A n \in Nat : n < k => IdOf(r, n) \in settled
  /\ \A n \in Nat : n > k => IdOf(r, n) \notin settled

(* The inductive invariant of the refinement: what is settled has a number   *)
(* of the contract, for every TBT obligation was opened by an event of its   *)
(* own; and only the end of a request cancels.                               *)
Chained == \A r \in Live : Chain(r)
WithinEvents == \A r \in Live : requests[r].tbt_sequence <= Cardinality(seen_event_ids)
Numbered == \A o \in settled : \E n \in Numbers : o = IdOf(o[1], n)
CancelledAtEnd == \A u \in updates : u.outcome = "cancelled" => u.obligation[1] \notin Live

RefinementInv == LedgerInv /\ Chained /\ WithinEvents /\ Numbered /\ CancelledAtEnd

-----------------------------------------------------------------------------
LEMMA IdOfFacts ==
  /\ \A r, n : IdOf(r, n)[1] = r
  /\ \A r, s : \A n, m \in Nat : IdOf(r, n) = IdOf(s, m) => r = s /\ n = m
  /\ \A r : IdOf(r, 0) = TtftId(r)
  /\ \A r : \A n \in Nat \ {0} : IdOf(r, n) = TbtId(r, n)
  BY DEF IdOf, TtftId, TbtId

LEMMA NumbersFacts ==
  ASSUME IsFiniteSet(Events)
  PROVE  /\ Cardinality(Events) \in Nat
         /\ \A n : n \in Numbers <=> n \in Nat /\ n <= Cardinality(Events)
  BY FS_CardinalityType DEF Numbers

(* Events are counted by seen_event_ids, and an event is seen once. *)
LEMMA SeenCount ==
  ASSUME IsFiniteSet(Events), seen_event_ids \subseteq Events
  PROVE  /\ Cardinality(seen_event_ids) \in Nat
         /\ Cardinality(seen_event_ids) <= Cardinality(Events)
         /\ \A e \in Events \ seen_event_ids :
               /\ Cardinality(seen_event_ids \cup {e}) = Cardinality(seen_event_ids) + 1
               /\ Cardinality(seen_event_ids) + 1 <= Cardinality(Events)
  <1>1. IsFiniteSet(seen_event_ids) /\ Cardinality(seen_event_ids) <= Cardinality(Events)
    BY FS_Subset
  <1>2. Cardinality(seen_event_ids) \in Nat
    BY <1>1, FS_CardinalityType
  <1>3. ASSUME NEW e \in Events \ seen_event_ids
        PROVE  /\ Cardinality(seen_event_ids \cup {e}) = Cardinality(seen_event_ids) + 1
               /\ Cardinality(seen_event_ids \cup {e}) <= Cardinality(Events)
    <2>1. seen_event_ids \cup {e} \in SUBSET Events
      BY <1>3
    <2>. QED  BY <1>1, <1>3, <2>1, FS_AddElement, FS_Subset
  <1>. QED  BY <1>1, <1>2, <1>3

-----------------------------------------------------------------------------
(* What each action of the ledger does, when it does not raise. *)
LEMMA RegisterEffect ==
  ASSUME ReuseIds = FALSE, LedgerInv, NEW r \in Requests, NEW arrival_time \in 0..now,
         RegisterRequest(r, arrival_time)
  PROVE  /\ r \notin Live /\ Live' = Live \cup {r}
         /\ \A x \in Live : requests'[x] = requests[x] /\ ActiveIds(x)' = ActiveIds(x)
         /\ requests'[r].tbt_sequence = 0
         /\ ActiveIds(r)' = {IdOf(r, 0)}
         /\ \A o \in settled : o[1] # r
         /\ UNCHANGED <<settled, updates, seen_event_ids>>
  <1>. DEFINE q == requests'[r]
  <1>1. /\ r \notin Live /\ TtftId(r) \notin settled
        /\ Live' = Live \cup {r}
        /\ \A x \in Live : requests'[x] = requests[x]
        /\ UNCHANGED <<settled, updates, seen_event_ids>>
    BY DEF RegisterRequest, Live
  <1>2. q.ttft # None /\ q.tbt = None /\ q.tbt_sequence = 0
    <2>1. arrival_time + TtftSlo \in Nat
      BY LedgerAssumption DEF LedgerInv, TypeOK
    <2>. QED  BY <2>1, DeadlineFacts DEF RegisterRequest
  <1>3. \A o \in settled : o[1] # r
    BY <1>1 DEF LedgerInv, SettledInOrder
  <1>4. ActiveIds(r)' = {TtftId(r)} /\ \A x \in Live : ActiveIds(x)' = ActiveIds(x)
    BY <1>1, <1>2 DEF ActiveIds, TtftIds, TbtIds
  <1>. HIDE DEF q
  <1>. QED  BY <1>1, <1>2, <1>3, <1>4, IdOfFacts DEF q

LEMMA TokenEffect ==
  ASSUME LedgerInv, NEW e \in Events, NEW r \in Requests, ReturnToken(e, r)
  PROVE  /\ r \in Live /\ Live' = Live
         /\ \A x \in Live \ {r} : requests'[x] = requests[x] /\ ActiveIds(x)' = ActiveIds(x)
         /\ requests[r].tbt_sequence \in Nat
         /\ requests'[r].tbt_sequence = requests[r].tbt_sequence + 1
         /\ ActiveIds(r)' = {IdOf(r, requests[r].tbt_sequence + 1)}
         /\ settled' = settled \cup ActiveIds(r)
         /\ updates' = updates \cup TokenVerdicts(r, requests[r])
         /\ e \notin seen_event_ids /\ seen_event_ids' = seen_event_ids \cup {e}
  <1>. DEFINE q == requests[r]
              t == AfterToken(q)
  <1>1. /\ r \in Live /\ q \in RequestLedger
        /\ q.ttft = None \/ q.tbt = None
        /\ ActiveIds(r) = TokenSettles(r, q)
        /\ \A o \in TokenSettles(r, q) : o \notin settled
        /\ ~Orphaned(r, q)
    BY OpenIdsInv DEF ReturnToken
  <1>2. TokenSettles(r, q) \cap settled = {}
    BY <1>1
  <1>3. /\ requests' = [requests EXCEPT ![r] = OpenNextTbt(t)]
        /\ settled' = settled \cup TokenSettles(r, q)
        /\ updates' = updates \cup TokenVerdicts(r, q)
        /\ e \notin seen_event_ids /\ seen_event_ids' = seen_event_ids \cup {e}
    BY <1>1, <1>2 DEF ReturnToken
  <1>4. /\ t \in RequestLedger /\ t.ttft = None /\ t.tbt_sequence = q.tbt_sequence
        /\ q.tbt_sequence \in Nat
    BY <1>1, AfterTokenType DEF RequestLedger
  <1>5. /\ requests'[r].ttft = None /\ requests'[r].tbt # None
        /\ requests'[r].tbt_sequence = q.tbt_sequence + 1
    <2>1. now \in Nat /\ now + TbtSlo \in Nat  BY LedgerAssumption DEF LedgerInv, TypeOK
    <2>2. requests'[r] = OpenNextTbt(t)  BY <1>1, <1>3 DEF LedgerInv, TypeOK, Live
    <2>. HIDE DEF t
    <2>. QED  BY <1>4, <2>1, <2>2, OpenNextTbtType, DeadlineFacts
  <1>6. Live' = Live /\ \A x \in Live \ {r} : requests'[x] = requests[x]
    BY <1>3 DEF LedgerInv, TypeOK, Live
  <1>7. \A x \in Live \ {r} : ActiveIds(x)' = ActiveIds(x)
    BY <1>6, OthersKeep
  <1>8. ActiveIds(r)' = {TbtId(r, q.tbt_sequence + 1)}
    BY <1>5 DEF ActiveIds, TtftIds, TbtIds
  <1>9. TbtId(r, q.tbt_sequence + 1) = IdOf(r, q.tbt_sequence + 1)
    BY <1>4, IdOfFacts
  <1>. HIDE DEF t
  <1>. QED  BY <1>1, <1>3, <1>4, <1>5, <1>6, <1>7, <1>8, <1>9

(* What the outcomes of an ended request are. *)
Endings(r, n) ==
  IF n = 1 THEN TokenVerdicts(r, requests[r]) ELSE {Counted(o, "cancelled") : o \in ActiveIds(r)}

LEMMA TerminateEffect ==
  ASSUME LedgerInv, NEW e \in Events, NEW r \in Requests, NEW n \in {0, 1},
         NEW reason \in Reasons, Terminate(e, r, n, reason)
  PROVE  /\ r \in Live /\ Live' = Live \ {r}
         /\ \A x \in Live' : requests'[x] = requests[x] /\ ActiveIds(x)' = ActiveIds(x)
         /\ settled' = settled \cup ActiveIds(r)
         /\ updates' = updates \cup Endings(r, n)
         /\ e \notin seen_event_ids /\ seen_event_ids' = seen_event_ids \cup {e}
  <1>. DEFINE q == requests[r]
  <1>1. /\ r \in Live
        /\ ActiveIds(r) = TokenSettles(r, q)
        /\ ActiveIds(r) \cap settled = {}
        /\ ~Orphaned(r, q)
    BY OpenIdsInv DEF Terminate
  <1>2. /\ requests' = [x \in Live \ {r} |-> requests[x]]
        /\ settled' = settled \cup ActiveIds(r)
        /\ updates' = updates \cup {Counted(o, "cancelled") :
                                       o \in ActiveIds(r) \ (IF n = 1 THEN TokenSettles(r, q) ELSE {})}
                              \cup (IF n = 1 THEN TokenVerdicts(r, q) ELSE {})
        /\ e \notin seen_event_ids /\ seen_event_ids' = seen_event_ids \cup {e}
    BY <1>1 DEF Terminate
  <1>3. updates' = updates \cup Endings(r, n)
    <2>1. CASE n = 1
      BY <1>1, <1>2, <2>1 DEF Endings
    <2>2. CASE n = 0
      BY <1>2, <2>2 DEF Endings
    <2>. QED  BY <2>1, <2>2
  <1>4. Live' = Live \ {r} /\ \A x \in Live' : requests'[x] = requests[x]
    BY <1>2 DEF Live
  <1>5. \A x \in Live' : ActiveIds(x)' = ActiveIds(x)
    BY <1>4 DEF ActiveIds
  <1>. QED  BY <1>1, <1>2, <1>3, <1>4, <1>5

LEMMA ExpireEffect ==
  ASSUME LedgerInv, ExpireDeadlines
  PROVE  /\ Live' = Live
         /\ \A x \in Live : requests'[x].tbt_sequence = requests[x].tbt_sequence
         /\ \A x \in Live : /\ DueIds(x) \subseteq ActiveIds(x)
                            /\ ActiveIds(x)' = ActiveIds(x) \ DueIds(x)
         /\ settled' = settled \cup UNION {DueIds(x) : x \in Live}
         /\ updates' = updates \cup UNION {ExpiryMisses(x) : x \in Live}
         /\ UNCHANGED seen_event_ids
  <1>1. \A x \in Live : DueIds(x) \subseteq ActiveIds(x)
    BY DEF DueIds
  <1>2. \A x \in Live : DueIds(x) \cap settled = {}
    BY <1>1 DEF LedgerInv, SettledOnce
  <1>3. /\ Expire(Live)
        /\ updates' = updates \cup UNION {ExpiryMisses(x) : x \in Live}
        /\ UNCHANGED seen_event_ids
    BY <1>2 DEF ExpireDeadlines
  <1>4. /\ Live' = Live
        /\ \A x \in Live : requests'[x] = AfterExpiry(requests[x])
        /\ settled' = settled \cup UNION {DueIds(x) : x \in Live}
    BY <1>3 DEF Expire, Live
  <1>5. \A x \in Live : requests[x] \in RequestLedger
    BY DEF LedgerInv, TypeOK
  <1>6. \A x \in Live :
           /\ requests'[x].ttft = IF Passed(requests[x].ttft) THEN None ELSE requests[x].ttft
           /\ requests'[x].tbt = IF Passed(requests[x].tbt) THEN None ELSE requests[x].tbt
           /\ requests'[x].tbt_sequence = requests[x].tbt_sequence
    BY <1>4, <1>5, AfterExpiryType
  <1>7. ASSUME NEW x \in Live PROVE ActiveIds(x)' = ActiveIds(x) \ DueIds(x)
    <2>1. TbtId(x, requests[x].tbt_sequence) # TtftId(x)
      BY IdFacts
    <2>2. ActiveIds(x)' =
             (IF Passed(requests[x].ttft) THEN {} ELSE TtftIds(x, requests[x]))
             \cup (IF Passed(requests[x].tbt) THEN {} ELSE TbtIds(x, requests[x]))
      BY <1>6 DEF ActiveIds, TtftIds, TbtIds
    <2>. QED  BY <2>1, <2>2 DEF ActiveIds, DueIds, TtftIds, TbtIds
  <1>. QED  BY <1>1, <1>3, <1>4, <1>6, <1>7

-----------------------------------------------------------------------------
(* A live request's newest obligation is its only open one. *)
LEMMA ChainFacts ==
  ASSUME RefinementInv, NEW r \in Live
  PROVE  /\ r \in Requests
         /\ requests[r].tbt_sequence \in Nat
         /\ ActiveIds(r) = {} \/ ActiveIds(r) = {IdOf(r, requests[r].tbt_sequence)}
         /\ \A o \in ActiveIds(r) : o \notin settled
         /\ ActiveIds(r) = TokenSettles(r, requests[r])
  <1>1. r \in Requests /\ requests[r] \in RequestLedger
    BY DEF RefinementInv, LedgerInv, TypeOK
  <1>2. ActiveIds(r) \subseteq {IdOf(r, requests[r].tbt_sequence)}
    BY DEF RefinementInv, Chained, Chain
  <1>. QED  BY <1>1, <1>2, OpenIdsInv DEF RefinementInv, RequestLedger

(* A chain is only disturbed by what happens to its own request. *)
LEMMA ChainKeeps ==
  ASSUME NEW x, Chain(x),
         requests'[x].tbt_sequence = requests[x].tbt_sequence,
         requests[x].tbt_sequence \in Nat,
         ActiveIds(x)' \subseteq ActiveIds(x),
         \A o \in ActiveIds(x) : o \in ActiveIds(x)' \/ o \in settled',
         settled \subseteq settled',
         \A o \in settled' \ settled : o[1] = x => o \in ActiveIds(x)
  PROVE  Chain(x)'
  <1>. DEFINE k == requests[x].tbt_sequence
  <1>1. /\ ActiveIds(x) \subseteq {IdOf(x, k)}
        /\ IdOf(x, k) \in settled \cup ActiveIds(x)
        /\ \A n \in Nat : n < k => IdOf(x, n) \in settled
        /\ \A n \in Nat : n > k => IdOf(x, n) \notin settled
    BY DEF Chain
  <1>2. ASSUME NEW n \in Nat, n > k PROVE IdOf(x, n) \notin settled'
    <2>1. IdOf(x, n) # IdOf(x, k)
      BY <1>2, IdOfFacts
    <2>. QED  BY <1>1, <1>2, <2>1, IdOfFacts
  <1>3. IdOf(x, k) \in settled' \cup ActiveIds(x)'
    BY <1>1
  <1>4. \A n \in Nat : n < k => IdOf(x, n) \in settled'
    BY <1>1
  <1>. QED  BY <1>1, <1>2, <1>3, <1>4 DEF Chain

LEMMA RefinementInit == Init => RefinementInv
  <1>. SUFFICES ASSUME Init PROVE RefinementInv
    OBVIOUS
  <1>1. LedgerInv  BY InvInit
  <1>. QED
    BY <1>1 DEF Init, RefinementInv, Chained, WithinEvents, Numbered, CancelledAtEnd, Live

LEMMA RefinementRegister ==
  ASSUME ReuseIds = FALSE, IsFiniteSet(Events), RefinementInv, LedgerInv',
         NEW r \in Requests, NEW arrival_time \in 0..now, RegisterRequest(r, arrival_time)
  PROVE  RefinementInv'
  <1>1. /\ r \notin Live /\ Live' = Live \cup {r}
        /\ \A x \in Live : requests'[x] = requests[x] /\ ActiveIds(x)' = ActiveIds(x)
        /\ requests'[r].tbt_sequence = 0
        /\ ActiveIds(r)' = {IdOf(r, 0)}
        /\ \A o \in settled : o[1] # r
        /\ UNCHANGED <<settled, updates, seen_event_ids>>
    BY RegisterEffect DEF RefinementInv
  <1>2. Chained'
    <2>1. Chain(r)'
      BY <1>1, IdOfFacts DEF Chain
    <2>2. \A x \in Live : Chain(x)'
      BY <1>1 DEF RefinementInv, Chained, Chain
    <2>. QED  BY <1>1, <2>1, <2>2 DEF Chained
  <1>3. WithinEvents'
    <2>1. Cardinality(seen_event_ids) \in Nat
      BY SeenCount DEF RefinementInv, LedgerInv, TypeOK
    <2>. QED  BY <1>1, <2>1 DEF RefinementInv, WithinEvents
  <1>4. CancelledAtEnd'
    <2>1. \A u \in updates : u.obligation[1] # r
      BY <1>1 DEF RefinementInv, LedgerInv, SettledOnce
    <2>. QED  BY <1>1, <2>1 DEF RefinementInv, CancelledAtEnd
  <1>5. Numbered'
    BY <1>1 DEF RefinementInv, Numbered
  <1>. QED  BY <1>2, <1>3, <1>4, <1>5 DEF RefinementInv

(* The outcomes that a token counts. *)
LEMMA VerdictFacts ==
  ASSUME RefinementInv, NEW r \in Live
  PROVE  \A u \in TokenVerdicts(r, requests[r]) :
            /\ requests[r].goodput_eligible
            /\ u.obligation \in ActiveIds(r) /\ u.obligation[1] = r
            /\ u.outcome \in {"success", "miss"}
  <1>1. /\ requests[r] \in RequestLedger
        /\ requests[r].ttft = None \/ requests[r].tbt = None
        /\ ActiveIds(r) = TokenSettles(r, requests[r])
        /\ \A o \in ActiveIds(r) : o[1] = r
    BY OpenIdsInv DEF RefinementInv
  <1>2. \A u \in TokenVerdicts(r, requests[r]) : u.outcome \in {"success", "miss"}
    BY VerdictType DEF TokenVerdicts, Counted
  <1>. QED  BY <1>1, <1>2, TokenOutcome

(* Settling an id of the contract keeps all settled ids in the contract. *)
LEMMA NumberedKeeps ==
  ASSUME IsFiniteSet(Events), RefinementInv, seen_event_ids' \subseteq Events,
         settled' \subseteq settled \cup UNION {ActiveIds(x) : x \in Live}
  PROVE  Numbered'
  <1>. SUFFICES ASSUME NEW o \in settled' PROVE \E n \in Numbers : o = IdOf(o[1], n)
    BY DEF Numbered, Numbers
  <1>1. CASE o \in settled
    BY <1>1 DEF RefinementInv, Numbered
  <1>2. ASSUME NEW x \in Live, o \in ActiveIds(x)
        PROVE  \E n \in Numbers : o = IdOf(o[1], n)
    <2>1. o = IdOf(x, requests[x].tbt_sequence) /\ requests[x].tbt_sequence \in Nat
      BY <1>2, ChainFacts
    <2>2. requests[x].tbt_sequence <= Cardinality(Events)
      <3>1. requests[x].tbt_sequence <= Cardinality(seen_event_ids)
        BY DEF RefinementInv, WithinEvents
      <3>2. /\ Cardinality(seen_event_ids) \in Nat
            /\ Cardinality(seen_event_ids) <= Cardinality(Events)
        BY SeenCount DEF RefinementInv, LedgerInv, TypeOK
      <3>. QED  BY <2>1, <3>1, <3>2, NumbersFacts
    <2>. QED  BY <2>1, <2>2, IdOfFacts, NumbersFacts
  <1>. QED  BY <1>1, <1>2

LEMMA RefinementToken ==
  ASSUME IsFiniteSet(Events), RefinementInv, LedgerInv',
         NEW e \in Events, NEW r \in Requests, ReturnToken(e, r)
  PROVE  RefinementInv'
  <1>. DEFINE k == requests[r].tbt_sequence
  <1>1. /\ r \in Live /\ Live' = Live
        /\ \A x \in Live \ {r} : requests'[x] = requests[x] /\ ActiveIds(x)' = ActiveIds(x)
        /\ k \in Nat /\ requests'[r].tbt_sequence = k + 1
        /\ ActiveIds(r)' = {IdOf(r, k + 1)}
        /\ settled' = settled \cup ActiveIds(r)
        /\ updates' = updates \cup TokenVerdicts(r, requests[r])
        /\ e \notin seen_event_ids /\ seen_event_ids' = seen_event_ids \cup {e}
    BY TokenEffect DEF RefinementInv
  <1>2. Chain(r)'
    <2>1. /\ ActiveIds(r) \subseteq {IdOf(r, k)}
          /\ IdOf(r, k) \in settled \cup ActiveIds(r)
          /\ \A n \in Nat : n < k => IdOf(r, n) \in settled
          /\ \A n \in Nat : n > k => IdOf(r, n) \notin settled
      BY <1>1 DEF RefinementInv, Chained, Chain
    <2>2. \A n \in Nat : n < k + 1 => n < k \/ n = k
      BY <1>1
    <2>3. \A n \in Nat : n < k + 1 => IdOf(r, n) \in settled'
      BY <1>1, <2>1, <2>2
    <2>4. \A n \in Nat : n > k + 1 => IdOf(r, n) \notin settled'
      <3>. SUFFICES ASSUME NEW n \in Nat, n > k + 1 PROVE IdOf(r, n) \notin settled'
        OBVIOUS
      <3>1. n > k /\ n # k  BY <1>1
      <3>2. IdOf(r, n) # IdOf(r, k)  BY <1>1, <3>1, IdOfFacts
      <3>. QED  BY <1>1, <2>1, <3>1, <3>2
    <2>. HIDE DEF k
    <2>. QED  BY <1>1, <2>3, <2>4 DEF Chain
  <1>. HIDE DEF k
  <1>3. ASSUME NEW x \in Live \ {r} PROVE Chain(x)'
    <2>1. \A o \in ActiveIds(r) : o[1] = r
      BY <1>1, OpenIdsInv DEF RefinementInv
    <2>2. Chain(x) /\ requests[x].tbt_sequence \in Nat
      BY ChainFacts DEF RefinementInv, Chained
    <2>. QED  BY <1>1, <2>1, <2>2, ChainKeeps
  <1>4. Chained'
    BY <1>1, <1>2, <1>3 DEF Chained
  <1>5. WithinEvents'
    <2>1. /\ Cardinality(seen_event_ids) \in Nat
          /\ Cardinality(seen_event_ids') = Cardinality(seen_event_ids) + 1
      BY <1>1, SeenCount DEF RefinementInv, LedgerInv, TypeOK
    <2>2. \A x \in Live : /\ requests[x].tbt_sequence \in Nat
                          /\ requests[x].tbt_sequence <= Cardinality(seen_event_ids)
      BY ChainFacts DEF RefinementInv, WithinEvents
    <2>. QED  BY <1>1, <2>1, <2>2 DEF WithinEvents, k
  <1>6. Numbered'
    BY <1>1, NumberedKeeps DEF LedgerInv, TypeOK
  <1>7. CancelledAtEnd'
    BY <1>1, VerdictFacts DEF RefinementInv, CancelledAtEnd
  <1>. QED  BY <1>4, <1>5, <1>6, <1>7 DEF RefinementInv

LEMMA EndingFacts ==
  ASSUME RefinementInv, NEW r \in Live, NEW n \in {0, 1}
  PROVE  \A u \in Endings(r, n) :
            /\ u.obligation \in ActiveIds(r) /\ u.obligation[1] = r
            /\ u.outcome \in Outcomes
            /\ u.outcome # "cancelled" => requests[r].goodput_eligible
  <1>1. \A o \in ActiveIds(r) : o[1] = r
    BY OpenIdsInv DEF RefinementInv
  <1>2. CASE n = 1
    BY <1>2, VerdictFacts DEF Endings, Outcomes
  <1>3. CASE n = 0
    BY <1>1, <1>3 DEF Endings, Outcomes, Counted
  <1>. QED  BY <1>2, <1>3

LEMMA RefinementTerminate ==
  ASSUME IsFiniteSet(Events), RefinementInv, LedgerInv',
         NEW e \in Events, NEW r \in Requests, NEW n \in {0, 1}, NEW reason \in Reasons,
         Terminate(e, r, n, reason)
  PROVE  RefinementInv'
  <1>1. /\ r \in Live /\ Live' = Live \ {r}
        /\ \A x \in Live' : requests'[x] = requests[x] /\ ActiveIds(x)' = ActiveIds(x)
        /\ settled' = settled \cup ActiveIds(r)
        /\ updates' = updates \cup Endings(r, n)
        /\ e \notin seen_event_ids /\ seen_event_ids' = seen_event_ids \cup {e}
    BY TerminateEffect DEF RefinementInv
  <1>2. ASSUME NEW x \in Live' PROVE Chain(x)'
    <2>1. \A o \in ActiveIds(r) : o[1] = r
      BY <1>1, OpenIdsInv DEF RefinementInv
    <2>2. x \in Live /\ Chain(x) /\ requests[x].tbt_sequence \in Nat
      BY <1>1, ChainFacts DEF RefinementInv, Chained
    <2>. QED  BY <1>1, <2>1, <2>2, ChainKeeps
  <1>3. WithinEvents'
    <2>1. /\ Cardinality(seen_event_ids) \in Nat
          /\ Cardinality(seen_event_ids') = Cardinality(seen_event_ids) + 1
      BY <1>1, SeenCount DEF RefinementInv, LedgerInv, TypeOK
    <2>2. \A x \in Live : /\ requests[x].tbt_sequence \in Nat
                          /\ requests[x].tbt_sequence <= Cardinality(seen_event_ids)
      BY ChainFacts DEF RefinementInv, WithinEvents
    <2>. QED  BY <1>1, <2>1, <2>2 DEF WithinEvents
  <1>4. Numbered'
    BY <1>1, NumberedKeeps DEF LedgerInv, TypeOK
  <1>5. CancelledAtEnd'
    BY <1>1, EndingFacts DEF RefinementInv, CancelledAtEnd
  <1>. QED  BY <1>2, <1>3, <1>4, <1>5 DEF RefinementInv, Chained

LEMMA ExpiryFacts ==
  ASSUME RefinementInv, NEW r \in Live
  PROVE  \A u \in ExpiryMisses(r) :
            /\ requests[r].goodput_eligible
            /\ u.obligation \in DueIds(r) /\ u.obligation[1] = r
            /\ u.outcome = "miss"
  <1>1. \A o \in ActiveIds(r) : o[1] = r
    BY OpenIdsInv DEF RefinementInv
  <1>. QED  BY <1>1 DEF ExpiryMisses, DueIds, Counted

LEMMA RefinementExpire ==
  ASSUME IsFiniteSet(Events), RefinementInv, LedgerInv', ExpireDeadlines
  PROVE  RefinementInv'
  <1>1. /\ Live' = Live
        /\ \A x \in Live : requests'[x].tbt_sequence = requests[x].tbt_sequence
        /\ \A x \in Live : /\ DueIds(x) \subseteq ActiveIds(x)
                           /\ ActiveIds(x)' = ActiveIds(x) \ DueIds(x)
        /\ settled' = settled \cup UNION {DueIds(x) : x \in Live}
        /\ updates' = updates \cup UNION {ExpiryMisses(x) : x \in Live}
        /\ UNCHANGED seen_event_ids
    BY ExpireEffect DEF RefinementInv
  <1>2. \A x \in Live : \A o \in DueIds(x) : o[1] = x
    BY <1>1, OpenIdsInv DEF RefinementInv
  <1>3. ASSUME NEW x \in Live PROVE Chain(x)'
    <2>1. Chain(x) /\ requests[x].tbt_sequence \in Nat
      BY ChainFacts DEF RefinementInv, Chained
    <2>2. \A o \in ActiveIds(x) : o \in ActiveIds(x)' \/ o \in settled'
      BY <1>1
    <2>3. \A o \in settled' \ settled : o[1] = x => o \in ActiveIds(x)
      BY <1>1, <1>2
    <2>. QED  BY <1>1, <2>1, <2>2, <2>3, ChainKeeps
  <1>4. WithinEvents'
    BY <1>1 DEF RefinementInv, WithinEvents
  <1>5. Numbered'
    <2>1. settled' \subseteq settled \cup UNION {ActiveIds(x) : x \in Live}
      BY <1>1
    <2>. QED  BY <2>1, NumberedKeeps DEF LedgerInv, TypeOK
  <1>6. CancelledAtEnd'
    BY <1>1, ExpiryFacts DEF RefinementInv, CancelledAtEnd
  <1>. QED  BY <1>1, <1>3, <1>4, <1>5, <1>6 DEF RefinementInv, Chained

LEMMA RefinementNext ==
  ASSUME ReuseIds = FALSE, IsFiniteSet(Events), RefinementInv, [Next]_vars
  PROVE  RefinementInv'
  <1>1. LedgerInv'
    BY InvNext DEF RefinementInv
  <1>2. CASE Tick \/ UNCHANGED vars
    <2>1. UNCHANGED <<requests, settled, updates, seen_event_ids>>
      BY <1>2 DEF Tick, vars
    <2>. QED
      BY <1>1, <2>1 DEF RefinementInv, Chained, Chain, WithinEvents, Numbered,
                        CancelledAtEnd, ActiveIds, Live
  <1>3. CASE Register
    BY <1>1, <1>3, RefinementRegister DEF Register
  <1>4. CASE Token
    BY <1>1, <1>4, RefinementToken DEF Token
  <1>5. CASE EndOfRequest
    BY <1>1, <1>5, RefinementTerminate DEF EndOfRequest
  <1>6. CASE ExpireDeadlines
    BY <1>1, <1>6, RefinementExpire
  <1>. QED  BY <1>2, <1>3, <1>4, <1>5, <1>6 DEF Next

-----------------------------------------------------------------------------
(* The contract's view of a state: where obligation n of r stands. *)
Active(r, n) == r \in Live /\ IdOf(r, n) \in ActiveIds(r)

LEMMA StatusValue ==
  ASSUME SettledOnce, NEW r, NEW n
  PROVE  /\ Active(r, n) => ContractStatus(r, n) = "active"
         /\ ~Active(r, n) /\ IdOf(r, n) \notin settled => ContractStatus(r, n) = "unborn"
         /\ \A u \in updates :
               ~Active(r, n) /\ u.obligation = IdOf(r, n) => ContractStatus(r, n) = u.outcome
         /\ (/\ ~Active(r, n) /\ IdOf(r, n) \in settled
             /\ \A u \in updates : u.obligation # IdOf(r, n))
               => ContractStatus(r, n) = "retired"
  <1>. DEFINE o == IdOf(r, n)
              chosen == CHOOSE u \in updates : u.obligation = o
  <1>1. ASSUME NEW u \in updates, u.obligation = o
        PROVE  chosen = u /\ o \in settled
    <2>1. chosen \in updates /\ chosen.obligation = o
      BY <1>1
    <2>. HIDE DEF chosen
    <2>. QED  BY <1>1, <2>1 DEF SettledOnce
  <1>2. ContractStatus(r, n) =
           IF Active(r, n) THEN "active"
           ELSE IF o \notin settled THEN "unborn"
           ELSE IF \E u \in updates : u.obligation = o THEN chosen.outcome ELSE "retired"
    BY DEF ContractStatus, Active
  <1>. HIDE DEF o, chosen
  <1>. QED  BY <1>1, <1>2 DEF o

LEMMA StatusValueNext ==
  ASSUME SettledOnce', NEW r, NEW n
  PROVE  /\ Active(r, n)' => ContractStatus(r, n)' = "active"
         /\ ~Active(r, n)' /\ IdOf(r, n) \notin settled' => ContractStatus(r, n)' = "unborn"
         /\ \A u \in updates' :
               ~Active(r, n)' /\ u.obligation = IdOf(r, n) => ContractStatus(r, n)' = u.outcome
         /\ (/\ ~Active(r, n)' /\ IdOf(r, n) \in settled'
             /\ \A u \in updates' : u.obligation # IdOf(r, n))
               => ContractStatus(r, n)' = "retired"
  <1>. DEFINE o == IdOf(r, n)
              chosen == CHOOSE u \in updates' : u.obligation = o
  <1>1. ASSUME NEW u \in updates', u.obligation = o
        PROVE  chosen = u /\ o \in settled'
    <2>1. chosen \in updates' /\ chosen.obligation = o
      BY <1>1
    <2>. HIDE DEF chosen
    <2>. QED  BY <1>1, <2>1 DEF SettledOnce
  <1>2. ContractStatus(r, n)' =
           IF Active(r, n)' THEN "active"
           ELSE IF o \notin settled' THEN "unborn"
           ELSE IF \E u \in updates' : u.obligation = o THEN chosen.outcome ELSE "retired"
    BY DEF ContractStatus, Active, IdOf, TtftId, TbtId
  <1>. HIDE DEF o, chosen
  <1>. QED  BY <1>1, <1>2 DEF o

(* What leaves an obligation alone leaves its status. *)
LEMMA SameStatus ==
  ASSUME SettledOnce, SettledOnce', NEW r, NEW n,
         Active(r, n)' <=> Active(r, n),
         IdOf(r, n) \in settled' <=> IdOf(r, n) \in settled,
         updates \subseteq updates',
         \A u \in updates' \ updates : u.obligation # IdOf(r, n)
  PROVE  ContractStatus(r, n)' = ContractStatus(r, n)
  <1>1. CASE Active(r, n)
    BY <1>1, StatusValue, StatusValueNext
  <1>2. CASE ~Active(r, n) /\ IdOf(r, n) \notin settled
    BY <1>2, StatusValue, StatusValueNext
  <1>3. CASE ~Active(r, n) /\ \E u \in updates : u.obligation = IdOf(r, n)
    <2>1. PICK u \in updates : u.obligation = IdOf(r, n)
      BY <1>3
    <2>. QED  BY <1>3, <2>1, StatusValue, StatusValueNext
  <1>4. CASE /\ ~Active(r, n) /\ IdOf(r, n) \in settled
             /\ ~\E u \in updates : u.obligation = IdOf(r, n)
    BY <1>4, StatusValue, StatusValueNext
  <1>. QED  BY <1>1, <1>2, <1>3, <1>4

(* The contract sees a miss of a live request just if it lost its Goodput. *)
LEMMA MissStatus ==
  ASSUME IsFiniteSet(Events), RefinementInv, NEW r \in Live
  PROVE  requests[r].goodput_eligible <=>
            \A m \in Numbers : ContractStatus(r, m) # "miss"
  <1>1. SettledOnce /\ (requests[r].goodput_eligible <=> MissesOf(r) = {})
    BY DEF RefinementInv, LedgerInv, GoodputIsFirstMiss
  <1>2. ASSUME NEW u \in MissesOf(r)
        PROVE  \E m \in Numbers : ContractStatus(r, m) = "miss"
    <2>1. u \in updates /\ u.outcome = "miss" /\ u.obligation[1] = r /\ u.obligation \in settled
      BY <1>1, <1>2 DEF MissesOf, SettledOnce
    <2>2. PICK m \in Numbers : u.obligation = IdOf(r, m)
      BY <2>1 DEF RefinementInv, Numbered
    <2>3. ~Active(r, m)
      BY <2>1, <2>2, ChainFacts DEF Active
    <2>. QED  BY <1>1, <2>1, <2>2, <2>3, StatusValue
  <1>3. ASSUME NEW m \in Numbers, ContractStatus(r, m) = "miss"
        PROVE  MissesOf(r) # {}
    <2>1. PICK u \in updates : u.obligation = IdOf(r, m)
      <3>1. ~Active(r, m) /\ IdOf(r, m) \in settled
        BY <1>1, <1>3, StatusValue
      <3>. QED  BY <1>1, <1>3, <3>1, StatusValue
    <2>2. ~Active(r, m)
      BY <1>1, <1>3, StatusValue
    <2>3. u.outcome = "miss"
      BY <1>1, <1>3, <2>1, <2>2, StatusValue
    <2>. QED  BY <2>1, <2>3, IdOfFacts DEF MissesOf
  <1>. QED  BY <1>1, <1>2, <1>3

-----------------------------------------------------------------------------
(* Steps of the contract, request by request. *)
Before(r) == [n \in Numbers |-> ContractStatus(r, n)]

StepOf(r) == Contract!RequestStep(Before(r), Before(r)')

LEMMA StateIsBefore ==
  /\ ContractState = [r \in Requests |-> Before(r)]
  /\ ContractState' = [r \in Requests |-> Before(r)']
  BY DEF ContractState, Before, Numbers

LEMMA BeforeNext == \A r : Before(r)' = [n \in Numbers |-> ContractStatus(r, n)']
  BY DEF Before, Numbers

LEMMA StepsOfAll == (\A r \in Requests : StepOf(r)) => Contract!Next
  BY StateIsBefore DEF StepOf, Contract!Next

LEMMA SameStep ==
  ASSUME NEW r, \A n \in Numbers : ContractStatus(r, n)' = ContractStatus(r, n)
  PROVE  StepOf(r)
  <1>1. Before(r)' = Before(r)
    BY BeforeNext DEF Before
  <1>. QED  BY <1>1 DEF StepOf, Contract!RequestStep

(* The end of an open obligation: how it is settled, and that it may be.     *)
LEMMA MaySettleOpen ==
  ASSUME IsFiniteSet(Events), RefinementInv, LedgerInv', NEW r \in Live, NEW k \in Numbers,
         ActiveIds(r) = {IdOf(r, k)}, ~Active(r, k)', IdOf(r, k) \in settled',
         \A u \in updates' \ updates : u.obligation = IdOf(r, k) =>
            /\ u.outcome \in Outcomes
            /\ u.outcome # "cancelled" => requests[r].goodput_eligible,
         \/ ~requests[r].goodput_eligible
         \/ \E u \in updates' : u.obligation = IdOf(r, k)
  PROVE  Contract!MaySettle(Before(r), k, ContractStatus(r, k)')
  <1>. DEFINE s == Before(r)
              v == ContractStatus(r, k)'
  <1>1. SettledOnce /\ SettledOnce'
    BY DEF RefinementInv, LedgerInv
  <1>2. IdOf(r, k) \notin settled
    BY ChainFacts
  <1>3. s[k] = "active"
    BY <1>1, StatusValue DEF Active, Before
  <1>4. \A u \in updates : u.obligation # IdOf(r, k)
    BY <1>1, <1>2 DEF SettledOnce
  <1>5. \/ v = "retired" /\ ~requests[r].goodput_eligible
        \/ v \in Outcomes /\ (v # "cancelled" => requests[r].goodput_eligible)
    <2>1. CASE \E u \in updates' : u.obligation = IdOf(r, k)
      <3>1. PICK u \in updates' : u.obligation = IdOf(r, k)
        BY <2>1
      <3>2. v = u.outcome
        BY <1>1, <3>1, StatusValueNext
      <3>. QED  BY <1>4, <3>1, <3>2
    <2>2. CASE ~\E u \in updates' : u.obligation = IdOf(r, k)
      BY <1>1, <2>2, StatusValueNext
    <2>. QED  BY <2>1, <2>2
  <1>6. requests[r].goodput_eligible <=> \A m \in Numbers : s[m] # "miss"
    BY MissStatus DEF Before
  <1>. HIDE DEF s, v
  <1>7. Contract!MaySettle(s, k, v)
    BY <1>3, <1>5, <1>6 DEF Contract!MaySettle, Contract!Settled, Contract!Verdicts, Outcomes
  <1>. QED  BY <1>7 DEF s, v

LEMMA SettleStep ==
  ASSUME NEW r, NEW k \in Numbers,
         Contract!MaySettle(Before(r), k, ContractStatus(r, k)'),
         \A n \in Numbers \ {k} : ContractStatus(r, n)' = ContractStatus(r, n)
  PROVE  StepOf(r)
  <1>. DEFINE v == ContractStatus(r, k)'
  <1>1. Before(r)' = [Before(r) EXCEPT ![k] = v]
    BY BeforeNext DEF Before
  <1>2. v \in Contract!Settled
    BY DEF Contract!MaySettle
  <1>3. Contract!Settles(Before(r), Before(r)')
    BY <1>1, <1>2 DEF Contract!Settles
  <1>. QED  BY <1>3 DEF StepOf, Contract!RequestStep

(* What happens to one request is not seen in the chain of another. *)
LEMMA OtherStep ==
  ASSUME RefinementInv, LedgerInv', NEW x,
         x \in Live' <=> x \in Live,
         x \in Live => ActiveIds(x)' = ActiveIds(x),
         settled \subseteq settled', updates \subseteq updates',
         \A o \in settled' \ settled : o[1] # x,
         \A u \in updates' \ updates : u.obligation[1] # x
  PROVE  StepOf(x)
  <1>1. SettledOnce /\ SettledOnce'
    BY DEF RefinementInv, LedgerInv
  <1>2. \A n : Active(x, n)' <=> Active(x, n)
    BY DEF Active, IdOf, TtftId, TbtId
  <1>3. \A n : IdOf(x, n) \in settled' <=> IdOf(x, n) \in settled
    BY IdOfFacts
  <1>4. \A n : \A u \in updates' \ updates : u.obligation # IdOf(x, n)
    BY IdOfFacts
  <1>5. \A n : ContractStatus(x, n)' = ContractStatus(x, n)
    BY <1>1, <1>2, <1>3, <1>4, SameStatus
  <1>. QED  BY <1>5, SameStep

LEMMA RegisterStep ==
  ASSUME ReuseIds = FALSE, IsFiniteSet(Events), RefinementInv, LedgerInv',
         NEW r \in Requests, NEW arrival_time \in 0..now, RegisterRequest(r, arrival_time)
  PROVE  \A x \in Requests : StepOf(x)
  <1>1. /\ r \notin Live /\ Live' = Live \cup {r}
        /\ \A x \in Live : requests'[x] = requests[x] /\ ActiveIds(x)' = ActiveIds(x)
        /\ ActiveIds(r)' = {IdOf(r, 0)}
        /\ \A o \in settled : o[1] # r
        /\ UNCHANGED <<settled, updates>>
    BY RegisterEffect DEF RefinementInv
  <1>2. SettledOnce /\ SettledOnce'
    BY DEF RefinementInv, LedgerInv
  <1>3. ASSUME NEW x \in Requests \ {r} PROVE StepOf(x)
    BY <1>1, OtherStep
  <1>4. 0 \in Numbers /\ \A n \in Numbers : n \in Nat
    BY NumbersFacts
  <1>5. \A n \in Numbers : IdOf(r, n) \notin settled /\ ~Active(r, n)
    BY <1>1, IdOfFacts DEF Active
  <1>6. \A n \in Numbers : Before(r)[n] = "unborn"
    BY <1>2, <1>5, StatusValue DEF Before
  <1>7. ContractStatus(r, 0)' = "active"
    <2>1. Active(r, 0)'
      BY <1>1 DEF Active, IdOf, TtftId, TbtId
    <2>. QED  BY <1>2, <2>1, StatusValueNext
  <1>8. \A n \in Numbers \ {0} : ContractStatus(r, n)' = ContractStatus(r, n)
    <2>. SUFFICES ASSUME NEW n \in Numbers \ {0}
                  PROVE  ContractStatus(r, n)' = ContractStatus(r, n)
      OBVIOUS
    <2>1. IdOf(r, n) # IdOf(r, 0)
      BY <1>4, IdOfFacts
    <2>2. ~Active(r, n)'
      BY <1>1, <2>1 DEF Active, IdOf, TtftId, TbtId
    <2>. QED  BY <1>1, <1>2, <1>5, <2>2, SameStatus
  <1>9. Before(r)' = [Before(r) EXCEPT ![0] = "active"]
    BY <1>7, <1>8, BeforeNext DEF Before
  <1>10. Contract!MayOpen(Before(r), 0)
    BY <1>4, <1>6 DEF Contract!MayOpen
  <1>11. Contract!Opens(Before(r), Before(r)')
    BY <1>4, <1>9, <1>10 DEF Contract!Opens
  <1>12. StepOf(r)
    BY <1>11 DEF StepOf, Contract!RequestStep
  <1>. QED  BY <1>3, <1>12

(* How the contract sees the obligations before the newest one of a live     *)
(* request, and those not yet opened.                                        *)
LEMMA ChainStatus ==
  ASSUME IsFiniteSet(Events), RefinementInv, NEW r \in Live, NEW n \in Numbers
  PROVE  /\ n < requests[r].tbt_sequence \/ (n = requests[r].tbt_sequence /\ ActiveIds(r) = {})
              => ContractStatus(r, n) \in Contract!Settled \ {"cancelled"}
         /\ n > requests[r].tbt_sequence => ContractStatus(r, n) = "unborn"
         /\ Active(r, n) => n = requests[r].tbt_sequence
  <1>. DEFINE k == requests[r].tbt_sequence
  <1>1. /\ SettledOnce /\ n \in Nat /\ k \in Nat
        /\ Chain(r)
        /\ ActiveIds(r) \subseteq {IdOf(r, k)}
        /\ \A u \in updates : u.outcome \in Outcomes
    BY ChainFacts, NumbersFacts
    DEF RefinementInv, Chained, LedgerInv, TypeOK, Updates, Chain
  <1>2. Active(r, n) => n = k
    BY <1>1, IdOfFacts DEF Active
  <1>3. ASSUME n < k \/ (n = k /\ ActiveIds(r) = {})
        PROVE  ContractStatus(r, n) \in Contract!Settled \ {"cancelled"}
    <2>1. IdOf(r, n) \in settled /\ ~Active(r, n)
      BY <1>1, <1>2, <1>3 DEF Chain, Active
    <2>2. CASE \E u \in updates : u.obligation = IdOf(r, n)
      <3>1. PICK u \in updates : u.obligation = IdOf(r, n)
        BY <2>2
      <3>2. u.outcome \in Outcomes /\ u.outcome # "cancelled"
        BY <1>1, <3>1, IdOfFacts DEF RefinementInv, CancelledAtEnd
      <3>3. ContractStatus(r, n) = u.outcome
        BY <1>1, <2>1, <3>1, StatusValue
      <3>. QED  BY <3>2, <3>3 DEF Contract!Settled, Contract!Verdicts, Outcomes
    <2>3. CASE ~\E u \in updates : u.obligation = IdOf(r, n)
      <3>1. ContractStatus(r, n) = "retired"
        BY <1>1, <2>1, <2>3, StatusValue
      <3>. QED  BY <3>1 DEF Contract!Settled, Contract!Verdicts
    <2>. QED  BY <2>2, <2>3
  <1>4. ASSUME n > k PROVE ContractStatus(r, n) = "unborn"
    <2>1. IdOf(r, n) \notin settled /\ ~Active(r, n)
      BY <1>1, <1>2, <1>4 DEF Chain
    <2>. QED  BY <1>1, <2>1, StatusValue
  <1>. QED  BY <1>2, <1>3, <1>4

LEMMA TokenStep ==
  ASSUME ReuseIds = FALSE, IsFiniteSet(Events), RefinementInv, LedgerInv',
         NEW e \in Events, NEW r \in Requests, ReturnToken(e, r)
  PROVE  \A x \in Requests : StepOf(x)
  <1>0. PICK k \in Nat : k = requests[r].tbt_sequence
    <2>1. requests[r].tbt_sequence \in Nat
      BY TokenEffect DEF RefinementInv
    <2>. QED  BY <2>1
  <1>1. /\ r \in Live /\ Live' = Live
        /\ \A x \in Live \ {r} : ActiveIds(x)' = ActiveIds(x)
        /\ ActiveIds(r)' = {IdOf(r, k + 1)}
        /\ settled' = settled \cup ActiveIds(r)
        /\ updates' = updates \cup TokenVerdicts(r, requests[r])
        /\ e \notin seen_event_ids
    BY <1>0, TokenEffect DEF RefinementInv
  <1>2. SettledOnce /\ SettledOnce'
    BY DEF RefinementInv, LedgerInv
  <1>3. \A o \in ActiveIds(r) : o[1] = r
    BY <1>1, OpenIdsInv DEF RefinementInv
  <1>4. \A u \in TokenVerdicts(r, requests[r]) :
           /\ requests[r].goodput_eligible
           /\ u.obligation \in ActiveIds(r) /\ u.obligation[1] = r
           /\ u.outcome \in {"success", "miss"}
    BY <1>1, VerdictFacts
  <1>5. ASSUME NEW x \in Requests \ {r} PROVE StepOf(x)
    BY <1>1, <1>3, <1>4, OtherStep
  <1>6. /\ k \in Numbers /\ k + 1 \in Numbers
        /\ \A n \in Numbers : n \in Nat
    <2>1. /\ Cardinality(seen_event_ids) \in Nat
          /\ Cardinality(seen_event_ids) + 1 <= Cardinality(Events)
      BY <1>1, SeenCount DEF RefinementInv, LedgerInv, TypeOK
    <2>2. k <= Cardinality(seen_event_ids)
      BY <1>0, <1>1 DEF RefinementInv, WithinEvents
    <2>. QED  BY <1>1, <2>1, <2>2, NumbersFacts
  <1>7. ActiveIds(r) = {} \/ ActiveIds(r) = {IdOf(r, k)}
    BY <1>0, <1>1, ChainFacts
  <1>8. ContractStatus(r, k + 1)' = "active" /\ ContractStatus(r, k + 1) = "unborn"
    <2>1. Active(r, k + 1)'
      BY <1>1 DEF Active, IdOf, TtftId, TbtId
    <2>2. ContractStatus(r, k + 1)' = "active"
      BY <1>2, <2>1, StatusValueNext
    <2>3. k + 1 > k
      BY <1>1
    <2>. QED  BY <1>0, <1>1, <1>6, <2>2, <2>3, ChainStatus
  <1>9. \A n \in Numbers \ {k + 1} : ~Active(r, n)'
    <2>1. \A n \in Numbers \ {k + 1} : IdOf(r, n) # IdOf(r, k + 1)
      BY <1>6, IdOfFacts
    <2>. QED  BY <1>1, <2>1 DEF Active, IdOf, TtftId, TbtId
  <1>10. \A n \in Numbers \ {k, k + 1} : ContractStatus(r, n)' = ContractStatus(r, n)
    <2>. SUFFICES ASSUME NEW n \in Numbers \ {k, k + 1}
                  PROVE  ContractStatus(r, n)' = ContractStatus(r, n)
      OBVIOUS
    <2>1. IdOf(r, n) # IdOf(r, k)
      BY <1>6, IdOfFacts
    <2>2. ~Active(r, n)
      BY <1>0, <1>1, ChainStatus
    <2>3. IdOf(r, n) \notin ActiveIds(r)
      BY <1>7, <2>1
    <2>. QED  BY <1>1, <1>2, <1>4, <1>9, <2>2, <2>3, SameStatus
  <1>11. CASE ActiveIds(r) = {}
    <2>1. ContractStatus(r, k)' = ContractStatus(r, k)
      <3>1. ~Active(r, k)
        BY <1>11 DEF Active
      <3>2. ~Active(r, k)'
        BY <1>1, <1>6, <1>9
      <3>. QED  BY <1>1, <1>2, <1>4, <1>11, <3>1, <3>2, SameStatus
    <2>2. Before(r)' = [Before(r) EXCEPT ![k + 1] = "active"]
      BY <1>8, <1>10, <2>1, BeforeNext DEF Before
    <2>3. \A m \in Numbers : m < k + 1 => Before(r)[m] \in Contract!Settled \ {"cancelled"}
      <3>1. \A m \in Numbers : m < k + 1 => m < k \/ m = k
        BY <1>1, <1>6
      <3>. QED  BY <1>0, <1>1, <1>11, <3>1, ChainStatus DEF Before
    <2>4. Contract!MayOpen(Before(r), k + 1)
      BY <1>6, <1>8, <2>3 DEF Contract!MayOpen, Before
    <2>5. Contract!Opens(Before(r), Before(r)')
      BY <1>6, <2>2, <2>4 DEF Contract!Opens
    <2>. QED  BY <1>5, <2>5 DEF StepOf, Contract!RequestStep
  <1>12. CASE ActiveIds(r) = {IdOf(r, k)}
    <2>. DEFINE v == ContractStatus(r, k)'
    <2>1. ~Active(r, k)' /\ IdOf(r, k) \in settled'
      BY <1>1, <1>6, <1>9, <1>12
    <2>2. \/ ~requests[r].goodput_eligible
          \/ \E u \in updates' : u.obligation = IdOf(r, k)
      <3>1. requests[r].goodput_eligible => TokenVerdicts(r, requests[r]) # {}
        <4>1. TokenSettles(r, requests[r]) # {}
          BY <1>1, <1>12, ChainFacts
        <4>. QED  BY <4>1 DEF TokenVerdicts
      <3>. QED  BY <1>1, <1>4, <1>12, <3>1
    <2>3. Contract!MaySettle(Before(r), k, v)
      <3>1. \A u \in updates' \ updates : u.outcome \in Outcomes /\ requests[r].goodput_eligible
        BY <1>1, <1>4 DEF Outcomes
      <3>. QED  BY <1>1, <1>6, <1>12, <2>1, <2>2, <3>1, MaySettleOpen
    <2>4. v # "cancelled"
      <3>1. \A u \in updates : u.obligation # IdOf(r, k)
        BY <1>1, <1>2, <1>12, ChainFacts DEF SettledOnce
      <3>2. CASE \E u \in updates' : u.obligation = IdOf(r, k)
        <4>1. PICK u \in updates' : u.obligation = IdOf(r, k)
          BY <3>2
        <4>2. v = u.outcome
          BY <1>2, <2>1, <4>1, StatusValueNext
        <4>. QED  BY <1>1, <1>4, <3>1, <4>1, <4>2
      <3>3. CASE ~\E u \in updates' : u.obligation = IdOf(r, k)
        BY <1>2, <2>1, <3>3, StatusValueNext
      <3>. QED  BY <3>2, <3>3
    <2>5. Before(r)' = [Before(r) EXCEPT ![k] = v, ![k + 1] = "active"]
      BY <1>1, <1>8, <1>10, BeforeNext DEF Before
    <2>6. v \in Contract!Settled \ {"cancelled"}
      BY <2>3, <2>4 DEF Contract!MaySettle
    <2>7. Contract!SettlesAndOpens(Before(r), Before(r)')
      <3>1. Before(r)[k + 1] = "unborn"
        BY <1>6, <1>8 DEF Before
      <3>. HIDE DEF v
      <3>. QED  BY <1>6, <2>3, <2>5, <2>6, <3>1 DEF Contract!SettlesAndOpens
    <2>. QED  BY <1>5, <2>7 DEF StepOf, Contract!RequestStep
  <1>. QED  BY <1>7, <1>11, <1>12

(* A request closes what it has open, by expiry or by its end, and opens      *)
(* nothing: the contract settles one obligation, or sees nothing.            *)
LEMMA ClosingStep ==
  ASSUME IsFiniteSet(Events), RefinementInv, LedgerInv', NEW r \in Live,
         r \in Live' => ActiveIds(r)' = {},
         settled \subseteq settled', updates \subseteq updates',
         ActiveIds(r) \subseteq settled',
         \A o \in settled' \ settled : o[1] = r => o \in ActiveIds(r),
         \A u \in updates' \ updates : u.obligation[1] = r =>
            /\ u.obligation \in ActiveIds(r) /\ u.outcome \in Outcomes
            /\ u.outcome # "cancelled" => requests[r].goodput_eligible,
         \/ ~requests[r].goodput_eligible
         \/ \A o \in ActiveIds(r) : \E u \in updates' : u.obligation = o
  PROVE  StepOf(r)
  <1>1. SettledOnce /\ SettledOnce'
    BY DEF RefinementInv, LedgerInv
  <1>2. PICK k \in Nat : k = requests[r].tbt_sequence
    BY ChainFacts
  <1>3. ActiveIds(r) = {} \/ ActiveIds(r) = {IdOf(r, k)}
    BY <1>2, ChainFacts
  <1>4. k \in Numbers /\ \A n \in Numbers : n \in Nat
    <2>1. /\ Cardinality(seen_event_ids) \in Nat
          /\ Cardinality(seen_event_ids) <= Cardinality(Events)
      BY SeenCount DEF RefinementInv, LedgerInv, TypeOK
    <2>2. k <= Cardinality(seen_event_ids)
      BY <1>2 DEF RefinementInv, WithinEvents
    <2>. QED  BY <2>1, <2>2, NumbersFacts
  <1>5. \A n : ~Active(r, n)'
    <2>. SUFFICES ASSUME NEW n, Active(r, n)' PROVE FALSE
      OBVIOUS
    <2>. QED  BY DEF Active
  <1>6. ASSUME NEW n \in Numbers, IdOf(r, n) \notin ActiveIds(r)
        PROVE  ContractStatus(r, n)' = ContractStatus(r, n)
    <2>1. ~Active(r, n)
      BY <1>6 DEF Active
    <2>2. IdOf(r, n) \in settled' <=> IdOf(r, n) \in settled
      BY <1>6, IdOfFacts
    <2>3. \A u \in updates' \ updates : u.obligation # IdOf(r, n)
      BY <1>6, IdOfFacts
    <2>. QED  BY <1>1, <1>5, <2>1, <2>2, <2>3, SameStatus
  <1>7. CASE ActiveIds(r) = {}
    BY <1>6, <1>7, SameStep
  <1>8. CASE ActiveIds(r) = {IdOf(r, k)}
    <2>1. \A n \in Numbers \ {k} : IdOf(r, n) \notin ActiveIds(r)
      <3>1. \A n \in Numbers \ {k} : IdOf(r, n) # IdOf(r, k)
        BY <1>4, IdOfFacts
      <3>. QED  BY <1>8, <3>1
    <2>2. \A u \in updates' \ updates : u.obligation = IdOf(r, k) =>
             /\ u.outcome \in Outcomes
             /\ u.outcome # "cancelled" => requests[r].goodput_eligible
      BY IdOfFacts
    <2>3. \/ ~requests[r].goodput_eligible
          \/ \E u \in updates' : u.obligation = IdOf(r, k)
      BY <1>8
    <2>4. ~Active(r, k)' /\ IdOf(r, k) \in settled'
      BY <1>5, <1>8
    <2>5. Contract!MaySettle(Before(r), k, ContractStatus(r, k)')
      BY <1>4, <1>8, <2>2, <2>3, <2>4, MaySettleOpen
    <2>. QED  BY <1>4, <1>6, <2>1, <2>5, SettleStep
  <1>. QED  BY <1>3, <1>7, <1>8

LEMMA TerminateStep ==
  ASSUME IsFiniteSet(Events), RefinementInv, LedgerInv',
         NEW e \in Events, NEW r \in Requests, NEW n \in {0, 1}, NEW reason \in Reasons,
         Terminate(e, r, n, reason)
  PROVE  \A x \in Requests : StepOf(x)
  <1>1. /\ r \in Live /\ Live' = Live \ {r}
        /\ \A x \in Live' : requests'[x] = requests[x] /\ ActiveIds(x)' = ActiveIds(x)
        /\ settled' = settled \cup ActiveIds(r)
        /\ updates' = updates \cup Endings(r, n)
    BY TerminateEffect DEF RefinementInv
  <1>2. \A o \in ActiveIds(r) : o[1] = r
    BY <1>1, OpenIdsInv DEF RefinementInv
  <1>3. \A u \in Endings(r, n) :
           /\ u.obligation \in ActiveIds(r) /\ u.obligation[1] = r
           /\ u.outcome \in Outcomes
           /\ u.outcome # "cancelled" => requests[r].goodput_eligible
    BY <1>1, EndingFacts
  <1>4. ASSUME NEW x \in Requests \ {r} PROVE StepOf(x)
    BY <1>1, <1>2, <1>3, OtherStep
  <1>5. \/ ~requests[r].goodput_eligible
        \/ \A o \in ActiveIds(r) : \E u \in updates' : u.obligation = o
    <2>. SUFFICES ASSUME requests[r].goodput_eligible, NEW o \in ActiveIds(r)
                  PROVE  \E u \in updates' : u.obligation = o
      OBVIOUS
    <2>1. \A v : Counted(o, v).obligation = o
      BY DEF Counted
    <2>2. \E v : Counted(o, v) \in Endings(r, n)
      <3>1. CASE n = 0
        BY <3>1 DEF Endings
      <3>2. CASE n = 1
        <4>1. o \in TokenSettles(r, requests[r])
          BY <1>1, ChainFacts
        <4>. QED  BY <3>2, <4>1 DEF Endings, TokenVerdicts
      <3>. QED  BY <3>1, <3>2
    <2>. QED  BY <1>1, <2>1, <2>2
  <1>6. StepOf(r)
    BY <1>1, <1>2, <1>3, <1>5, ClosingStep
  <1>. QED  BY <1>4, <1>6

LEMMA ExpireStep ==
  ASSUME IsFiniteSet(Events), RefinementInv, LedgerInv', ExpireDeadlines
  PROVE  \A x \in Requests : StepOf(x)
  <1>1. /\ Live' = Live
        /\ \A x \in Live : /\ DueIds(x) \subseteq ActiveIds(x)
                           /\ ActiveIds(x)' = ActiveIds(x) \ DueIds(x)
        /\ settled' = settled \cup UNION {DueIds(x) : x \in Live}
        /\ updates' = updates \cup UNION {ExpiryMisses(x) : x \in Live}
    BY ExpireEffect DEF RefinementInv
  <1>2. \A x \in Live : \A o \in DueIds(x) : o[1] = x
    BY <1>1, OpenIdsInv DEF RefinementInv
  <1>3. \A x \in Live : \A u \in ExpiryMisses(x) :
           /\ requests[x].goodput_eligible
           /\ u.obligation \in DueIds(x) /\ u.obligation[1] = x
           /\ u.outcome = "miss"
    BY ExpiryFacts
  <1>4. ASSUME NEW x \in Requests, x \in Live => DueIds(x) = {}
        PROVE  StepOf(x)
    <2>1. x \in Live => ActiveIds(x)' = ActiveIds(x)
      BY <1>1, <1>4
    <2>2. \A o \in settled' \ settled : o[1] # x
      BY <1>1, <1>2, <1>4
    <2>3. \A u \in updates' \ updates : u.obligation[1] # x
      BY <1>1, <1>3, <1>4
    <2>. QED  BY <1>1, <2>1, <2>2, <2>3, OtherStep
  <1>5. ASSUME NEW x \in Live, DueIds(x) # {}
        PROVE  StepOf(x)
    <2>1. DueIds(x) = ActiveIds(x)
      BY <1>1, <1>5, ChainFacts
    <2>2. ActiveIds(x)' = {}
      BY <1>1, <2>1
    <2>3. \A o \in settled' \ settled : o[1] = x => o \in ActiveIds(x)
      BY <1>1, <1>2
    <2>4. \A u \in updates' \ updates : u.obligation[1] = x =>
             /\ u.obligation \in ActiveIds(x) /\ u.outcome \in Outcomes
             /\ u.outcome # "cancelled" => requests[x].goodput_eligible
      BY <1>1, <1>3 DEF Outcomes
    <2>5. \/ ~requests[x].goodput_eligible
          \/ \A o \in ActiveIds(x) : \E u \in updates' : u.obligation = o
      <3>1. requests[x].goodput_eligible =>
               \A o \in ActiveIds(x) : Counted(o, "miss") \in ExpiryMisses(x)
        BY <2>1 DEF ExpiryMisses
      <3>2. \A o : Counted(o, "miss").obligation = o
        BY DEF Counted
      <3>. QED  BY <1>1, <3>1, <3>2
    <2>6. ActiveIds(x) \subseteq settled'
      BY <1>1, <2>1
    <2>. QED  BY <1>1, <2>2, <2>3, <2>4, <2>5, <2>6, ClosingStep
  <1>. QED  BY <1>4, <1>5

-----------------------------------------------------------------------------
(* Every step of the ledger is a step of its contract, or leaves it as it is. *)
LEMMA LedgerStep ==
  ASSUME ReuseIds = FALSE, IsFiniteSet(Events), RefinementInv, [Next]_vars
  PROVE  [Contract!Next]_ContractState
  <1>1. LedgerInv'
    BY InvNext DEF RefinementInv
  <1>2. CASE Tick \/ UNCHANGED vars
    <2>1. UNCHANGED <<requests, settled, updates>>
      BY <1>2 DEF Tick, vars
    <2>2. ContractState' = ContractState
      BY <2>1 DEF ContractState, ContractStatus, ActiveIds, Live, Numbers, IdOf, TtftId, TbtId
    <2>. QED  BY <2>2
  <1>3. CASE Register
    <2>1. \A x \in Requests : StepOf(x)
      BY <1>1, <1>3, RegisterStep DEF Register
    <2>. QED  BY <2>1, StepsOfAll
  <1>4. CASE Token
    <2>1. \A x \in Requests : StepOf(x)
      BY <1>1, <1>4, TokenStep DEF Token
    <2>. QED  BY <2>1, StepsOfAll
  <1>5. CASE EndOfRequest
    <2>1. \A x \in Requests : StepOf(x)
      BY <1>1, <1>5, TerminateStep DEF EndOfRequest
    <2>. QED  BY <2>1, StepsOfAll
  <1>6. CASE ExpireDeadlines
    BY <1>1, <1>6, ExpireStep, StepsOfAll
  <1>. QED  BY <1>2, <1>3, <1>4, <1>5, <1>6 DEF Next

LEMMA LedgerStart == Init => Contract!Init
  <1>. SUFFICES ASSUME Init PROVE Contract!Init
    OBVIOUS
  <1>1. SettledOnce
    BY InvInit DEF LedgerInv
  <1>2. \A r \in Requests, n \in Numbers : ContractStatus(r, n) = "unborn"
    <2>1. \A r, n : ~Active(r, n) /\ IdOf(r, n) \notin settled
      BY DEF Init, Active, Live
    <2>. QED  BY <1>1, <2>1, StatusValue
  <1>. QED  BY <1>2 DEF Contract!Init, ContractState

(* docs/experiment_plan.md:168, "Every TTFT/TBT obligation is created and     *)
(* settled exactly once": whatever the requests, the finitely many events,    *)
(* the SLOs and the interleaving of tokens, ends and expiry passes            *)
(* (state_store.py), a request opens its obligations in order, each after     *)
(* the one before it was settled, settles each once, and counts no verdict    *)
(* after its first miss.                                                      *)
THEOREM LedgerImplementsContract ==
  ASSUME ReuseIds = FALSE, IsFiniteSet(Events)
  PROVE  Spec => ImplementsContract
  <1>1. Init => RefinementInv /\ Contract!Init
    BY RefinementInit, LedgerStart
  <1>2. RefinementInv /\ [Next]_vars => RefinementInv'
    BY RefinementNext
  <1>3. RefinementInv /\ [Next]_vars => [Contract!Next]_ContractState
    BY LedgerStep
  <1>. QED  BY <1>1, <1>2, <1>3, PTL DEF Spec, Contract!Spec, ImplementsContract

-----------------------------------------------------------------------------
(* Every obligation the ledger knows: settled, or open for a live request. *)
Known == settled \cup UNION {ActiveIds(r) : r \in Live}

(* The books of the events, with the sets they count finite. *)
ConservedInv ==
  /\ IsFiniteSet(OpenedTbt)
  /\ IsFiniteSet(Terminations)
  /\ Cardinality(seen_event_ids) = Cardinality(OpenedTbt) + Cardinality(Terminations)

(* What was opened is what is known, the first tokens' obligations aside. *)
LEMMA OpenedIsKnown == OpenedTbt = {o \in Known : o[2] = "TBT"}
  <1>1. \A r, q : \A o \in TtftIds(r, q) : o[2] = "TTFT"
    BY IdFacts DEF TtftIds
  <1>2. \A r, q : \A o \in TbtIds(r, q) : o[2] = "TBT"
    BY IdFacts DEF TbtIds
  <1>3. \A r \in Live : \A o : o[2] = "TBT" =>
           (o \in ActiveIds(r) <=> o \in TbtIds(r, requests[r]))
    BY <1>1 DEF ActiveIds
  <1>4. \A o : o \in OpenedTbt <=> o \in Known /\ o[2] = "TBT"
    BY <1>2, <1>3 DEF OpenedTbt, Known
  <1>. QED  BY <1>4

LEMMA OpenedIsKnownNext == OpenedTbt' = {o \in Known' : o[2] = "TBT"}
  <1>1. \A r, q : \A o \in TtftIds(r, q) : o[2] = "TTFT"
    BY IdFacts DEF TtftIds
  <1>2. \A r, q : \A o \in TbtIds(r, q) : o[2] = "TBT"
    BY IdFacts DEF TbtIds
  <1>3. \A r \in Live' : \A o : o[2] = "TBT" =>
           (o \in ActiveIds(r)' <=> o \in TbtIds(r, requests'[r]))
    BY <1>1 DEF ActiveIds
  <1>4. \A o : o \in OpenedTbt' <=> o \in Known' /\ o[2] = "TBT"
    BY <1>2, <1>3 DEF OpenedTbt, Known
  <1>. QED  BY <1>4

(* Registration and expiry move no TBT obligation into or out of the books,  *)
(* and count no termination.                                                 *)
LEMMA BooksKeep ==
  ASSUME ConservedInv, UNCHANGED <<seen_event_ids, terminal_counts>>,
         \A o : o[2] = "TBT" => (o \in Known' <=> o \in Known)
  PROVE  ConservedInv'
  <1>1. OpenedTbt' = OpenedTbt
    BY OpenedIsKnown, OpenedIsKnownNext
  <1>2. Terminations' = Terminations
    BY DEF Terminations
  <1>. QED  BY <1>1, <1>2 DEF ConservedInv

(* A token opens one TBT obligation, whose number is new. *)
LEMMA ConservedToken ==
  ASSUME IsFiniteSet(Events), RefinementInv, ConservedInv,
         NEW e \in Events, NEW r \in Requests, ReturnToken(e, r)
  PROVE  ConservedInv'
  <1>0. seen_event_ids \subseteq Events
    BY DEF RefinementInv, LedgerInv, TypeOK
  <1>1. /\ r \in Live /\ Live' = Live
        /\ \A x \in Live \ {r} : ActiveIds(x)' = ActiveIds(x)
        /\ requests[r].tbt_sequence \in Nat
        /\ ActiveIds(r)' = {IdOf(r, requests[r].tbt_sequence + 1)}
        /\ settled' = settled \cup ActiveIds(r)
        /\ e \notin seen_event_ids /\ seen_event_ids' = seen_event_ids \cup {e}
    BY TokenEffect DEF RefinementInv
  <1>. DEFINE k == requests[r].tbt_sequence
              new == IdOf(r, k + 1)
  <1>2. k \in Nat /\ k + 1 \in Nat \ {0} /\ k + 1 > k
    BY <1>1
  <1>3. new = TbtId(r, k + 1) /\ new[1] = r /\ new[2] = "TBT"
    BY <1>2, IdOfFacts, IdFacts
  <1>4. new \notin settled
    BY <1>1, <1>2 DEF RefinementInv, Chained, Chain
  <1>5. \A x \in Live : new \notin ActiveIds(x)
    <2>1. new \notin ActiveIds(r)
      <3>1. new # IdOf(r, k)
        BY <1>2, IdOfFacts
      <3>. QED  BY <1>1, <3>1, ChainFacts
    <2>2. \A x \in Live \ {r} : \A o \in ActiveIds(x) : o[1] = x
      BY OpenIdsInv DEF RefinementInv
    <2>. QED  BY <1>3, <2>1, <2>2
  <1>. HIDE DEF new, k
  <1>6. Known' = Known \cup {new}
    <2>1. Known' = settled' \cup UNION {ActiveIds(x)' : x \in Live'}
      BY DEF Known
    <2>2. \A o : o \in Known' <=> o \in settled' \/ \E x \in Live' : o \in ActiveIds(x)'
      BY <2>1
    <2>3. \A o : o \in Known <=> o \in settled \/ \E x \in Live : o \in ActiveIds(x)
      BY DEF Known
    <2>4. ActiveIds(r)' = {new}
      BY <1>1 DEF new, k
    <2>5. \A o : o \in Known' <=> o \in Known \/ o = new
      BY <1>1, <2>2, <2>3, <2>4
    <2>. QED  BY <2>5
  <1>7. new \notin Known
    BY <1>4, <1>5 DEF Known
  <1>8. OpenedTbt' = OpenedTbt \cup {new} /\ new \notin OpenedTbt
    BY <1>3, <1>6, <1>7, OpenedIsKnown, OpenedIsKnownNext
  <1>9. /\ IsFiniteSet(OpenedTbt')
        /\ Cardinality(OpenedTbt') = Cardinality(OpenedTbt) + 1
    BY <1>8, FS_AddElement DEF ConservedInv
  <1>10. Cardinality(seen_event_ids') = Cardinality(seen_event_ids) + 1
    BY <1>0, <1>1, SeenCount
  <1>11. terminal_counts' = terminal_counts
    BY DEF ReturnToken
  <1>12. Terminations' = Terminations
    BY <1>11 DEF Terminations
  <1>13. Cardinality(OpenedTbt) \in Nat /\ Cardinality(Terminations) \in Nat
    BY FS_CardinalityType DEF ConservedInv
  <1>. QED  BY <1>9, <1>10, <1>12, <1>13 DEF ConservedInv

(* The end of a request opens nothing and counts one termination. *)
LEMMA ConservedTerminate ==
  ASSUME IsFiniteSet(Events), RefinementInv, LedgerInv', ConservedInv,
         NEW e \in Events, NEW r \in Requests, NEW n \in {0, 1}, NEW reason \in Reasons,
         Terminate(e, r, n, reason)
  PROVE  ConservedInv'
  <1>0. seen_event_ids \subseteq Events /\ terminal_counts \in [Reasons -> Nat]
    BY DEF RefinementInv, LedgerInv, TypeOK
  <1>1. /\ r \in Live /\ Live' = Live \ {r}
        /\ \A x \in Live' : ActiveIds(x)' = ActiveIds(x)
        /\ settled' = settled \cup ActiveIds(r)
        /\ e \notin seen_event_ids /\ seen_event_ids' = seen_event_ids \cup {e}
    BY TerminateEffect DEF RefinementInv
  <1>2. \A o : o \in Known' <=> o \in Known
    <2>1. Known' = settled' \cup UNION {ActiveIds(x)' : x \in Live'}
      BY DEF Known
    <2>2. \A o : o \in Known' <=> o \in settled' \/ \E x \in Live' : o \in ActiveIds(x)'
      BY <2>1
    <2>3. \A o : o \in Known <=> o \in settled \/ \E x \in Live : o \in ActiveIds(x)
      BY DEF Known
    <2>. QED  BY <1>1, <2>2, <2>3
  <1>3. OpenedTbt' = OpenedTbt
    BY <1>2, OpenedIsKnown, OpenedIsKnownNext
  <1>4. terminal_counts' = [terminal_counts EXCEPT ![reason] = @ + 1]
    <2>1. fault' = "none"
      BY DEF LedgerInv, NeverRaises
    <2>. QED  BY <2>1 DEF Terminate
  <1>. DEFINE c == terminal_counts[reason]
  <1>5. c \in Nat
    BY <1>0
  <1>6. 1..(c + 1) = (1..c) \cup {c + 1} /\ c + 1 \notin 1..c
    BY <1>5
  <1>7. Terminations' = Terminations \cup {<<reason, c + 1>>}
    <2>1. \A x \in Reasons \ {reason} : terminal_counts'[x] = terminal_counts[x]
      BY <1>0, <1>4
    <2>2. terminal_counts'[reason] = c + 1
      BY <1>0, <1>4
    <2>3. \A p : p \in Terminations <=>
                    \E x \in Reasons : \E i \in 1..terminal_counts[x] : p = <<x, i>>
      BY DEF Terminations
    <2>4. \A p : p \in Terminations' <=>
                    \E x \in Reasons : \E i \in 1..terminal_counts'[x] : p = <<x, i>>
      BY DEF Terminations
    <2>5. \A x \in Reasons \ {reason} : 1..terminal_counts'[x] = 1..terminal_counts[x]
      BY <2>1
    <2>6. 1..terminal_counts'[reason] = (1..terminal_counts[reason]) \cup {c + 1}
      BY <1>6, <2>2
    <2>. HIDE DEF c
    <2>7. \A p : p \in Terminations' <=> p \in Terminations \/ p = <<reason, c + 1>>
      BY <2>3, <2>4, <2>5, <2>6
    <2>. QED  BY <2>7
  <1>8. <<reason, c + 1>> \notin Terminations
    BY <1>6 DEF Terminations
  <1>. HIDE DEF c
  <1>9. /\ IsFiniteSet(Terminations')
        /\ Cardinality(Terminations') = Cardinality(Terminations) + 1
    BY <1>7, <1>8, FS_AddElement DEF ConservedInv
  <1>10. Cardinality(seen_event_ids') = Cardinality(seen_event_ids) + 1
    BY <1>0, <1>1, SeenCount
  <1>11. Cardinality(OpenedTbt) \in Nat /\ Cardinality(Terminations) \in Nat
    BY FS_CardinalityType DEF ConservedInv
  <1>. QED  BY <1>3, <1>9, <1>10, <1>11 DEF ConservedInv

LEMMA ConservedInit == Init => ConservedInv
  <1>. SUFFICES ASSUME Init PROVE ConservedInv
    OBVIOUS
  <1>1. OpenedTbt = {}
    BY DEF Init, OpenedTbt, Live
  <1>2. \A reason \in Reasons : 1..terminal_counts[reason] = {}
    BY DEF Init
  <1>3. Terminations = {}
    BY <1>2 DEF Terminations
  <1>4. seen_event_ids = {}
    BY DEF Init
  <1>. QED  BY <1>1, <1>3, <1>4, FS_EmptySet DEF ConservedInv

LEMMA ConservedNext ==
  ASSUME ReuseIds = FALSE, IsFiniteSet(Events), RefinementInv, ConservedInv, [Next]_vars
  PROVE  ConservedInv'
  <1>1. LedgerInv'
    BY InvNext DEF RefinementInv
  <1>2. CASE Tick \/ UNCHANGED vars
    <2>1. UNCHANGED <<requests, settled, seen_event_ids, terminal_counts>>
      BY <1>2 DEF Tick, vars
    <2>2. Known' = Known
      BY <2>1 DEF Known, ActiveIds, Live
    <2>. QED  BY <2>1, <2>2, BooksKeep
  <1>3. ASSUME NEW r \in Requests, NEW arrival_time \in 0..now,
               RegisterRequest(r, arrival_time)
        PROVE  ConservedInv'
    <2>1. /\ Live' = Live \cup {r} /\ r \notin Live
          /\ \A x \in Live : ActiveIds(x)' = ActiveIds(x)
          /\ ActiveIds(r)' = {IdOf(r, 0)}
          /\ UNCHANGED <<settled, seen_event_ids>>
      BY <1>3, RegisterEffect DEF RefinementInv
    <2>2. IdOf(r, 0)[2] = "TTFT"
      BY IdOfFacts, IdFacts
    <2>3. Known' = settled' \cup UNION {ActiveIds(x)' : x \in Live'}
      BY DEF Known
    <2>4. \A o : o \in Known' <=> o \in settled' \/ \E x \in Live' : o \in ActiveIds(x)'
      BY <2>3
    <2>5. \A o : o \in Known <=> o \in settled \/ \E x \in Live : o \in ActiveIds(x)
      BY DEF Known
    <2>6. \A o : o[2] = "TBT" => (o \in Known' <=> o \in Known)
      BY <2>1, <2>2, <2>4, <2>5
    <2>7. UNCHANGED terminal_counts
      BY <1>3 DEF RegisterRequest
    <2>. QED  BY <2>1, <2>6, <2>7, BooksKeep
  <1>4. CASE Token
    BY <1>4, ConservedToken DEF Token
  <1>5. CASE EndOfRequest
    BY <1>1, <1>5, ConservedTerminate DEF EndOfRequest
  <1>6. CASE ExpireDeadlines
    <2>1. /\ Live' = Live
          /\ \A x \in Live : /\ DueIds(x) \subseteq ActiveIds(x)
                             /\ ActiveIds(x)' = ActiveIds(x) \ DueIds(x)
          /\ settled' = settled \cup UNION {DueIds(x) : x \in Live}
          /\ UNCHANGED seen_event_ids
      BY <1>6, ExpireEffect DEF RefinementInv
    <2>2. Known' = settled' \cup UNION {ActiveIds(x)' : x \in Live'}
      BY DEF Known
    <2>3. \A o : o \in Known' <=> o \in settled' \/ \E x \in Live' : o \in ActiveIds(x)'
      BY <2>2
    <2>4. \A o : o \in Known <=> o \in settled \/ \E x \in Live : o \in ActiveIds(x)
      BY DEF Known
    <2>5. \A o : o \in Known' <=> o \in Known
      BY <2>1, <2>3, <2>4
    <2>6. UNCHANGED terminal_counts
      BY <1>6 DEF ExpireDeadlines
    <2>. QED  BY <2>1, <2>5, <2>6, BooksKeep
  <1>. QED  BY <1>2, <1>3, <1>4, <1>5, <1>6 DEF Next, Register

(* observe_output applies each of the adapter's events exactly once: whatever *)
(* the interleaving, every event seen opened one TBT obligation under a       *)
(* number of its own or ended a request, and none did both or was lost.       *)
THEOREM EventsAppliedOnce ==
  ASSUME ReuseIds = FALSE, IsFiniteSet(Events)
  PROVE  Spec => []EventsConserved
  <1>1. Init => RefinementInv /\ ConservedInv
    BY RefinementInit, ConservedInit
  <1>2. RefinementInv /\ ConservedInv /\ [Next]_vars => RefinementInv' /\ ConservedInv'
    BY RefinementNext, ConservedNext
  <1>3. ConservedInv => EventsConserved
    BY DEF ConservedInv, EventsConserved
  <1>. QED  BY <1>1, <1>2, <1>3, PTL DEF Spec
=============================================================================
