--------------------------- MODULE ObligationContract ---------------------------
(***************************************************************************)
(* What the obligation ledger promises, without saying how.                *)
(*                                                                         *)
(* A request owns a chain of latency obligations: number 0 is its TTFT     *)
(* (time to first token), number n > 0 the TBT (time between tokens) that  *)
(* its n-th nonterminal token opens.  The contract is the sentence of      *)
(* docs/experiment_plan.md:168, "Every TTFT/TBT obligation is created and  *)
(* settled exactly once", made precise:                                    *)
(*   - an obligation is opened once, in order, after its predecessor was   *)
(*     settled, and settled once;                                          *)
(*   - it is settled with a verdict (success or miss), cancelled by the    *)
(*     end of its request, or retired without a verdict;                   *)
(*   - the first miss of a request is its last verdict: afterwards its     *)
(*     obligations are only cancelled or retired (lost Goodput stays lost).*)
(***************************************************************************)
EXTENDS Naturals

CONSTANTS Requests,   \* request ids
          Numbers     \* obligation numbers of one request, 0..k

VARIABLE status       \* status[r][n]: where obligation n of r stands

Verdicts == {"success", "miss"}
Settled == Verdicts \cup {"cancelled", "retired"}
Statuses == {"unborn", "active"} \cup Settled

Init == status = [r \in Requests |-> [n \in Numbers |-> "unborn"]]

MayOpen(s, n) ==
    /\ s[n] = "unborn"
    /\ \A m \in Numbers : m < n => s[m] \in Settled \ {"cancelled"}

(* A verdict needs a request that has not missed yet; one that has, retires. *)
MaySettle(s, n, v) ==
    /\ s[n] = "active"
    /\ v \in Settled
    /\ v \in Verdicts => \A m \in Numbers : s[m] # "miss"
    /\ v = "retired" => \E m \in Numbers : s[m] = "miss"

Opens(s, t) == \E n \in Numbers : MayOpen(s, n) /\ t = [s EXCEPT ![n] = "active"]

Settles(s, t) ==
    \E n \in Numbers, v \in Settled :
        MaySettle(s, n, v) /\ t = [s EXCEPT ![n] = v]

(* A nonterminal token settles one obligation and opens the next. *)
SettlesAndOpens(s, t) ==
    \E n \in Numbers, v \in Settled \ {"cancelled"} :
        /\ n + 1 \in Numbers
        /\ MaySettle(s, n, v)
        /\ s[n + 1] = "unborn"
        /\ t = [s EXCEPT ![n] = v, ![n + 1] = "active"]

(* Several requests may move in one step: expiry settles every due deadline. *)
RequestStep(s, t) == t = s \/ Opens(s, t) \/ Settles(s, t) \/ SettlesAndOpens(s, t)

Next == /\ DOMAIN status' = Requests
        /\ \A r \in Requests : RequestStep(status[r], status'[r])

Spec == Init /\ [][Next]_status
=============================================================================
