-------------------------- MODULE MCObligationLedger --------------------------
(* Small instances of the obligation ledger for TLC.                          *)
EXTENDS ObligationLedger

CONSTANTS r1, r2, e1, e2, e3, e4

TwoRequests == {r1, r2}
OneRequest == {r1}
FourEvents == {e1, e2, e3, e4}
EosAndAbort == {"eos", "abort"}
=============================================================================
