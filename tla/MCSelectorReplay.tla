---------------------------- MODULE MCSelectorReplay ----------------------------
(* A small instance of the selector, its record and the replay for TLC.         *)
EXTENDS SelectorReplay

CONSTANTS d1, d2

TwoDecodes == {d1, d2}
Symmetry == Permutations(TwoDecodes)

(* The ids of ZERO and STOCK are neither first nor in order of preference. *)
StockZeroFractions ==
    [p \in Plans |-> CASE p = 1 -> "STOCK" [] p = 2 -> "ZERO" [] OTHER -> "FRACTION"]

(* Exact or with a margin, in support or out of it. *)
ShortAndLong ==
    {[expected |-> 2, conservative |-> 2, in_support |-> TRUE],
     [expected |-> 3, conservative |-> 3, in_support |-> TRUE],
     [expected |-> 2, conservative |-> 3, in_support |-> TRUE],
     [expected |-> 2, conservative |-> 3, in_support |-> FALSE]}
=============================================================================
