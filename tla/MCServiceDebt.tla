---------------------------- MODULE MCServiceDebt ----------------------------
(***************************************************************************)
(* Two requests of different lengths and SLOs; a prompt of two tokens is    *)
(* computed in one iteration or in two.                                     *)
(***************************************************************************)
EXTENDS ServiceDebt

CONSTANTS a, b
MCPrompt == a :> 2 @@ b :> 1
MCTtftSlo == a :> 3 @@ b :> 1
MCTbtSlo == a :> 2 @@ b :> 1
==============================================================================
