---------------------------- MODULE MCProgressWatchdog ----------------------------
(* A small instance of the watchdog for TLC: a limit of two stalls, and fewer     *)
(* records kept than iterations.                                                  *)
EXTENDS ProgressWatchdog
=============================================================================
