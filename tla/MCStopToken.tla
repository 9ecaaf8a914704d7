---------------------------- MODULE MCStopToken ----------------------------
(* Small instances of StopToken for TLC. *)
EXTENDS StopToken, TLC

Symmetry == Permutations(Threads) \cup Permutations(States) \cup Permutations(Callbacks)
============================================================================
