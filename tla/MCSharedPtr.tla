---------------------------- MODULE MCSharedPtr ----------------------------
(* Small instances of SharedPtr for TLC. *)
EXTENDS SharedPtr, TLC

Symmetry == Permutations(Threads) \cup Permutations(Ctrls)
============================================================================
