------------------------------- MODULE MCLocks -------------------------------
EXTENDS Locks, TLC
Symmetry == Permutations(Threads \ Readers)
=============================================================================
