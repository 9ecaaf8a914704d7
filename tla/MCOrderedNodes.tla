--------------------------- MODULE MCOrderedNodes ---------------------------
(* Small instances of OrderedNodes for TLC. *)
EXTENDS OrderedNodes

Allocated(f) == [n \in live |-> f[n]]

\* What a node held before it was freed is never read again.
View ==
  <<kind, Allocated(key), Allocated(value), Allocated(prev), Allocated(next),
    head, tail, index, capacity, size, loop>>

Symmetry == Permutations(Containers)
=============================================================================
