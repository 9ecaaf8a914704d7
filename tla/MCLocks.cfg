\* Two threads with unique_locks and one with shared_locks; b is recursive.
CONSTANTS
  None = None
  Threads = {t1, t2, t3}
  Mutexes = {a, b}
  Recursive = {b}
  Readers = {t3}
  MaxDepth = 2
SPECIFICATION Spec
SYMMETRY Symmetry
INVARIANTS
  HeldExact
  WaitsHoldNothing
  OnceExact
