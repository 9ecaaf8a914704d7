\* Two stop states: a thread can be in a callback of each.  User callbacks that
\* destroy each other across two states wait for each other for ever, so the
\* run does not check for deadlock.
CONSTANTS
  Threads = {t1, t2}
  States = {s1, s2}
  Callbacks = {c1, c2, c3}
  None = None
  MaxDepth = 2
  MaxEpoch = 2
  MaxHandles = 2
  EagerReuse = FALSE
SPECIFICATION Spec
CHECK_DEADLOCK FALSE
SYMMETRY Symmetry
INVARIANTS
  RunSafe
  WaitIsForACall
  StatesExact
PROPERTIES
  PromiseKept
