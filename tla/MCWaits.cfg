\* Stop states: one state; a callback can be constructed twice at each address, and
\* two of them can run inside each other on one thread.
\* Condition variables: three threads.
CONSTANTS
  Threads = {t1, t2, t3}
  None = None
  DestroyInTimedWait = FALSE
  States = {s1}
  Callbacks = {c1, c2}
  MaxDepth = 2
  MaxEpoch = 2
  MaxHandles = 2
  EagerReuse = FALSE
SPECIFICATION MCSpec
INVARIANTS
  MutexAlive
  ConditionAlive
  NoMissedNotify
PROPERTIES
  WaitReturns
  PromiseServed
  DestroyEnds
