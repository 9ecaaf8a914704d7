\* Two jthread variables, a thread variable and a thread that is assigned to
\* it; when all threads were started and are over, nothing is left to do.
CONSTANTS
  Workers = {w1, w2}
  Wide = {w2}
  Objects = {j1, j2, p1, p2}
  JThreads = {j1, j2}
  NoThread = NoThread
SPECIFICATION FairThreadSpec
CHECK_DEADLOCK FALSE
INVARIANTS
  ThreadsExact
PROPERTIES
  JoinReturns
