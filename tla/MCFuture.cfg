\* Three threads and the thread of async at one state.  States meet only in
\* what their threads do; two states were checked too.
CONSTANTS
  Threads = {t1, t2, t3}
  States = {s1}
  None = None
  MaxNest = 2
SPECIFICATION FairSpec
INVARIANTS
  StatesExact
PROPERTIES
  OutcomeStable
  WaitEnds
