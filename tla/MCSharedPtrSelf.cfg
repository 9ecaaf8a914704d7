\* head = head->next, with one thread.
CONSTANTS
  Threads = {t1}
  Ctrls = {c1, c2}
  None = None
  NumStrong = 2
  NumWeak = 0
  SelfOwned = TRUE
  ReadsReleased = FALSE
SPECIFICATION Spec
INVARIANTS
  AssignReadsLive
