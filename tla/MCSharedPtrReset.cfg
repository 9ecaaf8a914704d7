\* reset of a variable that the object's destructor copies, with one thread.
CONSTANTS
  Threads = {t1}
  Ctrls = {c1, c2}
  None = None
  NumStrong = 2
  NumWeak = 0
  SelfOwned = FALSE
  ReadsReleased = TRUE
SPECIFICATION Spec
INVARIANTS
  OwnedIsAlive
