CONSTANTS
  Threads = {t1, t2}
  Ctrls = {c1, c2}
  None = None
  NumStrong = 2
  NumWeak = 1
  SelfOwned = FALSE
  ReadsReleased = FALSE
SPECIFICATION Spec
SYMMETRY Symmetry
INVARIANTS
  CountsExact
  NoUseAfterFree
PROPERTIES
  NoResurrection
