CONSTANTS
  h1 = h1
  h2 = h2
  t1 = t1
  t2 = t2
  t3 = t3
  Absent = Absent
  Torn = Torn
  Headers = {h1, h2}
  Tests = {t1, t2, t3}
  Dirs <- MCDirs
  FirstSuite <- MCFirstSuite
  First <- MCFirst
  System <- MCSystem
  Features <- MCFeatures
  Roots = {r1}
  Standard = 20
  Samples = {1, 2}
  Sanitize = TRUE
  MaxEdits = 1
  MaxRuns = 3
SPECIFICATION Spec
CHECK_DEADLOCK FALSE
INVARIANTS
  CacheAddsUp
  RecheckIsCurrent
  GreenMeansKnown
  DiffHonest
PROPERTIES
  NothingForgotten
