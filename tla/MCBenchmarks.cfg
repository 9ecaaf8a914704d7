CONSTANTS
  Torn = Torn
  Other = Other
  Recipe <- MCRecipe
  Rounds = 2
  Reps = {2}
  StableRoots = {TRUE, FALSE}
  PoolCommands <- MCPool
  Workers = 2
  MaxCommands = 2
  N = 3
  NA = NA
  MaxRuns = 3
  Inputs <- MCInputs
SPECIFICATION MCSpec
CHECK_DEADLOCK FALSE
ACTION_CONSTRAINT Related
INVARIANTS
  RefusedOnlyWhenBad
  BuildsWhatIsPinned
  OwnTreeOnly
  PoolInsideTree
  SamplesBalanced
  FinishedQuotesThisRun
  FailureLeavesReadme
  EqualShares
  PlanFits
PROPERTIES
  CommandEnds
