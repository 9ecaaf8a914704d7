CONSTANTS
  Containers = {a, b}
  Nodes = {1, 2, 3}
  None = None
  Keys = {1, 2}
  Values = {1, 2}
  FirstCapacity = 1
  KeysMove = FALSE
  GrowthFailsInMerge = FALSE
  HashNodes = {1, 2, 3}
  HashKeys = {0, 4}
  FirstBuckets = 1
  MaxBuckets = 4
  Blocks = {b1, b2, b3}
  Null = Null
  Raw = Raw
  Moved = Moved
  MaxCapacity = 3
  CopiesFail = FALSE
  ElementArguments = FALSE
SPECIFICATION MCSpec
VIEW View
SYMMETRY Symmetry
INVARIANTS
  OrderedExact
  StructuresExact
PROPERTIES
  PromiseKept
  OtherPromisesKept
