CONSTANTS
  Containers = {a, b}
  Nodes = {1, 2, 3, 4}
  None = None
  Keys = {1, 2}
  Values = {1, 2}
  FirstCapacity = 1
  KeysMove = TRUE
  GrowthFailsInMerge = FALSE
SPECIFICATION Spec
VIEW View
SYMMETRY Symmetry
INVARIANTS
  ListIsIndex
