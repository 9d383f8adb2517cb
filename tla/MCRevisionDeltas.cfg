SPECIFICATION Spec
CONSTANTS
  o1 = o1
  o2 = o2
  a = a
  b = b
  Objects = {o1, o2}
  Places = {a, b}
  FileSize = 3
  Radius = 2
  Files <- MCFiles
  Modes <- MCModes
INVARIANTS
  DeltasAreChanges
CHECK_DEADLOCK FALSE
