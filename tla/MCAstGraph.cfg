SPECIFICATION TransformSpec
CONSTANTS
  a = a
  b = b
  Contents = {a, b}
  Hash <- MCHash
  MaxId = 2
  MaxNodes = 3
  MaxEdges = 3
  MaxCalls = 5
INVARIANTS
  NextIdIsFresh
  MapIsExact
CHECK_DEADLOCK FALSE
