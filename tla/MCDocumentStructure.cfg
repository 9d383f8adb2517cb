SPECIFICATION StructureSpec
CONSTANTS
  c = c
  p1 = p1
  p2 = p2
  p3 = p3
  Objects = {c, p1, p2, p3}
  Documents <- MCDocuments
  MaxDepth = 2
  MaxObjects = 6
  MaxErrors = 1
  MaxNodes = 9
  MaxEdges = 7
  MaxFieldDepth = 5
  MaxEntries = 1
INVARIANTS
  PageTreeMirrorsKids
  TolerantFailsAtLimits
PROPERTIES
  StructureReturns
CHECK_DEADLOCK FALSE
