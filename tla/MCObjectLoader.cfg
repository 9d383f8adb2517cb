SPECIFICATION Spec
CONSTANTS
  o1 = o1
  o2 = o2
  o3 = o3
  Objects = {o1, o2, o3}
  Documents <- MCDocuments
  MaxDepth = 3
  MaxObjects = 6
  MaxErrors = 2
INVARIANTS
  DepthIsNesting
  WrongValuesAreExplained
PROPERTIES
  EntriesSettle
  CallsReturn
