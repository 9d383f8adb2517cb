SPECIFICATION Spec
CONSTANTS
  o1 = o1
  o2 = o2
  Objects = {o1, o2}
  NoObject = NoObject
  NoNode = NoNode
  MaxTasks = 4
  Tasks <- MCTasks
  Chunks <- MCChunks
INVARIANTS
  TypeOK
  TasksConserved
  QueueOrdered
  NobodyWaitsForIndexed
  EveryReferenceAccounted
  CompleteMeansLinked
PROPERTIES
  NewLinksTargetLatest
  DrainTerminates
  ImplementsLinking
CHECK_DEADLOCK FALSE
