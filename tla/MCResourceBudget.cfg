SPECIFICATION Spec
CONSTANTS
  t1 = t1
  t2 = t2
  decoded = decoded
  objects = objects
  Threads = {t1, t2}
  Counters = {decoded, objects}
  Decoded = decoded
  Limit <- MCLimit
  PerStream = 2
  Amounts <- MCAmounts
  MaxU64 = 3
INVARIANTS
  TypeOK
  GrantsWithinLimit
  RefusalIsFinal
  NoGrantOnceStopped
PROPERTIES
  EveryCallReturns
  CancelStopsConsumption
  ImplementsQuota
