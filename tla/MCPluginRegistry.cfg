SPECIFICATION Spec
CONSTANTS
  t1 = t1
  t2 = t2
  p = p
  q = q
  r = r
  Threads = {t1, t2}
  Owner = t1
  Plugins = {p, q, r}
  Name <- MCName
  NodeTypes = {"page", "font"}
  Types <- MCTypes
  Libraries = {q, r}
  None = None
  MaxCalls = 4
INVARIANTS
  MapsAgree
PROPERTIES
  CallsReturn
CHECK_DEADLOCK FALSE
