SPECIFICATION Spec
CONSTANTS
  o1 = o1
  o2 = o2
  o3 = o3
  Objects = {o1, o2, o3}
  Documents <- MCDocuments
  Budgets <- MCBudgets
INVARIANTS
  StrictRejectsMalformed
CHECK_DEADLOCK FALSE
