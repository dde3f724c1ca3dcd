SPECIFICATION Spec
CONSTANTS
  r1 = r1
  r2 = r2
  r3 = r3
  None = None
  Requests = {r1, r2}
  NumBudgets = 1
  Limits = {3}
  Amounts = {0, 2}
  Costs = {0, 2}
  EstimateCovers = TRUE
  OutlivesTtl = FALSE
INVARIANTS SpendWithinLimit
CHECK_DEADLOCK FALSE
