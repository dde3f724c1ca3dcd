SPECIFICATION Spec
CONSTANTS
  r1 = r1
  r2 = r2
  r3 = r3
  None = None
  Requests = {r1, r2}
  Checks <- MonthlyOnly
  Limit <- OneSlot
  Amounts = {0}
  Costs = {0}
  OutlivesTtl = FALSE
INVARIANTS MonthlyWithinLimit
CHECK_DEADLOCK FALSE
