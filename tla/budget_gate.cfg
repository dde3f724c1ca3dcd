SPECIFICATION Spec
CONSTANTS
  r1 = r1
  r2 = r2
  r3 = r3
  None = None
  Requests = {r1, r2, r3}
  NumBudgets = 1
  Limits = {3, 4}
  Amounts = {0, 2}
  Costs = {0, 2, 3}
  EstimateCovers = FALSE
  OutlivesTtl = TRUE
SYMMETRY Alike
INVARIANTS TypeOK InFlightCounted
PROPERTIES ImplementsGate CapKept
CHECK_DEADLOCK FALSE
