SPECIFICATION FairSpec
CONSTANTS
  r1 = r1
  r2 = r2
  r3 = r3
  None = None
  Requests = {r1, r2}
  Checks <- BothCaps
  Limit <- BothLimits
  Amounts = {0, 1, 2}
  Costs = {0, 2}
  OutlivesTtl = TRUE
INVARIANTS PlanTypeOK SlotsCounted EndedHoldsNothing
PROPERTIES SlotsFreed PlanAnswered ImplementsPlanGate SlotsKept
CHECK_DEADLOCK FALSE
