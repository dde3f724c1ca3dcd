SPECIFICATION FairSpec
CONSTANTS
  r1 = r1
  r2 = r2
  r3 = r3
  None = None
  Requests = {r1, r2}
  NumBudgets = 2
  Limits = {3}
  Amounts = {0, 2}
  Costs = {0, 2}
  EstimateCovers = FALSE
  OutlivesTtl = TRUE
INVARIANTS DoneHoldsNothing
PROPERTIES HeldIsFreed AttemptsAnswered
CHECK_DEADLOCK FALSE
