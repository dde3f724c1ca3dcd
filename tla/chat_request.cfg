SPECIFICATION FairSpec
CONSTANTS
  dear = dear
  cheap = cheap
  claude = claude
  NoModel = NoModel
  Models = {dear, cheap, claude}
  Failover <- FailoverMap
  TotalAttempts = 2
  Anthropic = {claude}
  Asked = dear
INVARIANTS ReqTypeOK NoUncountedGap EndHoldsNothing RowNamesWhatRan AnswerMatchesRow
PROPERTIES FinalIsFinal RequestsEnd
CHECK_DEADLOCK FALSE
