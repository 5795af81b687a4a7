SPECIFICATION FairSpec
CONSTANTS
  c1 = c1
  c2 = c2
  k1 = k1
  k2 = k2
  Calls = {c1, c2}
  Capabilities = {k1, k2}
  Foundational = {k2}
  FailureThreshold = 2
  SuccessThreshold = 2
  MinLimit = 1
  MaxLimit = 2
  InitialLimit = 2
  RecoveryThreshold = 1
  MaxRetries = 1
  HourlyLimit = 1
  OperatorTargets = {"SUSPENDED", "ACTIVE"}
INVARIANTS
  TypeOK
  SlotsMatchCalls
  ClosedBelowThreshold
PROPERTIES
  LateSuccessKeepsOpen
  LateResultsRespectOperator
  CallsEnd
