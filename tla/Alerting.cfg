SPECIFICATION FairSpec
CHECK_DEADLOCK FALSE
CONSTANTS
  Callers = {a, b}
  Escalator = escalator
  Resolver = resolver
  ListLimit = 2
  MaxAlerts = 3
  MaxCalls = 3
  MaxLevel = 1
  MaxFaults = 1
INVARIANTS
  OneOpenAlert
  QuietWhenResolved
PROPERTIES
  OnlyStaleForgets
  ListedIsEscalated
