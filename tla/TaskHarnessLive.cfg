SPECIFICATION FairSpec
CONSTANTS
  Workers = {w1, w2}
  Keys = {k1}
  TTL = 1
  TimeLimit = 2
  MaxRetries = 1
  RetryCounts = {0}
  MaxVersion = 1
  MaxFaults = 1
  NoOne = NoOne
  Stale = Stale
PROPERTIES
  ReleaseOnlyOwnLock
  LockIsFreed
