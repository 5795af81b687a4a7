SPECIFICATION Spec
SYMMETRY WorkerSymmetry
CONSTANTS
  Workers = {w1, w2}
  Keys = {k1}
  TTL = 2
  TimeLimit = 3
  MaxRetries = 0
  RetryCounts = {0}
  MaxVersion = 2
  MaxFaults = 0
  NoOne = NoOne
  Stale = Stale
INVARIANTS
  OverlapMeansOverrun
PROPERTIES
  RegressMeansOverrun
