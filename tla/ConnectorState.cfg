SPECIFICATION Spec
CONSTANTS
  Apis = {a1}
  Workers = {w1}
  Targets = {"ACTIVE", "SUSPENDED", "DELETED"}
  MaxCred = 1
  MaxFaults = 2
PROPERTIES
  SoleWriterIsLegal
  DeletionIsRemembered
