SPECIFICATION PagedSpec
CHECK_DEADLOCK FALSE
CONSTANTS
  Pages = 3
  MaxVersion = 2
  MaxKills = 2
  MaxFaults = 1
  MaxFailures = 1
INVARIANTS
  CheckpointIsBacked
  RecordsCountedOnce
  DuplicatesNeedCrash
  RefusalNeedsCrash
PROPERTIES
  CheckpointAdvances
