SPECIFICATION FairSpec
CONSTANTS
  Beats = {b1, b2}
  TTL = 2
  MaxCrashes = 2
  MaxFaults = 1
  Nobody = Nobody
  Gone = Gone
INVARIANTS
  LeaseElectsOne
  KeyNamesALeader
PROPERTIES
  OnlyHolderFreesKey
  TakeOver
