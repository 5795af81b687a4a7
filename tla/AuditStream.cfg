SPECIFICATION FairSpec
CHECK_DEADLOCK FALSE
CONSTANTS
  Processes = {p1, p2}
  Callers = {a, b, c}
  Home <- MCHome
  MaxClock = 3
  MaxEvents = 3
  MaxCrashes = 1
  Free = Free
INVARIANTS
  LockSerialises
  ForkIsExplained
PROPERTIES
  StreamUnblocks
CONSTANTS
  p1 = p1
  p2 = p2
  a = a
  b = b
  c = c
