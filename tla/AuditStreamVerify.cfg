SPECIFICATION Spec
CHECK_DEADLOCK FALSE
CONSTANTS
  Processes = {p1}
  Callers = {a}
  Home <- MCHomeOne
  MaxClock = 2
  MaxEvents = 2
  MaxCrashes = 0
  Free = Free
  p1 = p1
  p2 = p2
  a = a
  b = b
  c = c
INVARIANT
  UntamperedVerifies
