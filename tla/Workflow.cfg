SPECIFICATION Spec
CHECK_DEADLOCK FALSE
SYMMETRY Symmetry
CONSTANTS
  Callers = {a, b, c}
  Last = 2
  Mode <- MCMode
  Quorum <- MCQuorum
  MaxCalls = 5
INVARIANTS
  AppliedIsBacked
  RepeatsTakeVotes
  AloneIsExact
  ClosedIsFinal
PROPERTIES
  HonoursContract
