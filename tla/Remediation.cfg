SPECIFICATION Spec
CHECK_DEADLOCK FALSE
SYMMETRY Symmetry
CONSTANTS
  Callers = {a, b}
  MaxCalls = 4
INVARIANTS
  EveryClosureCredited
  EveryCreditRetested
  AloneIsExact
PROPERTIES
  OnlyStaleUndoes
