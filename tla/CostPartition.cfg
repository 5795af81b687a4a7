SPECIFICATION CostFairSpec
CONSTANTS
  i1 = i1
  i2 = i2
  i3 = i3
  i4 = i4
  g1 = g1
  g2 = g2
  Txns = {t1, t2, t3}
  Ids = {i1, i2, i3, i4}
  Costs = {1, 2}
  Groups = {g1, g2}
  Datasets <- Fetches
  GroupOf <- Scopes
INVARIANTS
  NoLeftovers
PROPERTIES
  AloneHeals
  ReplacementEnds
CHECK_DEADLOCK FALSE
