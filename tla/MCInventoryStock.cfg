SPECIFICATION Spec
CONSTANTS
  v1 = v1
  v2 = v2
  s1 = s1
  s2 = s2
  w1 = w1
  w2 = w2
  e1 = e1
  Variants = {v1}
  Evaluations = {e1}
  Locations = {1, 2}
  Sessions = {s1}
  Sweepers = {}
  Generations = {1}
  MaxQty = 1
  MaxUnits = 1
  MaxIncoming = 1
  MaxTime = 0
  Skew = 0
  Ttl = 1
  MaxHold = 2
  BatchSize = 1
  Deltas <- MCDeltas
  StockChanges <- MCStockChanges
  ReorderPoints = {1}
  LocationEdits <- MCLocationEdits
INVARIANTS
  NoOversell
PROPERTIES
  LowStockNoticed
