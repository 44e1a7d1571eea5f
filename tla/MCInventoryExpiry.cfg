SPECIFICATION FairSpec
CONSTANTS
  v1 = v1
  v2 = v2
  s1 = s1
  s2 = s2
  w1 = w1
  w2 = w2
  e1 = e1
  Variants = {v1}
  Evaluations = {}
  Locations = {1, 2}
  Sessions = {s1}
  Sweepers = {w1}
  Generations = {1, 2}
  MaxQty = 2
  MaxUnits = 1
  MaxIncoming = 0
  MaxTime = 2
  Skew = 1
  Ttl = 1
  MaxHold = 2
  BatchSize = 1
  Deltas = {1}
  StockChanges = {}
  ReorderPoints = {0}
  LocationEdits = {}
INVARIANTS
  OneHoldPerSession
PROPERTIES
  ExpiredHoldsAreReleased
