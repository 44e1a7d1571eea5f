SPECIFICATION FairSpec
CONSTANTS
  v1 = v1
  v2 = v2
  s1 = s1
  s2 = s2
  w1 = w1
  w2 = w2
  e1 = e1
  Variants = {v1}
  Evaluations = {}
  Locations = {1}
  Sessions = {}
  Sweepers = {}
  Generations = {1}
  MaxQty = 1
  MaxUnits = 3
  MaxIncoming = 0
  MaxTime = 0
  Skew = 0
  Ttl = 1
  MaxHold = 2
  BatchSize = 1
  Deltas <- MCDeltas
  StockChanges = {}
  ReorderPoints = {0, 2}
  LocationEdits = {}
PROPERTIES
  StockLowOnCrossing
