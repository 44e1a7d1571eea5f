SPECIFICATION ReconciliationSpec
CONSTANTS
  v1 = v1
  s1 = s1
  Variants = {v1}
  Evaluations = {}
  Locations = {1}
  Sessions = {s1}
  Sweepers = {}
  Generations = {1}
  MaxQty = 1
  MaxUnits = 2
  MaxIncoming = 0
  MaxTime = 0
  Skew = 0
  Ttl = 1
  MaxHold = 2
  BatchSize = 1
  Deltas = {1}
  StockChanges = {}
  ReorderPoints = {0}
  LocationEdits = {}
INVARIANTS
  RepairKeepsItemsOnLedger
