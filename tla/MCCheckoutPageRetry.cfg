SPECIFICATION PageSpec
CONSTANTS
  v1 = v1
  s1 = s1
  n1 = n1
  n2 = n2
  Variants = {v1}
  MaximumLineQuantity = 2
  AddKeys = {}
  FreshKey = fresh
  Coupons = {}
  MaxCarts = 2
  MaxRenders = 0
  Sessions = {s1}
  ConfirmKeys = {n1, n2}
  Stock <- MCStock
  MaxPrice = 1
  Forms = {"a"}
  NoKey = none
  MaxFaults = 1
SYMMETRY MCSymmetry
INVARIANTS
  InProgressIsInProgress
CHECK_DEADLOCK FALSE
