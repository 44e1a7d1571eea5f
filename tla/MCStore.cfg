CONSTANTS
  item = item
  k1 = k1
  k2 = k2
  m1 = m1
  m2 = m2
  n1 = n1
  n2 = n2
  e1 = e1
  e2 = e2
  Variants = {item}
  MaximumLineQuantity = 2
  FreshKey = fresh
  MaxCarts = 2
  Levels <- UpToTwo
  AddKeys <- KeysByPart
  Coupons <- CouponsByPart
  MaxRenders <- RendersByPart
  Sessions = {m1, m2}
  Stock <- TwoOfEach
  MaxPrice = 1
  ConfirmKeys <- ConfirmsByPart
  Forms = {e1, e2}
  NoKey = none
  MaxFaults <- FaultsByPart
  Reservations <- ThreeReservations
  LineOf <- LinesOfThem
  UnitsOf <- TwoAndOne
  Others <- TwoAndOne
  Shipments = {m1, m2, n1}
  Refundable = 2
  Products = {"honey"}
  MaxLookups = 1
  Confirms = {m1, m2, n1}
  CustomerOf <- Users
  UsageLimitTotal = 2
  UsageLimitPerUser = 1
  CouponKinds <- PricedCoupons
  SaleLines <- ThreeLines
  SaleQuantities = {1, 2}
  SaleAmounts = {1, 3}
  Windows <- OneWindow
  MaxPrices = 4
  BasisPoints = 10
  TaxRates <- Rates
  MaxTime = 1
  Orders = {m1, m2}
  OrderLines = {1, 2}
  Untracked = {2}
  OrderQuantities <- UpToTwo
  ReceiptKeys = {n1, n2}
  Entries <- Receipts
  Uploads = {"u"}
  Calls = {m1, m2}
  Objects = {"original", "derivative"}
  Logins = {m1, m2}
  Completions = {n1, n2}
  StepUps = {"u"}
  Tokens = {"t"}
  MaxStep = 2
  MaxAttempts = 2
  Drift = 0
  MaxRequests = 2
  MaxRuns = 3
  Entities = {m1, m2}
  Slugs = {n1, n2}
  Edits = {e1, e2}
  NoName = none
  GoodsVariants = {m1, m2}
  GoodsCategories = {n1, n2}
  Categories = {n1, n2, e1, e2}
  TreeEdits = {m1, m2}
  MaximumDepth = 3
  Root = root
SPECIFICATION Spec
SYMMETRY Symmetry
INVARIANTS
  TypeOK
  CartOrderedOnce
  OrderedAsShownAndHeld
  ChargedAsDisplayed
  UnitsHeldOnce
  UnitsLeaveOnce
  FulfilmentFollowsShipments
  OnlyVerifiedPurchases
  CouponWithinLimits
  SaleIsExact
  ReceivedWithinOrder
  IncomingIsOutstanding
  AssetHasItsObjects
  EachCodeOnce
  ResetEndsSessions
  LinksFollowConsent
  LinksNeverBreak
  ProductsStayWhole
  PathsSpellTheTree
CHECK_DEADLOCK FALSE
