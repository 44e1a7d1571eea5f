SPECIFICATION FairSpec
CONSTANTS
  o1 = o1
  o2 = o2
  k1 = k1
  k2 = k2
  r1 = r1
  r2 = r2
  w1 = w1
  e1 = e1
  f1 = f1
  f2 = f2
  f3 = f3
  Orders = {o1, o2}
  Payments = {1, 2}
  Keys = {k1, k2}
  Requests = {r1}
  Verifiers = {}
  Events = {}
  Refunds = {}
  Amount = 2
  RefundAmounts = {1, 2}
  BatchSize = 2
  TwoStage = TRUE
  EarlyFailures = FALSE
  TxnRefs = {"no reference"}
  Matching = {TRUE}
PROPERTIES
  SettledIsRecognised
