SPECIFICATION FairSpec
CONSTANTS
  o1 = o1
  o2 = o2
  k1 = k1
  k2 = k2
  r1 = r1
  r2 = r2
  w1 = w1
  e1 = e1
  f1 = f1
  f2 = f2
  f3 = f3
  Orders = {o1}
  Payments = {1}
  Keys = {k1}
  Requests = {r1}
  Verifiers = {w1}
  Events = {}
  Refunds = {}
  Amount = 2
  RefundAmounts = {1, 2}
  BatchSize = 1
  TwoStage = FALSE
  EarlyFailures = TRUE
  TxnRefs = {"settlement"}
  Matching = {TRUE}
PROPERTIES
  NoPaymentStranded
