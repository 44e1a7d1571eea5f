SPECIFICATION PartsSpec
CONSTANTS
  o1 = o1
  k1 = k1
  k2 = k2
  r1 = r1
  r2 = r2
  w1 = w1
  e1 = e1
  f1 = f1
  f2 = f2
  f3 = f3
  Orders = {o1}
  Payments = {1, 2}
  Keys = {k1, k2}
  Requests = {r1, r2}
  Verifiers = {w1}
  Events = {e1}
  Refunds = {f1, f2, f3}
  Amount = 3
  RefundAmounts = {1, 2, 3}
  BatchSize = 1
  TwoStage = TRUE
  EarlyFailures = TRUE
  TxnRefs = {"settlement"}
  Matching = {TRUE, FALSE}
SYMMETRY Symmetry
INVARIANTS
  PaidIsCaptured
  OneCapture
  OrderFollowsPayments
  OnePaymentUnderWay
  RefundsWithinPayment
  RefundBooks
PROPERTIES
  RecognitionIsFinal
