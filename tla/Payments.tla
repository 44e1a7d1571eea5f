------------------------------ MODULE Payments ------------------------------
(***************************************************************************)
(* Payments of orders through an external provider, and their refunds:     *)
(*   packages/backend/src/modules/payments.                                *)
(*                                                                         *)
(* A request is a sequence of database transactions with calls to the      *)
(* provider between them; a transaction locks its rows (the order, then    *)
(* the payment) and is one action, and what a process carries from one     *)
(* transaction to the next is kept in its own variables: a payment to      *)
(* create at the provider, an outcome to apply, a refund to record.        *)
(* FAILED stands for FAILED, CANCELLED and EXPIRED, which the transition   *)
(* function treats alike.                                                  *)
(***************************************************************************)
EXTENDS Integers, FiniteSets, FiniteSetsExt, Functions

CONSTANTS
  Orders,         \* orders
  Payments,       \* 1..n, in the order they are created
  Keys,           \* idempotency keys of customers
  Requests,       \* requests of customers to start a payment
  Verifiers,      \* returns from the gateway and single reconciliations
  Events,         \* provider events (webhooks)
  Refunds,        \* refunds staff request
  Amount,         \* grand total of every order, in minor units
  RefundAmounts,  \* bound: amounts staff ask to refund
  BatchSize,      \* payments one reconciliation sweep lists
  \* What the provider does, and what its adapter answers:
  TwoStage,       \* whether it authorizes a payment before it captures it
  EarlyFailures,  \* whether a return nobody has paid for yet is answered FAILED
  TxnRefs,        \* references of its settlement events, NoTxn for none
  Matching        \* whether an outcome matches the payment's amount and currency

NoPayment == 0
NoOrder == "no order"
NoKey == "no key"
NoTxn == "no reference"
Sweeper == "sweeper"

ASSUME PaymentsAssumption ==
  /\ IsFiniteSet(Payments) /\ Payments \subseteq Nat \ {NoPayment}
  /\ IsFiniteSet(Refunds) /\ NoOrder \notin Orders /\ NoKey \notin Keys
  /\ Sweeper \notin Verifiers
  /\ Amount \in Nat \ {0} /\ RefundAmounts \subseteq 1..Amount
  /\ BatchSize \in Nat \ {0}
  /\ TwoStage \in BOOLEAN /\ EarlyFailures \in BOOLEAN /\ Matching \subseteq BOOLEAN

Active == {"CREATED", "PENDING", "AUTHORIZED"}
Recognised == {"PAID", "PARTIALLY_REFUNDED", "REFUNDED"}
Statuses == {"NONE", "FAILED"} \cup Active \cup Recognised
OutcomeStatuses == {"PENDING", "AUTHORIZED", "PAID", "FAILED"}
Outcomes == [payment : Payments, status : OutcomeStatuses,
             txn : TxnRefs, matches : BOOLEAN]
Outstanding == {"REQUESTED", "PENDING", "COMPLETED"}

VARIABLES
  orderStatus, paymentStatus, refundedTotal, \* order
  status, orderOf, createdWith, ref,         \* payment (ref: has a provider_ref)
  captures, txnRefs,                         \* payment_transaction, per payment
  claims,                                    \* idempotency_key, per order and key
  requests,                                  \* what each request is doing
  held, todo,                                \* outcomes in hand; the sweep's list
  eventState, eventOutcome,                  \* provider_event
  refund, work, seen,                        \* refund; what its request is doing
  money, sessions                            \* at the provider, per payment

orders   == <<orderStatus, paymentStatus, refundedTotal>>
payments == <<status, orderOf, createdWith, ref>>
ledger   == <<captures, txnRefs>>
verification == <<held, todo>>
events   == <<eventState, eventOutcome>>
refunds  == <<refund, work, seen>>
provider == <<money, sessions>>
vars == <<orders, payments, ledger, claims, requests, verification, events, refunds, provider>>

Idle == [at |-> "idle", payment |-> NoPayment]
NoRefund == [status |-> "NONE", payment |-> NoPayment, amount |-> 0]

\* The type invariant.
TypeOK ==
  /\ orderStatus \in [Orders -> {"PENDING_PAYMENT", "PAID", "REFUNDED"}]
  /\ paymentStatus \in [Orders -> {"UNPAID"} \cup Recognised]
  /\ refundedTotal \in [Orders -> 0..Amount]
  /\ status \in [Payments -> Statuses]
  /\ orderOf \in [Payments -> Orders \cup {NoOrder}]
  /\ createdWith \in [Payments -> Keys \cup {NoKey}]
  /\ ref \in [Payments -> BOOLEAN]
  /\ captures \in [Payments -> Nat] /\ txnRefs \in [Payments -> SUBSET TxnRefs]
  /\ claims \in [Orders \X Keys -> Payments \cup {NoPayment}]
  /\ requests \in [Requests -> [at : {"idle", "started", "claimed", "answered", "failed"},
                                payment : Payments \cup {NoPayment}]]
  /\ held \in [Verifiers \cup {Sweeper} -> SUBSET Outcomes]
  /\ todo \subseteq Payments
  /\ eventState \in [Events -> {"NONE", "RECEIVED", "APPLIED", "PROCESSED"}]
  /\ eventOutcome \in [Events -> SUBSET Outcomes]
  /\ refund \in [Refunds -> [status : {"NONE", "FAILED"} \cup Outstanding,
                             payment : Payments \cup {NoPayment}, amount : 0..Amount]]
  /\ work \in [Refunds -> {"none", "asking", "COMPLETED", "PENDING", "FAILED", "writing"}]
  /\ seen \in [Refunds -> Nat]
  /\ money \in [Payments -> {"open", "authorized", "captured", "declined"}]
  /\ sessions \in [Payments -> Nat]

Init ==
  /\ orderStatus = [o \in Orders |-> "PENDING_PAYMENT"]
  /\ paymentStatus = [o \in Orders |-> "UNPAID"]
  /\ refundedTotal = [o \in Orders |-> 0]
  /\ status = [p \in Payments |-> "NONE"]
  /\ orderOf = [p \in Payments |-> NoOrder]
  /\ createdWith = [p \in Payments |-> NoKey]
  /\ ref = [p \in Payments |-> FALSE]
  /\ captures = [p \in Payments |-> 0] /\ txnRefs = [p \in Payments |-> {}]
  /\ claims = [c \in Orders \X Keys |-> NoPayment]
  /\ requests = [r \in Requests |-> Idle]
  /\ held = [w \in Verifiers \cup {Sweeper} |-> {}] /\ todo = {}
  /\ eventState = [e \in Events |-> "NONE"] /\ eventOutcome = [e \in Events |-> {}]
  /\ refund = [f \in Refunds |-> NoRefund]
  /\ work = [f \in Refunds |-> "none"] /\ seen = [f \in Refunds |-> 0]
  /\ money = [p \in Payments |-> "open"] /\ sessions = [p \in Payments |-> 0]

-----------------------------------------------------------------------------
(***************************************************************************)
(* Starting a payment: the start transaction, the claim of the creation at *)
(* the provider, the call, and the transaction that records its answer.    *)
(***************************************************************************)
Payable(o) == paymentStatus[o] # "PAID" /\ orderStatus[o] = "PENDING_PAYMENT"

ActivePayments(o) == {p \in Payments : orderOf[p] = o /\ status[p] \in Active}

\* A payment without a provider reference is to be created at the provider.
Continue(r, p) ==
  requests' = [requests EXCEPT ![r] =
                 IF ref[p] THEN Idle ELSE [at |-> "started", payment |-> p]]

\* The key has already been used for this order.
ReplayStart(r, o, k) ==
  /\ requests[r] = Idle
  /\ claims[<<o, k>>] # NoPayment
  /\ Continue(r, claims[<<o, k>>])
  /\ UNCHANGED <<orders, payments, ledger, claims, verification, events, refunds, provider>>

\* Another key's payment is still under way: the newest one is taken up.
ResumePayment(r, o, k) ==
  /\ requests[r] = Idle
  /\ claims[<<o, k>>] = NoPayment
  /\ Payable(o)
  /\ \E p \in ActivePayments(o) :
       /\ \A q \in ActivePayments(o) : q <= p
       /\ claims' = [claims EXCEPT ![<<o, k>>] = p]
       /\ Continue(r, p)
  /\ UNCHANGED <<orders, payments, ledger, verification, events, refunds, provider>>

\* (provider, idempotency_key) is unique: a key creates one payment ever.
Unused == {q \in Payments : status[q] = "NONE"}

CreatePayment(r, o, k) ==
  /\ requests[r] = Idle
  /\ claims[<<o, k>>] = NoPayment
  /\ Payable(o) /\ ActivePayments(o) = {}
  /\ \A q \in Payments : createdWith[q] # k
  /\ \E p \in Unused :
       /\ \A q \in Unused : p <= q
       /\ claims' = [claims EXCEPT ![<<o, k>>] = p]
       /\ status' = [status EXCEPT ![p] = "CREATED"]
       /\ orderOf' = [orderOf EXCEPT ![p] = o]
       /\ createdWith' = [createdWith EXCEPT ![p] = k]
       /\ Continue(r, p)
  /\ UNCHANGED <<ref, orders, ledger, verification, events, refunds, provider>>

\* The claim of a key is forgotten a day later.
ForgetKey(o, k) ==
  /\ claims[<<o, k>>] # NoPayment
  /\ claims' = [claims EXCEPT ![<<o, k>>] = NoPayment]
  /\ UNCHANGED <<orders, payments, ledger, requests, verification, events, refunds, provider>>

\* Mutant: a request does not see that another one is creating the payment.
ClaimableAgain(p) == ~ref[p] /\ status[p] \in {"CREATED", "PENDING"}

\* Only a CREATED payment is claimed; every other request learns that the
\* payment is done, or that its creation is in progress, and ends.
Claimable(p) == ~ref[p] /\ status[p] = "CREATED"

ClaimCreate(r) ==
  LET p == requests[r].payment IN
  /\ requests[r].at = "started"
  /\ requests' = [requests EXCEPT ![r] = IF Claimable(p) THEN [@ EXCEPT !.at = "claimed"]
                                         ELSE Idle]
  /\ status' = IF Claimable(p) THEN [status EXCEPT ![p] = "PENDING"] ELSE status
  /\ UNCHANGED <<orderOf, createdWith, ref, orders, ledger, claims,
                 verification, events, refunds, provider>>

\* provider.createPayment: a session is opened, and the answer arrives or not.
ProviderCreates(r, answer) ==
  /\ requests[r].at = "claimed"
  /\ requests' = [requests EXCEPT ![r].at = answer]
  /\ sessions' = [sessions EXCEPT ![requests[r].payment] = @ + 1]
  /\ UNCHANGED <<money, orders, payments, ledger, claims, verification, events, refunds>>

ProviderRejects(r) ==
  /\ requests[r].at = "claimed"
  /\ requests' = [requests EXCEPT ![r].at = "failed"]
  /\ UNCHANGED <<orders, payments, ledger, claims, verification, events, refunds, provider>>

SetProviderRef(r) ==
  LET p == requests[r].payment IN
  /\ requests[r].at = "answered"
  /\ requests' = [requests EXCEPT ![r] = Idle]
  /\ ref' = [ref EXCEPT ![p] = TRUE]
  /\ status' = IF ref[p] THEN status ELSE [status EXCEPT ![p] = "PENDING"]
  /\ UNCHANGED <<orderOf, createdWith, orders, ledger, claims,
                 verification, events, refunds, provider>>

MarkCreateFailed(r) ==
  LET p == requests[r].payment IN
  /\ requests[r].at = "failed"
  /\ requests' = [requests EXCEPT ![r] = Idle]
  /\ status' = IF ~ref[p] /\ status[p] \in {"CREATED", "PENDING"}
               THEN [status EXCEPT ![p] = "FAILED"] ELSE status
  /\ UNCHANGED <<orderOf, createdWith, ref, orders, ledger, claims,
                 verification, events, refunds, provider>>

\* The process stops, or its next transaction fails.
RequestStops(r) ==
  /\ requests[r] # Idle
  /\ requests' = [requests EXCEPT ![r] = Idle]
  /\ UNCHANGED <<orders, payments, ledger, claims, verification, events, refunds, provider>>

-----------------------------------------------------------------------------
(***************************************************************************)
(* The provider: the customer who was sent to it pays, or does not.        *)
(***************************************************************************)
ProviderActs(p, from, to) ==
  /\ ref[p] /\ money[p] = from
  /\ money' = [money EXCEPT ![p] = to]
  /\ UNCHANGED <<sessions, orders, payments, ledger, claims, requests,
                 verification, events, refunds>>

Authorize(p) == TwoStage /\ ProviderActs(p, "open", "authorized")
Capture(p)   == ProviderActs(p, IF TwoStage THEN "authorized" ELSE "open", "captured")
Decline(p) == \/ ProviderActs(p, "open", "declined")
              \/ ProviderActs(p, "authorized", "declined")

\* What the provider's adapter answers of a payment, when the answer matches.
Answers(p) ==
  CASE money[p] = "open"       -> {"PENDING"}
    [] money[p] = "authorized" -> {"AUTHORIZED"}
    [] money[p] = "captured"   -> {"PAID"}
    [] money[p] = "declined"   -> {"FAILED"}

\* A return is answered FAILED when there is nothing to verify yet.
ReturnAnswers(p) ==
  Answers(p) \cup (IF EarlyFailures /\ money[p] = "open" THEN {"FAILED"} ELSE {})

\* An outcome that matches nothing of the payment may claim anything.
Outcome(p, answers) ==
  {o \in [payment : {p}, status : OutcomeStatuses, txn : TxnRefs, matches : Matching] :
     o.matches => o.status \in answers}

-----------------------------------------------------------------------------
(***************************************************************************)
(* applyPaymentOutcome: the one entry point of every outcome.              *)
(***************************************************************************)

\* Mutant: a refunded payment is not told from one under way.
DecidesAfterRefund(current, outcome) ==
  \/ current \in Active /\ outcome \in {"PAID", "FAILED"}
  \/ current \in {"FAILED", "PARTIALLY_REFUNDED"} /\ outcome = "PAID"

\* decideTransition = APPLY.
DecideTransition(current, outcome) ==
  \/ current \in Active /\ outcome \in {"PAID", "FAILED"}
  \/ current = "CREATED" /\ outcome \in {"PENDING", "AUTHORIZED"}
  \/ current = "PENDING" /\ outcome = "AUTHORIZED"
  \/ current = "FAILED" /\ outcome = "PAID"

\* Mutant: nothing locks the payment's row.
NeverLocked(p) == p = NoPayment

\* A completed refund is being recorded: its payment's row is locked.
Locked(p) == \E f \in Refunds : work[f] = "writing" /\ refund[f].payment = p

\* markOrderPaid: an order that is PAID already is left alone.
MarkOrderPaid(paidOrders) ==
  LET marked == {o \in paidOrders : paymentStatus[o] # "PAID"} IN
  /\ orderStatus' = [o \in Orders |-> IF o \in marked THEN "PAID" ELSE orderStatus[o]]
  /\ paymentStatus' = [o \in Orders |-> IF o \in marked THEN "PAID" ELSE paymentStatus[o]]
  /\ UNCHANGED refundedTotal

\* Mutant: an outcome of another amount or currency is believed.
BelievesMismatch(o) ==
  /\ ref[o.payment]
  /\ DecideTransition(status[o.payment], o.status)
  /\ o.txn = NoTxn \/ o.txn \notin txnRefs[o.payment]

\* The outcome of an unknown payment is an error, one that does not match raises
\* an alert, a settlement event already recorded is ignored.
Applies(o) ==
  /\ ref[o.payment] /\ o.matches
  /\ DecideTransition(status[o.payment], o.status)
  /\ o.txn = NoTxn \/ o.txn \notin txnRefs[o.payment]

\* Mutant: a payment that recovers from a failure is not recorded as captured.
CapturedByActive(o) == Applies(o) /\ o.status = "PAID" /\ status[o.payment] \in Active

Captures(o) == Applies(o) /\ o.status = "PAID"

Records(o) == Applies(o) /\ o.status \in {"PAID", "AUTHORIZED"} /\ o.txn # NoTxn

ApplyPaymentOutcome(o) ==
  LET p == o.payment IN
  /\ ~Locked(p)
  /\ status' = IF Applies(o) THEN [status EXCEPT ![p] = o.status] ELSE status
  /\ captures' = IF Captures(o) THEN [captures EXCEPT ![p] = @ + 1] ELSE captures
  /\ txnRefs' = IF Records(o) THEN [txnRefs EXCEPT ![p] = @ \cup {o.txn}] ELSE txnRefs
  /\ MarkOrderPaid(IF Captures(o) THEN {orderOf[p]} ELSE {})
  /\ UNCHANGED <<orderOf, createdWith, ref>>

-----------------------------------------------------------------------------
(***************************************************************************)
(* The sources of outcomes.  The answer is obtained outside the            *)
(* transaction that applies it.                                            *)
(***************************************************************************)

\* verifyReturn and reconcile: one payment that has a provider reference.
Verify(w, p) ==
  /\ held[w] = {}
  /\ ref[p]
  /\ \E o \in Outcome(p, ReturnAnswers(p)) : held' = [held EXCEPT ![w] = {o}]
  /\ UNCHANGED <<todo, orders, payments, ledger, claims, requests, events, refunds, provider>>

ApplyVerified(w) ==
  /\ \E o \in held[w] : ApplyPaymentOutcome(o)
  /\ held' = [held EXCEPT ![w] = {}]
  /\ UNCHANGED <<todo, claims, requests, events, refunds, provider>>

VerifierStops(w) ==
  /\ held[w] # {}
  /\ held' = [held EXCEPT ![w] = {}]
  /\ UNCHANGED <<todo, orders, payments, ledger, claims, requests, events, refunds, provider>>

\* Mutant: a payment that is authorized is taken for settled.
EligibleBeforeAuthorization == {p \in Payments : status[p] \in {"CREATED", "PENDING"}}

\* reconcileEligible: the oldest payments under way, in a batch; those without a
\* provider reference take a place in it and are passed over.
Eligible == {p \in Payments : status[p] \in Active}
Batch == {p \in Eligible : Cardinality({q \in Eligible : q < p}) < BatchSize}

SweepBatch == {p \in Batch : ref[p]}

SweepList ==
  /\ todo = {} /\ held[Sweeper] = {}
  /\ todo' = SweepBatch
  /\ UNCHANGED <<held, orders, payments, ledger, claims, requests, events, refunds, provider>>

SweepAsk(p) ==
  /\ p \in todo /\ p = Min(todo) /\ held[Sweeper] = {}
  /\ \E o \in Outcome(p, Answers(p)) : held' = [held EXCEPT ![Sweeper] = {o}]
  /\ UNCHANGED <<todo, orders, payments, ledger, claims, requests, events, refunds, provider>>

SweepApply(p) ==
  /\ \E o \in held[Sweeper] : o.payment = p /\ ApplyPaymentOutcome(o)
  /\ held' = [held EXCEPT ![Sweeper] = {}]
  /\ todo' = todo \ {p}
  /\ UNCHANGED <<claims, requests, events, refunds, provider>>

\* The provider does not answer, or the process stops: the rest is given up.
SweepFails ==
  /\ todo # {}
  /\ todo' = {} /\ held' = [held EXCEPT ![Sweeper] = {}]
  /\ UNCHANGED <<orders, payments, ledger, claims, requests, events, refunds, provider>>

\* receiveWebhook: an event is stored once per event id, possibly before the
\* reference of its payment is.
ReceiveWebhook(e, p) ==
  /\ eventState[e] = "NONE"
  /\ sessions[p] > 0
  /\ eventState' = [eventState EXCEPT ![e] = "RECEIVED"]
  /\ \E o \in Outcome(p, Answers(p)) : eventOutcome' = [eventOutcome EXCEPT ![e] = {o}]
  /\ UNCHANGED <<orders, payments, ledger, claims, requests, verification, refunds, provider>>

\* processProviderEvent applies, then marks; it may stop in between and be called
\* again.  Whatever goes wrong with the outcome is marked as processed too.
ProcessEvent(e) ==
  /\ eventState[e] \in {"RECEIVED", "APPLIED"}
  /\ \E o \in eventOutcome[e] : ApplyPaymentOutcome(o)
  /\ eventState' = [eventState EXCEPT ![e] = "APPLIED"]
  /\ UNCHANGED <<eventOutcome, claims, requests, verification, refunds, provider>>

MarkEventProcessed(e) ==
  /\ eventState[e] \in {"RECEIVED", "APPLIED"}
  /\ eventState' = [eventState EXCEPT ![e] = "PROCESSED"]
  /\ UNCHANGED <<eventOutcome, orders, payments, ledger, claims, requests,
                 verification, refunds, provider>>

-----------------------------------------------------------------------------
(***************************************************************************)
(* Refunds: the claim of an amount, the provider's call, and the           *)
(* transaction that records its outcome.                                   *)
(***************************************************************************)
Amounts == [f \in Refunds |-> refund[f].amount]
AmountOf(S) == SumFunctionOnSet(Amounts, S)
RefundsOf(p, statuses) == {f \in Refunds : refund[f].payment = p /\ refund[f].status \in statuses}
CompletedOf(o) ==
  {f \in Refunds : refund[f].status = "COMPLETED" /\ orderOf[refund[f].payment] = o}

\* Mutant: refunds that are still under way are not counted.
RemainingAfterCompleted(p) == Amount - AmountOf(RefundsOf(p, {"COMPLETED"}))

Remaining(p) == Amount - AmountOf(RefundsOf(p, Outstanding))

RequestRefund(f, p, amount) ==
  /\ refund[f] = NoRefund /\ ~Locked(p)
  /\ status[p] \in {"PAID", "PARTIALLY_REFUNDED"} /\ ref[p]
  /\ amount <= Remaining(p)
  /\ refund' = [refund EXCEPT ![f] = [status |-> "REQUESTED", payment |-> p, amount |-> amount]]
  /\ work' = [work EXCEPT ![f] = "asking"]
  /\ UNCHANGED <<seen, orders, payments, ledger, claims, requests,
                 verification, events, provider>>

\* provider.refund: an answer, or an error, which is recorded as FAILED.
ProviderRefunds(f, answer) ==
  /\ work[f] = "asking"
  /\ work' = [work EXCEPT ![f] = answer]
  /\ UNCHANGED <<refund, seen, orders, payments, ledger, claims, requests,
                 verification, events, provider>>

\* A refund the provider has not completed: only its row is written.
MarkRefundOutcome(f) ==
  /\ work[f] \in {"PENDING", "FAILED"} /\ ~Locked(refund[f].payment)
  /\ refund' = [refund EXCEPT ![f].status = work[f]]
  /\ work' = [work EXCEPT ![f] = "none"]
  /\ UNCHANGED <<seen, orders, payments, ledger, claims, requests,
                 verification, events, provider>>

\* A completed refund: its row is written and the payment's row locked, and the
\* order's completed refunds are summed, those of other payments as committed.
SumRefunds(f) ==
  /\ work[f] = "COMPLETED" /\ ~Locked(refund[f].payment)
  /\ work' = [work EXCEPT ![f] = "writing"]
  /\ seen' = [seen EXCEPT ![f] =
                refund[f].amount + AmountOf(CompletedOf(orderOf[refund[f].payment]))]
  /\ UNCHANGED <<refund, orders, payments, ledger, claims, requests,
                 verification, events, provider>>

\* The status a sum of completed refunds leads to.
RefundedStatus(total) ==
  IF total >= Amount THEN "REFUNDED" ELSE IF total > 0 THEN "PARTIALLY_REFUNDED" ELSE "PAID"

\* syncOrderRefundTotals.  order_refund_cap rolls a larger sum back.
SyncOrderRefundTotals(f) ==
  LET p == refund[f].payment
      o == orderOf[p]
      next == RefundedStatus(seen[f])
  IN
  /\ work[f] = "writing" /\ seen[f] <= Amount
  /\ refund' = [refund EXCEPT ![f].status = "COMPLETED"]
  /\ work' = [work EXCEPT ![f] = "none"]
  /\ seen' = [seen EXCEPT ![f] = 0]
  /\ refundedTotal' = [refundedTotal EXCEPT ![o] = seen[f]]
  /\ paymentStatus' = [paymentStatus EXCEPT ![o] = next]
  /\ orderStatus' = IF next = "REFUNDED" THEN [orderStatus EXCEPT ![o] = "REFUNDED"]
                    ELSE orderStatus
  /\ status' = IF status[p] \in Recognised THEN [status EXCEPT ![p] = next] ELSE status
  /\ UNCHANGED <<orderOf, createdWith, ref, ledger, claims, requests,
                 verification, events, provider>>

\* The process stops, or a transaction fails: the refund keeps its amount claimed.
RefundStops(f) ==
  /\ work[f] # "none"
  /\ work' = [work EXCEPT ![f] = "none"]
  /\ seen' = [seen EXCEPT ![f] = 0]
  /\ UNCHANGED <<refund, orders, payments, ledger, claims, requests,
                 verification, events, provider>>

-----------------------------------------------------------------------------
RequestNext(r) ==
  \/ \E o \in Orders, k \in Keys :
       ReplayStart(r, o, k) \/ ResumePayment(r, o, k) \/ CreatePayment(r, o, k)
  \/ ClaimCreate(r)
  \/ \E answer \in {"answered", "failed"} : ProviderCreates(r, answer)
  \/ ProviderRejects(r)
  \/ SetProviderRef(r)
  \/ MarkCreateFailed(r)
  \/ RequestStops(r)

ProviderNext == \E p \in Payments : Authorize(p) \/ Capture(p) \/ Decline(p)

VerifierNext(w) ==
  \/ \E p \in Payments : Verify(w, p)
  \/ ApplyVerified(w)
  \/ VerifierStops(w)

SweepNext ==
  \/ SweepList
  \/ \E p \in Payments : SweepAsk(p) \/ SweepApply(p)
  \/ SweepFails

EventNext(e) ==
  \/ \E p \in Payments : ReceiveWebhook(e, p)
  \/ ProcessEvent(e)
  \/ MarkEventProcessed(e)

RefundNext(f) ==
  \/ \E p \in Payments, amount \in RefundAmounts : RequestRefund(f, p, amount)
  \/ \E answer \in {"COMPLETED", "PENDING", "FAILED"} : ProviderRefunds(f, answer)
  \/ MarkRefundOutcome(f)
  \/ SumRefunds(f)
  \/ SyncOrderRefundTotals(f)
  \/ RefundStops(f)

Next ==
  \/ \E r \in Requests : RequestNext(r)
  \/ \E o \in Orders, k \in Keys : ForgetKey(o, k)
  \/ ProviderNext
  \/ \E w \in Verifiers : VerifierNext(w)
  \/ SweepNext
  \/ \E e \in Events : EventNext(e)
  \/ \E f \in Refunds : RefundNext(f)

Spec == Init /\ [][Next]_vars

\* The worker schedules the sweep again and again, and no payment is refused by the
\* provider, or fails to be applied, each time it is its turn.  Customers owe nothing.
SweepFairness ==
  /\ WF_vars(SweepList)
  /\ \A p \in Payments : SF_vars(SweepAsk(p)) /\ SF_vars(SweepApply(p))

FairSpec == Spec /\ SweepFairness

-----------------------------------------------------------------------------
(***************************************************************************)
(* Properties.                                                             *)
(***************************************************************************)

\* Payment state changes only on what the provider answered: a payment is paid,
\* or refunded, only if the provider has captured it, whatever outcomes that do not
\* match it, early failures and stale answers are applied, in whatever order.
PaidIsCaptured ==
  \A p \in Payments : status[p] \in Recognised => money[p] = "captured"

\* A return, a webhook and a reconciliation that bring the same news record one
\* capture, and a payment that recovers from a failure records its own.
OneCapture ==
  \A p \in Payments : captures[p] = (IF status[p] \in Recognised THEN 1 ELSE 0)

\* An order is unpaid exactly as long as none of its payments has been recognised.
OrderFollowsPayments ==
  \A o \in Orders :
    paymentStatus[o] # "UNPAID" <=>
      \E p \in Payments : orderOf[p] = o /\ status[p] \in Recognised

\* However many requests, keys, crashes and retries: an order has at most one
\* payment under way, and a payment is created at the provider at most once.
OnePaymentUnderWay ==
  /\ \A o \in Orders : Cardinality(ActivePayments(o)) <= 1
  /\ \A p \in Payments : sessions[p] <= 1

\* Refunds that race, fail or are never answered do not claim more than was paid.
RefundsWithinPayment ==
  \A p \in Payments : AmountOf(RefundsOf(p, Outstanding)) <= Amount

\* An order with a single paid payment carries the sum of its completed refunds,
\* and its status and the payment's say the same of it.
PaidPayments(o) == {p \in Payments : orderOf[p] = o /\ captures[p] > 0}

RefundBooks ==
  \A o \in Orders : \A p \in PaidPayments(o) :
    PaidPayments(o) = {p} =>
      /\ refundedTotal[o] = AmountOf(RefundsOf(p, {"COMPLETED"}))
      /\ paymentStatus[o] = status[p]
      /\ status[p] = "REFUNDED" <=> refundedTotal[o] = Amount

\* A recognised payment is never walked back: not by a late or repeated outcome,
\* nor by one that arrives between the steps of a refund.
Rank(s) == CASE s = "PAID" -> 1 [] s = "PARTIALLY_REFUNDED" -> 2 [] s = "REFUNDED" -> 3

RecognitionIsFinal ==
  [][\A p \in Payments :
       status[p] \in Recognised =>
         status'[p] \in Recognised /\ Rank(status'[p]) >= Rank(status[p])]_vars

\* The sweep settles every payment under way whose customer paid, or failed to and
\* never came back, although other payments are stuck without a reference and
\* sweeps fail: as long as its batch has room for a payment of every order.
SettledIsRecognised ==
  \A p \in Payments :
    (status[p] \in Active /\ ref[p] /\ money[p] \in {"captured", "declined"})
      ~> status[p] \notin Active

\* ADR-0022: getStatus being mandatory means that no payment can be stranded; what
\* the provider has captured is recognised, by the reconciliation at the latest.
NoPaymentStranded ==
  \A p \in Payments : money[p] = "captured" ~> status[p] \in Recognised
=============================================================================
