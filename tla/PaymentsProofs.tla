--------------------------- MODULE PaymentsProofs ---------------------------
(***************************************************************************)
(* For every set of orders, payments, keys, requests, sources of outcomes  *)
(* and refunds, whatever the provider does and answers: a recognised       *)
(* payment is a captured one, recorded once; an order is unpaid as long as *)
(* none of its payments is recognised; and an order has one payment under  *)
(* way, created once at the provider.  Refunds sum to at most what was     *)
(* paid, the order's books agree with them, and recognition is final.      *)
(***************************************************************************)
EXTENDS Payments, SumTheorems

(* The types the argument rests on.                                        *)
PaymentTypes ==
  /\ paymentStatus \in [Orders -> {"UNPAID"} \cup Recognised]
  /\ status \in [Payments -> Statuses]
  /\ orderOf \in [Payments -> Orders \cup {NoOrder}]
  /\ ref \in [Payments -> BOOLEAN]
  /\ captures \in [Payments -> Nat]
  /\ money \in [Payments -> {"open", "authorized", "captured", "declined"}]
  /\ sessions \in [Payments -> Nat]
RequestTypes ==
  /\ claims \in [Orders \X Keys -> Payments \cup {NoPayment}]
  /\ requests \in [Requests -> [at : {"idle", "started", "claimed", "answered", "failed"},
                                payment : Payments \cup {NoPayment}]]
  /\ \A r \in Requests : requests[r].at # "idle" => requests[r].payment \in Payments
OutcomeTypes ==
  /\ held \in [Verifiers \cup {Sweeper} -> SUBSET Outcomes]
  /\ eventOutcome \in [Events -> SUBSET Outcomes]
RefundTypes ==
  /\ refund \in [Refunds -> [status : {"NONE", "FAILED"} \cup Outstanding,
                             payment : Payments \cup {NoPayment}, amount : RefundAmounts \cup {0}]]
  /\ work \in [Refunds -> {"none", "asking", "COMPLETED", "PENDING", "FAILED", "writing"}]
  /\ \A f \in Refunds : work[f] # "none" => refund[f].payment \in Payments

\* What is held or stored, and matches, was once true; captured money stays so.
Confirmed(o) == o.matches /\ o.status = "PAID" => money[o.payment] = "captured"
AnswersAreTrue ==
  /\ \A w \in Verifiers \cup {Sweeper} : \A o \in held[w] : Confirmed(o)
  /\ \A e \in Events : \A o \in eventOutcome[e] : Confirmed(o)

\* A payment without a reference has had no outcome, and one that exists an order.
CreatedForOrder ==
  \A p \in Payments :
    /\ ~ref[p] => status[p] \in {"NONE", "CREATED", "PENDING", "FAILED"}
    /\ status[p] # "NONE" => orderOf[p] \in Orders

\* One request has claimed the creation, and nobody else touches the payment.
Creating(r) == requests[r].at \in {"claimed", "answered", "failed"}
OneCreates ==
  /\ \A r \in Requests :
       Creating(r) => ~ref[requests[r].payment] /\ status[requests[r].payment] = "PENDING"
  /\ \A r, q \in Requests :
       Creating(r) /\ Creating(q) /\ requests[r].payment = requests[q].payment => r = q

\* The session at the provider is opened after the claim, by its holder.
OneSession ==
  /\ \A p \in Payments : sessions[p] <= 1 /\ (status[p] \in {"NONE", "CREATED"} => sessions[p] = 0)
  /\ \A r \in Requests : requests[r].at = "claimed" => sessions[requests[r].payment] = 0

OneActive ==
  \A p, q \in Payments :
    status[p] \in Active /\ status[q] \in Active /\ orderOf[p] = orderOf[q] => p = q

\* Refunds under way are of recognised payments.
RefundsOfPaid == \A f \in Refunds : work[f] # "none" => status[refund[f].payment] \in Recognised

Books ==
  /\ AnswersAreTrue /\ PaidIsCaptured /\ OneCapture /\ OrderFollowsPayments
  /\ CreatedForOrder /\ OneCreates /\ OneSession /\ OneActive /\ RefundsOfPaid

IInv == PaymentTypes /\ RequestTypes /\ OutcomeTypes /\ RefundTypes /\ Books

\* The variables the invariant speaks of.
rows == <<paymentStatus, status, orderOf, ref, captures>>
outside == <<money, sessions>>
answers == <<held, eventOutcome>>
moneyBack == <<refund, work>>

LEMMA InitIInv == Init => IInv
<1> SUFFICES ASSUME Init PROVE IInv
  OBVIOUS
<1> USE PaymentsAssumption DEF Init, NoPayment, Idle, NoRefund, Active, Recognised, Statuses
<1>1. PaymentTypes
  BY DEF PaymentTypes
<1>2. RequestTypes
  BY DEF RequestTypes
<1>3. OutcomeTypes
  BY DEF OutcomeTypes
<1>4. RefundTypes
  BY DEF RefundTypes, Outstanding
<1>5. AnswersAreTrue /\ PaidIsCaptured /\ OneCapture /\ CreatedForOrder
  BY DEF AnswersAreTrue, PaidIsCaptured, OneCapture, CreatedForOrder
<1>6. OrderFollowsPayments
  BY DEF OrderFollowsPayments
<1>7. OneCreates /\ OneSession /\ OneActive /\ RefundsOfPaid
  BY DEF OneCreates, Creating, OneSession, OneActive, RefundsOfPaid
<1> QED BY <1>1, <1>2, <1>3, <1>4, <1>5, <1>6, <1>7 DEF IInv, Books

-----------------------------------------------------------------------------
(* Requests.                                                               *)

\* A request that ends or takes a payment up claims nothing.
LEMMA TakeUpKeepsIInv ==
  ASSUME IInv, NEW r \in Requests, NEW p \in Payments,
         requests' \in {requests, [requests EXCEPT ![r] = Idle],
                        [requests EXCEPT ![r] = [at |-> "started", payment |-> p]]},
         claims' \in [Orders \X Keys -> Payments \cup {NoPayment}],
         UNCHANGED <<rows, outside, answers, moneyBack>>
  PROVE  IInv'
<1> USE DEF IInv, Books, rows, outside, answers, moneyBack
<1>1. /\ \A q \in Requests \ {r} : requests'[q] = requests[q]
      /\ requests'[r] \in {requests[r], Idle, [at |-> "started", payment |-> p]}
  BY DEF RequestTypes
<1>2. RequestTypes'
  BY <1>1 DEF RequestTypes, Idle
<1>3. PaymentTypes' /\ OutcomeTypes' /\ RefundTypes'
  BY DEF PaymentTypes, OutcomeTypes, RefundTypes
<1>4. /\ AnswersAreTrue' /\ PaidIsCaptured' /\ OneCapture' /\ OrderFollowsPayments'
      /\ CreatedForOrder' /\ OneActive' /\ RefundsOfPaid'
  BY DEF AnswersAreTrue, Confirmed, PaidIsCaptured, OneCapture, OrderFollowsPayments, CreatedForOrder,
     OneActive, RefundsOfPaid
<1>5. \A q \in Requests : Creating(q)' => Creating(q) /\ requests'[q] = requests[q]
  BY <1>1 DEF Creating, Idle
<1>6. OneCreates' /\ OneSession'
  BY <1>1, <1>5 DEF OneCreates, OneSession, Creating, Idle
<1> QED BY <1>2, <1>3, <1>4, <1>6

LEMMA CreateKeepsIInv ==
  ASSUME IInv, NEW r \in Requests, NEW o \in Orders, NEW k \in Keys, CreatePayment(r, o, k)
  PROVE  IInv'
<1> USE DEF IInv, Books
<1>1. PICK p \in Unused :
        /\ claims' = [claims EXCEPT ![<<o, k>>] = p]
        /\ status' = [status EXCEPT ![p] = "CREATED"]
        /\ orderOf' = [orderOf EXCEPT ![p] = o]
        /\ Continue(r, p)
  BY DEF CreatePayment
<1>2. /\ ActivePayments(o) = {}
      /\ UNCHANGED <<paymentStatus, ref, captures, outside, answers, moneyBack>>
  BY DEF CreatePayment, orders, ledger, verification, events, refunds, provider, outside, answers,
     moneyBack
<1>3. p \in Payments /\ status[p] = "NONE"
  BY DEF Unused
<1>4. /\ status' \in [Payments -> Statuses] /\ orderOf' \in [Payments -> Orders \cup {NoOrder}]
      /\ status'[p] = "CREATED" /\ orderOf'[p] = o
      /\ \A q \in Payments \ {p} : status'[q] = status[q] /\ orderOf'[q] = orderOf[q]
  BY <1>1, <1>3 DEF PaymentTypes, Statuses, Active
<1>5. /\ requests' \in {[requests EXCEPT ![r] = Idle],
                        [requests EXCEPT ![r] = [at |-> "started", payment |-> p]]}
      /\ \A q \in Requests \ {r} : requests'[q] = requests[q]
      /\ requests'[r] \in {Idle, [at |-> "started", payment |-> p]}
  BY <1>1 DEF Continue, RequestTypes
<1>6. PaymentTypes' /\ OutcomeTypes' /\ RefundTypes'
  BY <1>2, <1>4 DEF PaymentTypes, OutcomeTypes, RefundTypes, outside, answers, moneyBack
<1>7. RequestTypes'
  BY <1>1, <1>3, <1>5 DEF RequestTypes, Idle
<1>8. AnswersAreTrue' /\ PaidIsCaptured' /\ OneCapture' /\ CreatedForOrder'
  BY <1>2, <1>3, <1>4 DEF AnswersAreTrue, Confirmed, PaidIsCaptured, OneCapture, CreatedForOrder,
     outside, answers, Recognised
<1>9. OrderFollowsPayments'
  BY <1>2, <1>3, <1>4 DEF OrderFollowsPayments, Recognised
<1>10. OneActive'
  BY <1>2, <1>3, <1>4 DEF OneActive, ActivePayments
<1>11. \A q \in Requests : Creating(q)' => Creating(q) /\ requests'[q] = requests[q]
  BY <1>5 DEF Creating, Idle
<1>12. \A q \in Requests : Creating(q) => requests[q].payment \in Payments \ {p}
  BY <1>3 DEF OneCreates, RequestTypes, Creating
<1>14. OneCreates'
  BY <1>2, <1>4, <1>11, <1>12 DEF OneCreates
<1>15. OneSession'
  BY <1>2, <1>3, <1>4, <1>11, <1>12 DEF OneSession, Creating, outside
<1>13. RefundsOfPaid'
  BY <1>2, <1>3, <1>4 DEF RefundsOfPaid, RefundTypes, moneyBack, Recognised
<1> QED BY <1>6, <1>7, <1>8, <1>9, <1>10, <1>13, <1>14, <1>15

\* The claim: nobody else is creating a payment that is still CREATED.
LEMMA ClaimKeepsIInv ==
  ASSUME IInv, NEW r \in Requests, ClaimCreate(r), Claimable(requests[r].payment)
  PROVE  IInv'
<1> USE DEF IInv, Books
<1> DEFINE p == requests[r].payment
<1>1. /\ requests' = [requests EXCEPT ![r] = [requests[r] EXCEPT !.at = "claimed"]]
      /\ status' = [status EXCEPT ![p] = "PENDING"]
      /\ UNCHANGED <<paymentStatus, orderOf, ref, captures, claims, outside, answers, moneyBack>>
  BY DEF ClaimCreate, orders, ledger, verification, events, refunds, provider, outside, answers,
     moneyBack
<1>2. p \in Payments /\ status[p] = "CREATED" /\ ~ref[p] /\ requests[r].at = "started"
  BY DEF ClaimCreate, Claimable, RequestTypes
<1>3. /\ requests'[r].at = "claimed" /\ requests'[r].payment = p
      /\ \A q \in Requests \ {r} : requests'[q] = requests[q]
  BY <1>1 DEF RequestTypes
<1>4. /\ status' \in [Payments -> Statuses] /\ status'[p] = "PENDING"
      /\ \A q \in Payments \ {p} : status'[q] = status[q]
  BY <1>1, <1>2 DEF PaymentTypes, Statuses, Active
<1>5. PaymentTypes' /\ OutcomeTypes' /\ RefundTypes'
  BY <1>1, <1>4 DEF PaymentTypes, OutcomeTypes, RefundTypes, outside, answers, moneyBack
<1>6. RequestTypes'
  BY <1>1, <1>2, <1>3 DEF RequestTypes
<1>7. AnswersAreTrue' /\ PaidIsCaptured' /\ OneCapture' /\ CreatedForOrder'
  BY <1>1, <1>2, <1>4 DEF AnswersAreTrue, Confirmed, PaidIsCaptured, OneCapture, CreatedForOrder,
     outside, answers, Recognised
<1>8. OrderFollowsPayments'
  BY <1>1, <1>2, <1>4 DEF OrderFollowsPayments, Recognised
<1>9. OneActive'
  BY <1>1, <1>2, <1>4 DEF OneActive, Active
<1>10. \A q \in Requests \ {r} : Creating(q) => requests[q].payment \in Payments \ {p}
  BY <1>2 DEF OneCreates, RequestTypes, Creating
<1>11. OneCreates'
  BY <1>1, <1>2, <1>3, <1>4, <1>10 DEF OneCreates, Creating
<1>12. OneSession'
  BY <1>1, <1>2, <1>3, <1>4, <1>10 DEF OneSession, Creating, outside
<1>13. RefundsOfPaid'
  BY <1>1, <1>2, <1>4 DEF RefundsOfPaid, RefundTypes, moneyBack, Recognised
<1> QED BY <1>5, <1>6, <1>7, <1>8, <1>9, <1>11, <1>12, <1>13

\* The provider's answer to the holder of the claim.
LEMMA AnsweredKeepsIInv ==
  ASSUME IInv, NEW r \in Requests, requests[r].at = "claimed",
         NEW at \in {"answered", "failed"}, requests' = [requests EXCEPT ![r].at = at],
         sessions' \in {sessions, [sessions EXCEPT ![requests[r].payment] = @ + 1]},
         UNCHANGED <<rows, claims, money, answers, moneyBack>>
  PROVE  IInv'
<1> USE DEF IInv, Books, rows, answers, moneyBack
<1> DEFINE p == requests[r].payment
<1>1. p \in Payments /\ sessions[p] = 0 /\ status[p] = "PENDING" /\ ~ref[p]
  BY DEF RequestTypes, OneSession, OneCreates, Creating
<1>2. /\ requests'[r].at = at /\ requests'[r].payment = p
      /\ \A q \in Requests \ {r} : requests'[q] = requests[q]
  BY DEF RequestTypes
<1>3. /\ sessions' \in [Payments -> Nat] /\ sessions'[p] <= 1
      /\ \A q \in Payments \ {p} : sessions'[q] = sessions[q]
  BY <1>1 DEF PaymentTypes
<1>4. PaymentTypes' /\ OutcomeTypes' /\ RefundTypes'
  BY <1>3 DEF PaymentTypes, OutcomeTypes, RefundTypes
<1>5. RequestTypes'
  BY <1>1, <1>2 DEF RequestTypes
<1>6. /\ AnswersAreTrue' /\ PaidIsCaptured' /\ OneCapture' /\ OrderFollowsPayments'
      /\ CreatedForOrder' /\ OneActive' /\ RefundsOfPaid'
  BY DEF AnswersAreTrue, Confirmed, PaidIsCaptured, OneCapture, OrderFollowsPayments, CreatedForOrder,
     OneActive, RefundsOfPaid
<1>7. OneCreates'
  BY <1>1, <1>2 DEF OneCreates, Creating
<1>8. \A q \in Requests \ {r} : Creating(q) => requests[q].payment \in Payments \ {p}
  BY <1>1 DEF OneCreates, RequestTypes, Creating
<1>9. OneSession'
  BY <1>1, <1>2, <1>3, <1>8 DEF OneSession, Creating
<1> QED BY <1>4, <1>5, <1>6, <1>7, <1>9

\* The holder of the claim records the answer.
LEMMA RecordedKeepsIInv ==
  ASSUME IInv, NEW r \in Requests, SetProviderRef(r) \/ MarkCreateFailed(r)
  PROVE  IInv'
<1> USE DEF IInv, Books
<1> DEFINE p == requests[r].payment
<1>1. /\ requests' = [requests EXCEPT ![r] = Idle] /\ Creating(r)
      /\ UNCHANGED <<paymentStatus, orderOf, captures, claims, outside, answers, moneyBack>>
  BY DEF SetProviderRef, MarkCreateFailed, orders, ledger, verification, events, refunds, provider,
     outside, answers, moneyBack, Creating
<1>2. p \in Payments /\ status[p] = "PENDING" /\ ~ref[p]
  BY <1>1 DEF OneCreates, Creating, RequestTypes
<1>3. \/ status' = status /\ ref' = [ref EXCEPT ![p] = TRUE]
      \/ status' = [status EXCEPT ![p] = "FAILED"] /\ ref' = ref
  BY <1>2 DEF SetProviderRef, MarkCreateFailed, PaymentTypes
<1>4. /\ \A q \in Requests \ {r} : requests'[q] = requests[q]
      /\ requests'[r] = Idle /\ ~Creating(r)'
  BY <1>1 DEF RequestTypes, Creating, Idle
<1>5. /\ status' \in [Payments -> Statuses] /\ status'[p] \in {"PENDING", "FAILED"}
      /\ ref' \in [Payments -> BOOLEAN]
      /\ \A q \in Payments \ {p} : status'[q] = status[q] /\ ref'[q] = ref[q]
  BY <1>2, <1>3 DEF PaymentTypes, Statuses, Active
<1>6. PaymentTypes' /\ OutcomeTypes' /\ RefundTypes'
  BY <1>1, <1>5 DEF PaymentTypes, OutcomeTypes, RefundTypes, outside, answers, moneyBack
<1>7. RequestTypes'
  BY <1>1, <1>4 DEF RequestTypes, Idle
<1>8. AnswersAreTrue' /\ PaidIsCaptured' /\ OneCapture' /\ CreatedForOrder'
  BY <1>1, <1>2, <1>5 DEF AnswersAreTrue, Confirmed, PaidIsCaptured, OneCapture, CreatedForOrder,
     outside, answers, Recognised
<1>9. OrderFollowsPayments'
  BY <1>1, <1>2, <1>5 DEF OrderFollowsPayments, Recognised
<1>10. OneActive'
  BY <1>1, <1>2, <1>5 DEF OneActive, Active
<1>11. \A q \in Requests \ {r} : Creating(q) => requests[q].payment \in Payments \ {p}
  BY <1>1 DEF OneCreates, RequestTypes, Creating
<1>12. OneCreates'
  BY <1>4, <1>5, <1>11 DEF OneCreates, Creating
<1>13. OneSession'
  BY <1>1, <1>2, <1>4, <1>5, <1>11 DEF OneSession, Creating, outside, Idle
<1>14. RefundsOfPaid'
  BY <1>1, <1>2, <1>5 DEF RefundsOfPaid, RefundTypes, moneyBack, Recognised
<1> QED BY <1>6, <1>7, <1>8, <1>9, <1>10, <1>12, <1>13, <1>14

LEMMA RequestKeepsIInv ==
  ASSUME IInv, NEW r \in Requests, RequestNext(r)
  PROVE  IInv'
<1> USE DEF orders, payments, ledger, verification, events, refunds, provider, rows, outside, answers,
        moneyBack
<1>1. ASSUME NEW o \in Orders, NEW k \in Keys, ReplayStart(r, o, k)
      PROVE  IInv'
  <2> DEFINE p == claims[<<o, k>>]
  <2>1. p \in Payments
    BY <1>1 DEF ReplayStart, IInv, RequestTypes
  <2>2. requests' \in {[requests EXCEPT ![r] = Idle],
                       [requests EXCEPT ![r] = [at |-> "started", payment |-> p]]}
    BY <1>1 DEF ReplayStart, Continue
  <2>3. claims' \in [Orders \X Keys -> Payments \cup {NoPayment}]
    BY <1>1 DEF ReplayStart, IInv, RequestTypes
  <2>4. UNCHANGED <<rows, outside, answers, moneyBack>>
    BY <1>1 DEF ReplayStart
  <2> QED BY <2>1, <2>2, <2>3, <2>4, TakeUpKeepsIInv
<1>2. ASSUME NEW o \in Orders, NEW k \in Keys, ResumePayment(r, o, k)
      PROVE  IInv'
  <2>1. PICK p \in ActivePayments(o) :
          claims' = [claims EXCEPT ![<<o, k>>] = p] /\ Continue(r, p)
    BY <1>2 DEF ResumePayment
  <2>2. p \in Payments
    BY DEF ActivePayments
  <2>3. requests' \in {[requests EXCEPT ![r] = Idle],
                       [requests EXCEPT ![r] = [at |-> "started", payment |-> p]]}
    BY <2>1 DEF Continue
  <2>4. claims' \in [Orders \X Keys -> Payments \cup {NoPayment}]
    BY <2>1, <2>2 DEF IInv, RequestTypes
  <2>5. UNCHANGED <<rows, outside, answers, moneyBack>>
    BY <1>2 DEF ResumePayment
  <2> QED BY <2>2, <2>3, <2>4, <2>5, TakeUpKeepsIInv
<1>3. ASSUME NEW o \in Orders, NEW k \in Keys, CreatePayment(r, o, k)
      PROVE  IInv'
  BY <1>3, CreateKeepsIInv
<1>4. CASE ClaimCreate(r) /\ Claimable(requests[r].payment)
  BY <1>4, ClaimKeepsIInv
<1>5. CASE (ClaimCreate(r) /\ ~Claimable(requests[r].payment)) \/ RequestStops(r)
  <2>1. requests[r].payment \in Payments
    BY <1>5 DEF ClaimCreate, RequestStops, IInv, RequestTypes, Idle
  <2> QED BY <1>5, <2>1, TakeUpKeepsIInv DEF ClaimCreate, RequestStops, IInv, RequestTypes
<1>6. ASSUME NEW at \in {"answered", "failed"}, ProviderCreates(r, at)
      PROVE  IInv'
  BY <1>6, AnsweredKeepsIInv DEF ProviderCreates
<1>7. CASE ProviderRejects(r)
  BY <1>7, AnsweredKeepsIInv DEF ProviderRejects
<1>8. CASE SetProviderRef(r) \/ MarkCreateFailed(r)
  BY <1>8, RecordedKeepsIInv
<1> QED BY <1>1, <1>2, <1>3, <1>4, <1>5, <1>6, <1>7, <1>8 DEF RequestNext

LEMMA ForgetKeepsIInv ==
  ASSUME IInv, NEW o \in Orders, NEW k \in Keys, ForgetKey(o, k)
  PROVE  IInv'
<1> USE DEF orders, payments, ledger, verification, events, refunds, provider, rows, outside, answers,
        moneyBack
<1>1. claims' \in [Orders \X Keys -> Payments \cup {NoPayment}]
  BY DEF ForgetKey, IInv, RequestTypes
<1>2. UNCHANGED <<rows, requests, outside, answers, moneyBack>>
  BY DEF ForgetKey
<1> USE DEF IInv, Books
<1>3. PaymentTypes' /\ RequestTypes' /\ OutcomeTypes' /\ RefundTypes'
  BY <1>1, <1>2 DEF PaymentTypes, RequestTypes, OutcomeTypes, RefundTypes
<1>4. /\ AnswersAreTrue' /\ PaidIsCaptured' /\ OneCapture' /\ OrderFollowsPayments'
      /\ CreatedForOrder' /\ OneActive' /\ RefundsOfPaid' /\ OneCreates' /\ OneSession'
  BY <1>2 DEF AnswersAreTrue, Confirmed, PaidIsCaptured, OneCapture, OrderFollowsPayments,
     CreatedForOrder, OneActive, RefundsOfPaid, OneCreates, OneSession, Creating
<1> QED BY <1>3, <1>4

-----------------------------------------------------------------------------
(* The provider, and what it answers.                                      *)

\* Money only moves on a payment that is not captured.
LEMMA ProviderKeepsIInv ==
  ASSUME IInv, NEW p \in Payments, Authorize(p) \/ Capture(p) \/ Decline(p)
  PROVE  IInv'
<1> USE DEF IInv, Books
<1>1. /\ money[p] # "captured"
      /\ \E to \in {"authorized", "captured", "declined"} : money' = [money EXCEPT ![p] = to]
      /\ UNCHANGED <<rows, sessions, claims, requests, answers, moneyBack>>
  BY DEF Authorize, Capture, Decline, ProviderActs, orders, payments, ledger, verification, events,
     refunds, rows, answers, moneyBack
<1>2. /\ money' \in [Payments -> {"open", "authorized", "captured", "declined"}]
      /\ \A q \in Payments : money[q] = "captured" => money'[q] = "captured"
  BY <1>1 DEF PaymentTypes
<1>3. PaymentTypes' /\ RequestTypes' /\ OutcomeTypes' /\ RefundTypes'
  BY <1>1, <1>2 DEF PaymentTypes, RequestTypes, OutcomeTypes, RefundTypes, rows, answers, moneyBack
<1>4. PaidIsCaptured'
  BY <1>1, <1>2 DEF PaidIsCaptured, rows
<1>5. \A o \in Outcomes : Confirmed(o) => Confirmed(o)'
  BY <1>2 DEF Confirmed, Outcomes
<1>6. AnswersAreTrue'
  <2>1. ASSUME NEW w \in Verifiers \cup {Sweeper}, NEW o \in held'[w]
        PROVE  Confirmed(o)'
    BY <1>1, <1>5 DEF AnswersAreTrue, OutcomeTypes, answers
  <2>2. ASSUME NEW e \in Events, NEW o \in eventOutcome'[e]
        PROVE  Confirmed(o)'
    BY <1>1, <1>5 DEF AnswersAreTrue, OutcomeTypes, answers
  <2> QED BY <2>1, <2>2 DEF AnswersAreTrue
<1>7. /\ OneCapture' /\ OrderFollowsPayments' /\ CreatedForOrder' /\ OneActive' /\ RefundsOfPaid'
      /\ OneCreates' /\ OneSession'
  BY <1>1 DEF OneCapture, OrderFollowsPayments, CreatedForOrder, OneActive, RefundsOfPaid, OneCreates,
     OneSession, Creating, rows, moneyBack
<1> QED BY <1>3, <1>4, <1>6, <1>7

LEMMA OutcomesAreConfirmed ==
  ASSUME PaymentTypes, NEW p \in Payments, NEW o \in Outcome(p, ReturnAnswers(p))
  PROVE  o \in Outcomes /\ Confirmed(o)
<1>1. /\ o \in [payment : {p}, status : OutcomeStatuses, txn : TxnRefs, matches : Matching]
      /\ o.matches => o.status \in ReturnAnswers(p)
  BY DEF Outcome
<1>2. o \in Outcomes
  BY <1>1, PaymentsAssumption DEF Outcomes
<1>3. "PAID" \in ReturnAnswers(p) => money[p] = "captured"
  BY DEF ReturnAnswers, Answers, PaymentTypes
<1> QED BY <1>1, <1>2, <1>3 DEF Confirmed

LEMMA AnswersAreReturned ==
  ASSUME NEW p \in Payments
  PROVE  Outcome(p, Answers(p)) \subseteq Outcome(p, ReturnAnswers(p))
BY DEF Outcome, ReturnAnswers

\* Outcomes are obtained, given up or marked: nothing but they changes.
LEMMA HeldKeepsIInv ==
  ASSUME IInv, UNCHANGED <<rows, claims, requests, outside, moneyBack>>, OutcomeTypes', AnswersAreTrue'
  PROVE  IInv'
<1> USE DEF IInv, Books
<1>1. PaymentTypes' /\ RequestTypes' /\ RefundTypes'
  BY DEF PaymentTypes, RequestTypes, RefundTypes, rows, outside, moneyBack
<1>2. /\ PaidIsCaptured' /\ OneCapture' /\ OrderFollowsPayments' /\ CreatedForOrder' /\ OneActive'
      /\ RefundsOfPaid' /\ OneCreates' /\ OneSession'
  BY DEF PaidIsCaptured, OneCapture, OrderFollowsPayments, CreatedForOrder, OneActive, RefundsOfPaid,
     OneCreates, OneSession, Creating, rows, outside, moneyBack
<1> QED BY <1>1, <1>2

LEMMA HoldAnswers ==
  ASSUME OutcomeTypes, AnswersAreTrue, NEW w \in Verifiers \cup {Sweeper}, NEW S \in SUBSET Outcomes,
         \A o \in S : Confirmed(o), held' = [held EXCEPT ![w] = S], UNCHANGED <<money, eventOutcome>>
  PROVE  OutcomeTypes' /\ AnswersAreTrue'
<1>1. OutcomeTypes'
  BY DEF OutcomeTypes
<1>2. \A o \in Outcomes : Confirmed(o) => Confirmed(o)'
  BY DEF Confirmed
<1>3. \A v \in Verifiers \cup {Sweeper} : held'[v] = IF v = w THEN S ELSE held[v]
  BY DEF OutcomeTypes
<1>4. ASSUME NEW v \in Verifiers \cup {Sweeper}, NEW o \in held'[v]
      PROVE  Confirmed(o)'
  BY <1>2, <1>3, <1>4 DEF AnswersAreTrue, OutcomeTypes
<1>5. ASSUME NEW e \in Events, NEW o \in eventOutcome'[e]
      PROVE  Confirmed(o)'
  BY <1>2, <1>5 DEF AnswersAreTrue, OutcomeTypes
<1> QED BY <1>1, <1>4, <1>5 DEF AnswersAreTrue

LEMMA StoreAnswers ==
  ASSUME OutcomeTypes, AnswersAreTrue, NEW e \in Events, NEW S \in SUBSET Outcomes,
         \A o \in S : Confirmed(o), eventOutcome' = [eventOutcome EXCEPT ![e] = S],
         UNCHANGED <<money, held>>
  PROVE  OutcomeTypes' /\ AnswersAreTrue'
<1>1. OutcomeTypes'
  BY DEF OutcomeTypes
<1>2. \A o \in Outcomes : Confirmed(o) => Confirmed(o)'
  BY DEF Confirmed
<1>3. \A d \in Events : eventOutcome'[d] = IF d = e THEN S ELSE eventOutcome[d]
  BY DEF OutcomeTypes
<1>4. ASSUME NEW v \in Verifiers \cup {Sweeper}, NEW o \in held'[v]
      PROVE  Confirmed(o)'
  BY <1>2, <1>4 DEF AnswersAreTrue, OutcomeTypes
<1>5. ASSUME NEW d \in Events, NEW o \in eventOutcome'[d]
      PROVE  Confirmed(o)'
  BY <1>2, <1>3, <1>5 DEF AnswersAreTrue, OutcomeTypes
<1> QED BY <1>1, <1>4, <1>5 DEF AnswersAreTrue

LEMMA SameAnswers ==
  ASSUME OutcomeTypes, AnswersAreTrue, UNCHANGED <<money, answers>>
  PROVE  OutcomeTypes' /\ AnswersAreTrue'
BY DEF OutcomeTypes, AnswersAreTrue, Confirmed, answers

-----------------------------------------------------------------------------
(* The application of an outcome, whichever source it comes from.          *)
LEMMA ApplyKeepsIInv ==
  ASSUME IInv, NEW o \in Outcomes, Confirmed(o), ApplyPaymentOutcome(o),
         UNCHANGED <<claims, requests, outside, moneyBack>>, OutcomeTypes', AnswersAreTrue'
  PROVE  IInv'
<1> USE DEF IInv, Books
<1> DEFINE p == o.payment
<1>1. /\ p \in Payments /\ o.status \in OutcomeStatuses
      /\ UNCHANGED <<orderOf, ref>>
  BY DEF Outcomes, ApplyPaymentOutcome
<1>2. CASE ~Applies(o)
  <2>1. status' = status /\ captures' = captures /\ UNCHANGED <<orderOf, ref>>
    BY <1>2 DEF ApplyPaymentOutcome, Captures
  <2>2. paymentStatus' = paymentStatus
    <3>1. paymentStatus' = [d \in Orders |-> paymentStatus[d]]
      BY <1>2 DEF ApplyPaymentOutcome, Captures, MarkOrderPaid
    <3> QED BY <3>1 DEF PaymentTypes
  <2> QED BY <2>1, <2>2, HeldKeepsIInv DEF rows
<1>3. CASE Applies(o)
  <2>1. ref[p] /\ DecideTransition(status[p], o.status) /\ o.matches
    BY <1>3 DEF Applies
  <2>2. status[p] \in Active \cup {"FAILED"} /\ (o.status \in Active => status[p] \in Active)
    BY <2>1 DEF DecideTransition, Active
  <2>3. /\ status' \in [Payments -> Statuses] /\ status'[p] = o.status
        /\ \A q \in Payments \ {p} : status'[q] = status[q]
    BY <1>1, <1>3 DEF ApplyPaymentOutcome, PaymentTypes, Statuses, Active, Recognised, OutcomeStatuses
  <2>4. /\ captures' \in [Payments -> Nat]
        /\ captures'[p] = IF o.status = "PAID" THEN captures[p] + 1 ELSE captures[p]
        /\ \A q \in Payments \ {p} : captures'[q] = captures[q]
    BY <1>1, <1>3 DEF ApplyPaymentOutcome, Captures, PaymentTypes
  <2>5. /\ paymentStatus' \in [Orders -> {"UNPAID"} \cup Recognised]
        /\ \A d \in Orders :
             paymentStatus'[d] # "UNPAID" <=>
               paymentStatus[d] # "UNPAID" \/ (o.status = "PAID" /\ d = orderOf[p])
    BY <1>1, <1>3 DEF ApplyPaymentOutcome, Captures, MarkOrderPaid, PaymentTypes, Recognised
  <2>6. PaymentTypes' /\ RequestTypes' /\ RefundTypes'
    BY <1>1, <2>3, <2>4, <2>5 DEF PaymentTypes, RequestTypes, RefundTypes, outside, moneyBack
  <2>7. PaidIsCaptured'
    BY <1>1, <2>1, <2>3 DEF PaidIsCaptured, Confirmed, outside, OutcomeStatuses, Recognised
  <2>8. OneCapture'
    <3>1. captures[p] = 0
      BY <1>1, <2>2 DEF OneCapture, Active, Recognised
    <3> QED BY <1>1, <2>3, <2>4, <3>1 DEF OneCapture, OutcomeStatuses, Recognised
  <2>9. OrderFollowsPayments'
    <3>1. \A q \in Payments : status'[q] \in Recognised <=>
                                status[q] \in Recognised \/ (q = p /\ o.status = "PAID")
      BY <1>1, <2>2, <2>3 DEF OutcomeStatuses, Recognised, Active
    <3> QED BY <1>1, <2>5, <3>1 DEF OrderFollowsPayments
  <2>10. CreatedForOrder'
    BY <1>1, <2>1, <2>2, <2>3 DEF CreatedForOrder, Active
  <2>11. OneActive'
    BY <1>1, <2>2, <2>3 DEF OneActive
  <2>12. \A r \in Requests : Creating(r) => requests[r].payment \in Payments \ {p}
    BY <2>1 DEF OneCreates, RequestTypes, Creating
  <2>13. OneCreates'
    BY <1>1, <2>3, <2>12 DEF OneCreates, Creating
  <2>14. OneSession'
    BY <1>1, <2>2, <2>3 DEF OneSession, outside, OutcomeStatuses
  <2>15. RefundsOfPaid'
    BY <1>1, <2>2, <2>3 DEF RefundsOfPaid, RefundTypes, moneyBack, Active, Recognised
  <2> QED BY <2>6, <2>7, <2>8, <2>9, <2>10, <2>11, <2>13, <2>14, <2>15
<1> QED BY <1>2, <1>3

LEMMA VerifierKeepsIInv ==
  ASSUME IInv, NEW w \in Verifiers, VerifierNext(w)
  PROVE  IInv'
<1> USE DEF orders, payments, ledger, refunds, provider, events, rows, outside, moneyBack
<1>0. OutcomeTypes /\ AnswersAreTrue /\ PaymentTypes
  BY DEF IInv, Books
<1>1. ASSUME NEW p \in Payments, Verify(w, p)
      PROVE  IInv'
  <2>1. PICK o \in Outcome(p, ReturnAnswers(p)) : held' = [held EXCEPT ![w] = {o}]
    BY <1>1 DEF Verify
  <2>2. {o} \in SUBSET Outcomes /\ \A x \in {o} : Confirmed(x)
    BY <1>0, OutcomesAreConfirmed
  <2>3. UNCHANGED <<rows, claims, requests, outside, eventOutcome, moneyBack>>
    BY <1>1 DEF Verify
  <2> QED BY <1>0, <2>1, <2>2, <2>3, HoldAnswers, HeldKeepsIInv
<1>2. CASE ApplyVerified(w)
  <2>1. PICK o \in held[w] : ApplyPaymentOutcome(o)
    BY <1>2 DEF ApplyVerified
  <2>2. o \in Outcomes /\ Confirmed(o)
    BY <1>0 DEF OutcomeTypes, AnswersAreTrue
  <2>3. held' = [held EXCEPT ![w] = {}] /\ UNCHANGED <<claims, requests, outside, eventOutcome, moneyBack>>
    BY <1>2 DEF ApplyVerified
  <2>4. OutcomeTypes' /\ AnswersAreTrue'
    BY <1>0, <2>3, HoldAnswers
  <2> QED BY <2>1, <2>2, <2>3, <2>4, ApplyKeepsIInv
<1>3. CASE VerifierStops(w)
  <2>1. /\ held' = [held EXCEPT ![w] = {}]
        /\ UNCHANGED <<rows, claims, requests, outside, eventOutcome, moneyBack>>
    BY <1>3 DEF VerifierStops
  <2> QED BY <1>0, <2>1, HoldAnswers, HeldKeepsIInv
<1> QED BY <1>1, <1>2, <1>3 DEF VerifierNext

LEMMA SweepKeepsIInv ==
  ASSUME IInv, SweepNext
  PROVE  IInv'
<1> USE DEF orders, payments, ledger, refunds, provider, events, rows, outside, moneyBack
<1>0. OutcomeTypes /\ AnswersAreTrue /\ PaymentTypes
  BY DEF IInv, Books
<1>5. Sweeper \in Verifiers \cup {Sweeper} /\ {} \in SUBSET Outcomes /\ \A o \in {} : Confirmed(o)
  OBVIOUS
<1>1. CASE SweepList
  <2>1. UNCHANGED <<rows, claims, requests, outside, answers, moneyBack>>
    BY <1>1 DEF SweepList, answers
  <2> QED BY <1>0, <2>1, SameAnswers, HeldKeepsIInv
<1>2. ASSUME NEW p \in Payments, SweepAsk(p)
      PROVE  IInv'
  <2>1. PICK o \in Outcome(p, Answers(p)) : held' = [held EXCEPT ![Sweeper] = {o}]
    BY <1>2 DEF SweepAsk
  <2>2. {o} \in SUBSET Outcomes /\ \A x \in {o} : Confirmed(x)
    BY <1>0, OutcomesAreConfirmed, AnswersAreReturned
  <2>3. UNCHANGED <<rows, claims, requests, outside, eventOutcome, moneyBack>>
    BY <1>2 DEF SweepAsk
  <2> QED BY <1>0, <2>1, <2>2, <2>3, HoldAnswers, HeldKeepsIInv
<1>3. ASSUME NEW p \in Payments, SweepApply(p)
      PROVE  IInv'
  <2>1. PICK o \in held[Sweeper] : ApplyPaymentOutcome(o)
    BY <1>3 DEF SweepApply
  <2>2. o \in Outcomes /\ Confirmed(o)
    BY <1>0 DEF OutcomeTypes, AnswersAreTrue
  <2>3. /\ held' = [held EXCEPT ![Sweeper] = {}]
        /\ UNCHANGED <<claims, requests, outside, eventOutcome, moneyBack>>
    BY <1>3 DEF SweepApply
  <2>4. OutcomeTypes' /\ AnswersAreTrue'
    BY <1>0, <1>5, <2>3, HoldAnswers
  <2> QED BY <2>1, <2>2, <2>3, <2>4, ApplyKeepsIInv
<1>4. CASE SweepFails
  <2>1. /\ held' = [held EXCEPT ![Sweeper] = {}]
        /\ UNCHANGED <<rows, claims, requests, outside, eventOutcome, moneyBack>>
    BY <1>4 DEF SweepFails
  <2> QED BY <1>0, <1>5, <2>1, HoldAnswers, HeldKeepsIInv
<1> QED BY <1>1, <1>2, <1>3, <1>4 DEF SweepNext

LEMMA EventKeepsIInv ==
  ASSUME IInv, NEW e \in Events, EventNext(e)
  PROVE  IInv'
<1> USE DEF orders, payments, ledger, refunds, provider, verification, rows, outside, moneyBack, answers
<1>0. OutcomeTypes /\ AnswersAreTrue /\ PaymentTypes
  BY DEF IInv, Books
<1>1. ASSUME NEW p \in Payments, ReceiveWebhook(e, p)
      PROVE  IInv'
  <2>1. PICK o \in Outcome(p, Answers(p)) : eventOutcome' = [eventOutcome EXCEPT ![e] = {o}]
    BY <1>1 DEF ReceiveWebhook
  <2>2. {o} \in SUBSET Outcomes /\ \A x \in {o} : Confirmed(x)
    BY <1>0, OutcomesAreConfirmed, AnswersAreReturned
  <2>3. UNCHANGED <<rows, claims, requests, outside, held, moneyBack>>
    BY <1>1 DEF ReceiveWebhook
  <2> QED BY <1>0, <2>1, <2>2, <2>3, StoreAnswers, HeldKeepsIInv
<1>2. CASE ProcessEvent(e)
  <2>1. PICK o \in eventOutcome[e] : ApplyPaymentOutcome(o)
    BY <1>2 DEF ProcessEvent
  <2>2. o \in Outcomes /\ Confirmed(o)
    BY <1>0 DEF OutcomeTypes, AnswersAreTrue
  <2>3. UNCHANGED <<claims, requests, outside, answers, moneyBack>>
    BY <1>2 DEF ProcessEvent
  <2>4. OutcomeTypes' /\ AnswersAreTrue'
    BY <1>0, <2>3, SameAnswers
  <2> QED BY <2>1, <2>2, <2>3, <2>4, ApplyKeepsIInv
<1>3. CASE MarkEventProcessed(e)
  <2>1. UNCHANGED <<rows, claims, requests, outside, answers, moneyBack>>
    BY <1>3 DEF MarkEventProcessed
  <2> QED BY <1>0, <2>1, SameAnswers, HeldKeepsIInv
<1> QED BY <1>1, <1>2, <1>3 DEF EventNext

-----------------------------------------------------------------------------
(* Refunds.                                                                *)
LEMMA RefundRowsKeepIInv ==
  ASSUME IInv, UNCHANGED <<rows, claims, requests, outside, answers>>, RefundTypes', RefundsOfPaid'
  PROVE  IInv'
<1> USE DEF IInv, Books
<1>1. PaymentTypes' /\ RequestTypes'
  BY DEF PaymentTypes, RequestTypes, rows, outside
<1>2. OutcomeTypes' /\ AnswersAreTrue'
  <2>1. UNCHANGED <<money, answers>>
    BY DEF outside
  <2> QED BY <2>1, SameAnswers
<1>3. /\ PaidIsCaptured' /\ OneCapture' /\ OrderFollowsPayments' /\ CreatedForOrder' /\ OneActive'
      /\ OneCreates' /\ OneSession'
  BY DEF PaidIsCaptured, OneCapture, OrderFollowsPayments, CreatedForOrder, OneActive,
     OneCreates, OneSession, Creating, rows, outside
<1> QED BY <1>1, <1>2, <1>3

\* A completed refund: the order and the payment stay recognised.
LEMMA SyncKeepsIInv ==
  ASSUME IInv, NEW f \in Refunds, SyncOrderRefundTotals(f)
  PROVE  IInv'
<1> USE DEF IInv, Books
<1> DEFINE p == refund[f].payment
           next == RefundedStatus(seen[f])
<1>1. /\ refund' = [refund EXCEPT ![f].status = "COMPLETED"]
      /\ work' = [work EXCEPT ![f] = "none"]
      /\ paymentStatus' = [paymentStatus EXCEPT ![orderOf[p]] = next]
      /\ status' = IF status[p] \in Recognised THEN [status EXCEPT ![p] = next] ELSE status
      /\ UNCHANGED <<orderOf, ref, captures, claims, requests, outside, answers>>
  BY DEF SyncOrderRefundTotals, ledger, verification, events, provider, outside, answers
<1>2. p \in Payments /\ status[p] \in Recognised
  BY DEF SyncOrderRefundTotals, RefundTypes, RefundsOfPaid
<1>3. next \in Recognised /\ orderOf[p] \in Orders
  BY <1>2 DEF RefundedStatus, Recognised, CreatedForOrder
<1> HIDE DEF next
<1>4. /\ status' \in [Payments -> Statuses] /\ status'[p] = next
      /\ \A q \in Payments \ {p} : status'[q] = status[q]
  BY <1>1, <1>2, <1>3 DEF PaymentTypes, Statuses
<1>5. /\ paymentStatus' \in [Orders -> {"UNPAID"} \cup Recognised] /\ paymentStatus'[orderOf[p]] = next
      /\ \A o \in Orders \ {orderOf[p]} : paymentStatus'[o] = paymentStatus[o]
  BY <1>1, <1>3 DEF PaymentTypes
<1>6. PaymentTypes' /\ RequestTypes'
  BY <1>1, <1>4, <1>5 DEF PaymentTypes, RequestTypes, outside
<1>7. \A q \in Payments : status'[q] \in Recognised <=> status[q] \in Recognised
  BY <1>2, <1>3, <1>4
<1>8. \A q \in Payments : status[q] \in Recognised => status'[q] \notin Active \cup {"NONE", "FAILED"}
  BY <1>7 DEF Recognised, Active
<1>9. \A q \in Payments : status[q] \notin Recognised => status'[q] = status[q]
  BY <1>2, <1>4
<1>10. RefundTypes'
  BY <1>1, <1>2 DEF RefundTypes, Outstanding
<1>11. \A g \in Refunds : refund'[g].payment = refund[g].payment /\ (work'[g] # "none" => work[g] # "none")
  BY <1>1 DEF RefundTypes
<1>12. RefundsOfPaid'
  BY <1>7, <1>11 DEF RefundsOfPaid, RefundTypes
<1>13. OutcomeTypes' /\ AnswersAreTrue'
  <2>1. UNCHANGED <<money, answers>>
    BY <1>1 DEF outside
  <2> QED BY <2>1, SameAnswers
<1>14. PaidIsCaptured' /\ OneCapture'
  BY <1>1, <1>7 DEF PaidIsCaptured, OneCapture, outside
<1>15. OrderFollowsPayments'
  <2>1. \A o \in Orders : paymentStatus'[o] # "UNPAID" <=> paymentStatus[o] # "UNPAID"
    BY <1>2, <1>3, <1>5 DEF OrderFollowsPayments, Recognised
  <2> QED BY <1>1, <1>7, <2>1 DEF OrderFollowsPayments
<1>16. CreatedForOrder'
  BY <1>1, <1>2, <1>3, <1>9, <1>4 DEF CreatedForOrder, Recognised
<1>17. OneActive'
  BY <1>1, <1>8, <1>9 DEF OneActive
<1>18. \A r \in Requests : Creating(r) => requests[r].payment \in Payments \ {p}
  BY <1>2 DEF OneCreates, RequestTypes, Creating, Recognised
<1>19. OneCreates'
  BY <1>1, <1>4, <1>18 DEF OneCreates, Creating
<1>20. OneSession'
  BY <1>1, <1>3, <1>4 DEF OneSession, outside, Recognised
<1> QED BY <1>6, <1>10, <1>12, <1>13, <1>14, <1>15, <1>16, <1>17, <1>19, <1>20

LEMMA RefundKeepsIInv ==
  ASSUME IInv, NEW f \in Refunds, RefundNext(f)
  PROVE  IInv'
<1> USE DEF orders, payments, ledger, provider, verification, events, rows, outside, answers
<1>0. RefundTypes /\ RefundsOfPaid /\ PaymentTypes
  BY DEF IInv, Books
<1>1. ASSUME NEW p \in Payments, NEW amount \in RefundAmounts, RequestRefund(f, p, amount)
      PROVE  IInv'
  <2> DEFINE row == [status |-> "REQUESTED", payment |-> p, amount |-> amount]
  <2>1. /\ refund' = [refund EXCEPT ![f] = row] /\ work' = [work EXCEPT ![f] = "asking"]
        /\ status[p] \in Recognised
        /\ UNCHANGED <<rows, claims, requests, outside, answers>>
    BY <1>1 DEF RequestRefund, Recognised
  <2>2. /\ refund'[f].payment = p
        /\ \A g \in Refunds \ {f} : refund'[g] = refund[g] /\ work'[g] = work[g]
    BY <1>0, <2>1 DEF RefundTypes
  <2>3. RefundTypes'
    BY <1>0, <2>1, <2>2 DEF RefundTypes, Outstanding
  <2>4. status' = status
    BY <2>1
  <2>5. RefundsOfPaid'
    BY <1>0, <2>1, <2>2, <2>4 DEF RefundsOfPaid, RefundTypes
  <2> QED BY <2>1, <2>3, <2>5, RefundRowsKeepIInv
<1>2. CASE \/ \E answer \in {"COMPLETED", "PENDING", "FAILED"} : ProviderRefunds(f, answer)
           \/ MarkRefundOutcome(f) \/ SumRefunds(f) \/ RefundStops(f)
  <2>1. /\ refund' \in {refund, [refund EXCEPT ![f].status = work[f]]}
        /\ refund' # refund => work[f] \in {"PENDING", "FAILED"}
        /\ \E w \in {"none", "COMPLETED", "PENDING", "FAILED", "writing"} : work' = [work EXCEPT ![f] = w]
        /\ work[f] # "none"
        /\ UNCHANGED <<rows, claims, requests, outside, answers>>
    BY <1>2 DEF ProviderRefunds, MarkRefundOutcome, SumRefunds, RefundStops
  <2>2. \A g \in Refunds : refund'[g].payment = refund[g].payment /\ (work'[g] # "none" => work[g] # "none")
    BY <1>0, <2>1 DEF RefundTypes
  <2>3. RefundTypes'
    BY <1>0, <2>1, <2>2 DEF RefundTypes, Outstanding
  <2>4. status' = status
    BY <2>1
  <2>5. RefundsOfPaid'
    BY <1>0, <2>2, <2>4 DEF RefundsOfPaid
  <2> QED BY <2>1, <2>3, <2>5, RefundRowsKeepIInv
<1>3. CASE SyncOrderRefundTotals(f)
  BY <1>3, SyncKeepsIInv
<1> QED BY <1>1, <1>2, <1>3 DEF RefundNext

-----------------------------------------------------------------------------
LEMMA StutterKeepsIInv == IInv /\ UNCHANGED vars => IInv'
<1> SUFFICES ASSUME IInv, UNCHANGED vars
             PROVE  IInv'
  OBVIOUS
<1>1. UNCHANGED <<rows, claims, requests, outside, answers, moneyBack>>
  BY DEF vars, orders, payments, ledger, verification, events, refunds, provider, rows, outside,
     answers, moneyBack
<1>2. UNCHANGED <<money, answers>>
  BY <1>1 DEF outside
<1>3. OutcomeTypes' /\ AnswersAreTrue'
  BY <1>2, SameAnswers DEF IInv, Books
<1> QED BY <1>1, <1>3, HeldKeepsIInv

LEMMA NextIInv == IInv /\ [Next]_vars => IInv'
<1> SUFFICES ASSUME IInv, Next
             PROVE  IInv'
  BY StutterKeepsIInv
<1>1. CASE \E r \in Requests : RequestNext(r)
  BY <1>1, RequestKeepsIInv
<1>2. CASE \E o \in Orders, k \in Keys : ForgetKey(o, k)
  BY <1>2, ForgetKeepsIInv
<1>3. CASE ProviderNext
  BY <1>3, ProviderKeepsIInv DEF ProviderNext
<1>4. CASE \E w \in Verifiers : VerifierNext(w)
  BY <1>4, VerifierKeepsIInv
<1>5. CASE SweepNext
  BY <1>5, SweepKeepsIInv
<1>6. CASE \E e \in Events : EventNext(e)
  BY <1>6, EventKeepsIInv
<1>7. CASE \E f \in Refunds : RefundNext(f)
  BY <1>7, RefundKeepsIInv
<1> QED BY <1>1, <1>2, <1>3, <1>4, <1>5, <1>6, <1>7 DEF Next

\* The inductive invariant: what is held or stored was once true, and what the
\* provider has captured stays so; the holder of a claim is alone with its payment;
\* a refund under way is of a recognised payment.
THEOREM PaymentsInvariant == Spec => []IInv
BY InitIInv, NextIInv, PTL DEF Spec

\* verifyReturn, reconcile, the webhook and the sweep apply answers late, twice and
\* out of order: no payment is recognised that the provider has not captured.
THEOREM PaidCaptured == Spec => []PaidIsCaptured
BY PaymentsInvariant, PTL DEF IInv, Books

\* Each recognised payment has one capture in the ledger, whoever brought the news.
THEOREM CapturedOnce == Spec => []OneCapture
BY PaymentsInvariant, PTL DEF IInv, Books

\* markOrderPaid and syncOrderRefundTotals keep the order's status with its payments'.
THEOREM OrderFollows == Spec => []OrderFollowsPayments
BY PaymentsInvariant, PTL DEF IInv, Books

\* The start transaction, the claim of the creation and the recovery of a failed
\* payment leave an order one payment under way, created once at the provider.
THEOREM OneUnderWay == Spec => []OnePaymentUnderWay
<1>1. OneActive /\ OneSession => OnePaymentUnderWay
  <2> SUFFICES ASSUME OneActive, OneSession, NEW o \in Orders
               PROVE  Cardinality(ActivePayments(o)) <= 1
    BY DEF OnePaymentUnderWay, OneSession
  <2>1. \A p, q \in ActivePayments(o) : p = q
    BY DEF ActivePayments, OneActive
  <2>2. CASE ActivePayments(o) = {}
    BY <2>2, FS_EmptySet
  <2>3. ASSUME NEW p \in ActivePayments(o)
        PROVE  Cardinality(ActivePayments(o)) <= 1
    <3>1. ActivePayments(o) = {p}
      BY <2>1
    <3>2. Cardinality({p}) = 1
      BY FS_Singleton
    <3> QED BY <3>1, <3>2
  <2> QED BY <2>2, <2>3
<1>2. IInv => OnePaymentUnderWay
  BY <1>1 DEF IInv, Books
<1> QED BY <1>2, PaymentsInvariant, PTL

-----------------------------------------------------------------------------
(***************************************************************************)
(* Refunds.  What is claimed, summed and written of them, on top of the    *)
(* invariant above.                                                        *)
(***************************************************************************)
WrittenOf(f) == AmountOf(RefundsOf(refund[f].payment, {"COMPLETED"}))
WrittenOfOrder(f) == AmountOf(CompletedOf(orderOf[refund[f].payment]))

MoneyTypes == refundedTotal \in [Orders -> 0..Amount] /\ seen \in [Refunds -> Nat]

\* A row that is written is of a recognised payment, one whose request is under
\* way is still REQUESTED, and one request at a time has locked a payment's row.
RefundRows ==
  /\ \A f \in Refunds :
       refund[f].status # "NONE" =>
         /\ refund[f].payment \in Payments /\ refund[f].amount \in RefundAmounts
         /\ status[refund[f].payment] \in Recognised
  /\ \A f \in Refunds : work[f] # "none" => refund[f].status = "REQUESTED"
OneWriter ==
  \A f, g \in Refunds :
    work[f] = "writing" /\ work[g] = "writing" /\ refund[f].payment = refund[g].payment => f = g

\* What the holder of the lock has summed: the completed refunds of an order only
\* grow.  It is exact for an order with one paid
\* payment; refunds of another payment may be completed in between.
SumInHand ==
  \A f \in Refunds :
    work[f] = "writing" =>
      /\ seen[f] >= refund[f].amount /\ seen[f] <= refund[f].amount + WrittenOfOrder(f)
      /\ PaidPayments(orderOf[refund[f].payment]) = {refund[f].payment} =>
           seen[f] = refund[f].amount + WrittenOf(f)
      /\ status[refund[f].payment] = "REFUNDED" => seen[f] > Amount

\* The completed refunds of a refunded payment's order leave nothing to refund.
RefundedIsWhole ==
  \A p \in Payments : status[p] = "REFUNDED" => AmountOf(CompletedOf(orderOf[p])) >= Amount

UnpaidIsNotRefunded == \A o \in Orders : PaidPayments(o) = {} => refundedTotal[o] = 0

RefundInvariant ==
  /\ MoneyTypes /\ RefundRows /\ OneWriter /\ RefundsWithinPayment
  /\ SumInHand /\ RefundedIsWhole /\ UnpaidIsNotRefunded /\ RefundBooks

(* Sums of refunds, in terms of the rows r.                                *)
SumOn(r, T) == SumFunctionOnSet([f \in Refunds |-> r[f].amount], T)
Rows(r, p, statuses) == {f \in Refunds : r[f].payment = p /\ r[f].status \in statuses}
Done(r, order, o) == {f \in Refunds : r[f].status = "COMPLETED" /\ order[r[f].payment] = o}

LEMMA AmountIsSum ==
  /\ \A p, S : /\ AmountOf(RefundsOf(p, S)) = SumOn(refund, Rows(refund, p, S))
               /\ AmountOf(RefundsOf(p, S))' = SumOn(refund', Rows(refund', p, S))
  /\ \A o : /\ AmountOf(CompletedOf(o)) = SumOn(refund, Done(refund, orderOf, o))
            /\ AmountOf(CompletedOf(o))' = SumOn(refund', Done(refund', orderOf', o))
BY DEF AmountOf, Amounts, RefundsOf, CompletedOf, SumOn, Rows, Done

LEMMA WrittenOfOrderIsSum ==
  ASSUME NEW f \in Refunds
  PROVE  /\ WrittenOfOrder(f) = SumOn(refund, Done(refund, orderOf, orderOf[refund[f].payment]))
         /\ WrittenOfOrder(f)' = SumOn(refund', Done(refund', orderOf', orderOf'[refund'[f].payment]))
BY DEF WrittenOfOrder, AmountOf, Amounts, CompletedOf, SumOn, Done

LEMMA SumOnNat ==
  ASSUME NEW r, NEW T \in SUBSET Refunds, \A f \in T : r[f].amount \in Nat
  PROVE  SumOn(r, T) \in Nat
<1> DEFINE a == [f \in Refunds |-> r[f].amount]
<1>1. IsFiniteSet(T) /\ \A f \in T : a[f] \in Nat
  BY PaymentsAssumption, FS_Subset
<1>2. SumFunctionOnSet(a, T) \in Nat
  <2> HIDE DEF a
  <2> QED BY <1>1, SumNat
<1> QED BY <1>2 DEF SumOn

LEMMA SumOnSame ==
  ASSUME NEW r, NEW s, NEW T \in SUBSET Refunds, \A f \in T : r[f].amount = s[f].amount
  PROVE  SumOn(r, T) = SumOn(s, T)
<1> DEFINE a == [f \in Refunds |-> r[f].amount]
           b == [f \in Refunds |-> s[f].amount]
<1>1. IsFiniteSet(T) /\ \A f \in T : a[f] = b[f]
  BY PaymentsAssumption, FS_Subset
<1>2. SumFunctionOnSet(a, T) = SumFunctionOnSet(b, T)
  <2> HIDE DEF a, b
  <2> QED BY <1>1, SumSame
<1> QED BY <1>2 DEF SumOn

LEMMA SumOnAdd ==
  ASSUME NEW r, NEW T \in SUBSET Refunds, NEW f \in Refunds \ T,
         \A g \in T \cup {f} : r[g].amount \in Nat
  PROVE  SumOn(r, T \cup {f}) = r[f].amount + SumOn(r, T)
<1> DEFINE a == [g \in Refunds |-> r[g].amount]
<1>1. IsFiniteSet(T) /\ \A g \in T \cup {f} : a[g] \in Nat
  BY PaymentsAssumption, FS_Subset
<1>2. a[f] = r[f].amount /\ f \notin T
  OBVIOUS
<1>3. SumFunctionOnSet(a, T \cup {f}) = a[f] + SumFunctionOnSet(a, T)
  <2> HIDE DEF a
  <2> QED BY <1>1, <1>2, SumAdd
<1> QED BY <1>2, <1>3 DEF SumOn

LEMMA SumOnSubset ==
  ASSUME NEW r, NEW U \in SUBSET Refunds, NEW T \in SUBSET U, \A f \in U : r[f].amount \in Nat
  PROVE  SumOn(r, T) <= SumOn(r, U)
<1> DEFINE a == [f \in Refunds |-> r[f].amount]
<1>1. IsFiniteSet(U) /\ \A f \in U : a[f] \in Nat
  BY PaymentsAssumption, FS_Subset
<1>2. SumFunctionOnSet(a, T) <= SumFunctionOnSet(a, U)
  <2> HIDE DEF a
  <2> QED BY <1>1, SumSubset
<1> QED BY <1>2 DEF SumOn

LEMMA RowsHaveAmounts ==
  ASSUME RefundRows, NEW f \in Refunds, refund[f].status # "NONE"
  PROVE  refund[f].amount \in 1..Amount
BY PaymentsAssumption DEF RefundRows

LEMMA InitRefundInvariant == Init => RefundInvariant
<1> SUFFICES ASSUME Init PROVE RefundInvariant
  OBVIOUS
<1> USE PaymentsAssumption DEF Init, NoRefund
<1>1. MoneyTypes /\ RefundRows /\ OneWriter /\ SumInHand
  BY DEF MoneyTypes, RefundRows, OneWriter, SumInHand
<1>2. RefundedIsWhole /\ UnpaidIsNotRefunded /\ RefundBooks
  BY DEF RefundedIsWhole, UnpaidIsNotRefunded, RefundBooks, PaidPayments
<1>3. RefundsWithinPayment
  <2> SUFFICES ASSUME NEW p \in Payments
               PROVE  AmountOf(RefundsOf(p, Outstanding)) <= Amount
    BY DEF RefundsWithinPayment
  <2>1. RefundsOf(p, Outstanding) = {}
    BY DEF RefundsOf, Outstanding
  <2> QED BY <2>1, SumEmpty DEF AmountOf
<1> QED BY <1>1, <1>2, <1>3 DEF RefundInvariant

-----------------------------------------------------------------------------
(* The steps, as the refunds see them.                                     *)

\* Nothing of a recognised payment, of its order or of a refund changes.
Quiet ==
  /\ UNCHANGED <<refund, work, seen, refundedTotal, paymentStatus, captures>>
  /\ \A p \in Payments :
       status[p] \in Recognised \/ status'[p] \in Recognised =>
         status'[p] = status[p] /\ orderOf'[p] = orderOf[p]

\* The first recognition of a payment.
Recognises(p) ==
  /\ p \in Payments /\ status[p] \notin Recognised /\ captures[p] = 0 /\ orderOf[p] \in Orders
  /\ UNCHANGED <<refund, work, seen, refundedTotal, orderOf>>
  /\ \A q \in Payments : status'[q] = IF q = p THEN "PAID" ELSE status[q]
  /\ \A q \in Payments : captures'[q] = IF q = p THEN 1 ELSE captures[q]
  /\ \A o \in Orders : paymentStatus'[o] = IF o = orderOf[p] THEN "PAID" ELSE paymentStatus[o]

LEMMA RequestIsQuiet ==
  ASSUME IInv, NEW r \in Requests, RequestNext(r)
  PROVE  Quiet
<1> USE DEF IInv, Books, Quiet, orders, payments, ledger, refunds
<1>1. CASE \/ \E o \in Orders, k \in Keys : ReplayStart(r, o, k) \/ ResumePayment(r, o, k)
           \/ \E answer \in {"answered", "failed"} : ProviderCreates(r, answer)
           \/ ProviderRejects(r) \/ RequestStops(r)
  BY <1>1 DEF ReplayStart, ResumePayment, ProviderCreates, ProviderRejects, RequestStops
<1>2. ASSUME NEW o \in Orders, NEW k \in Keys, CreatePayment(r, o, k)
      PROVE  Quiet
  <2>1. PICK p \in Unused : /\ status' = [status EXCEPT ![p] = "CREATED"]
                            /\ orderOf' = [orderOf EXCEPT ![p] = o]
    BY <1>2 DEF CreatePayment
  <2>2. UNCHANGED <<refund, work, seen, refundedTotal, paymentStatus, captures>>
    BY <1>2 DEF CreatePayment
  <2> QED BY <2>1, <2>2 DEF Unused, PaymentTypes, Recognised
<1>3. CASE ClaimCreate(r)
  BY <1>3 DEF ClaimCreate, Claimable, PaymentTypes, RequestTypes, Recognised
<1>4. CASE SetProviderRef(r) \/ MarkCreateFailed(r)
  <2> DEFINE p == requests[r].payment
  <2>1. p \in Payments /\ ~ref[p] /\ status[p] = "PENDING"
    BY <1>4 DEF SetProviderRef, MarkCreateFailed, OneCreates, Creating, RequestTypes
  <2>2. \E s \in {"PENDING", "FAILED"} : status' = [status EXCEPT ![p] = s]
    BY <1>4, <2>1 DEF SetProviderRef, MarkCreateFailed
  <2>3. UNCHANGED <<refund, work, seen, refundedTotal, paymentStatus, captures, orderOf>>
    BY <1>4 DEF SetProviderRef, MarkCreateFailed
  <2> QED BY <2>1, <2>2, <2>3 DEF PaymentTypes, Recognised
<1> QED BY <1>1, <1>2, <1>3, <1>4 DEF RequestNext

LEMMA ApplyRecognises ==
  ASSUME IInv, NEW o \in Outcomes, ApplyPaymentOutcome(o), UNCHANGED refunds
  PROVE  Quiet \/ Recognises(o.payment)
<1> USE DEF IInv, Books, refunds
<1> DEFINE p == o.payment
<1>1. /\ p \in Payments /\ o.status \in OutcomeStatuses
      /\ UNCHANGED <<refund, work, seen, orderOf, refundedTotal>>
  BY DEF Outcomes, ApplyPaymentOutcome, MarkOrderPaid
<1>2. Applies(o) => status[p] \in Active \cup {"FAILED"} /\ ref[p]
  BY DEF Applies, DecideTransition, Active
<1>3. CASE ~Captures(o)
  <2>1. captures' = captures /\ paymentStatus' = [d \in Orders |-> paymentStatus[d]]
    BY <1>3 DEF ApplyPaymentOutcome, MarkOrderPaid
  <2>2. \A q \in Payments : \/ status'[q] = status[q]
                            \/ status[q] \notin Recognised /\ status'[q] \notin Recognised
    BY <1>1, <1>2, <1>3 DEF ApplyPaymentOutcome, Captures, PaymentTypes, OutcomeStatuses, Recognised, Active
  <2> QED BY <1>1, <2>1, <2>2 DEF Quiet, PaymentTypes
<1>4. CASE Captures(o)
  <2>1. /\ status' = [status EXCEPT ![p] = "PAID"] /\ captures' = [captures EXCEPT ![p] = @ + 1]
        /\ MarkOrderPaid({orderOf[p]})
        /\ Applies(o)
    BY <1>4 DEF ApplyPaymentOutcome, Captures
  <2>2. status[p] \notin Recognised /\ captures[p] = 0 /\ orderOf[p] \in Orders
    BY <1>1, <1>2, <2>1 DEF OneCapture, CreatedForOrder, Active, Recognised
  <2>3. \A d \in Orders : paymentStatus'[d] = IF d = orderOf[p] THEN "PAID" ELSE paymentStatus[d]
    BY <2>1 DEF MarkOrderPaid
  <2> QED BY <1>1, <2>1, <2>2, <2>3 DEF Recognises, PaymentTypes
<1> QED BY <1>3, <1>4

LEMMA StepKinds ==
  ASSUME IInv, [Next]_vars
  PROVE  Quiet \/ (\E p \in Payments : Recognises(p)) \/ (\E f \in Refunds : RefundNext(f))
<1> USE DEF orders, payments, ledger, provider, refunds, verification, events
<1>0. OutcomeTypes
  BY DEF IInv
<1>1. ASSUME NEW o \in Outcomes, ApplyPaymentOutcome(o), UNCHANGED refunds
      PROVE  Quiet \/ \E p \in Payments : Recognises(p)
  BY <1>1, ApplyRecognises DEF Outcomes
<1>2. CASE \E r \in Requests : RequestNext(r)
  BY <1>2, RequestIsQuiet
<1>3. CASE (\E o \in Orders, k \in Keys : ForgetKey(o, k)) \/ ProviderNext
  BY <1>3 DEF ForgetKey, ProviderNext, Authorize, Capture, Decline, ProviderActs, Quiet
<1>4. ASSUME NEW w \in Verifiers, VerifierNext(w)
      PROVE  Quiet \/ \E p \in Payments : Recognises(p)
  <2>1. CASE (\E p \in Payments : Verify(w, p)) \/ VerifierStops(w)
    BY <2>1 DEF Verify, VerifierStops, Quiet
  <2>2. CASE ApplyVerified(w)
    <3>1. PICK o \in held[w] : ApplyPaymentOutcome(o)
      BY <2>2 DEF ApplyVerified
    <3>2. o \in Outcomes /\ UNCHANGED refunds
      BY <1>0, <2>2 DEF OutcomeTypes, ApplyVerified
    <3> QED BY <1>1, <3>1, <3>2
  <2> QED BY <1>4, <2>1, <2>2 DEF VerifierNext
<1>5. CASE SweepNext
  <2>1. CASE SweepList \/ (\E p \in Payments : SweepAsk(p)) \/ SweepFails
    BY <2>1 DEF SweepList, SweepAsk, SweepFails, Quiet
  <2>2. ASSUME NEW p \in Payments, SweepApply(p)
        PROVE  Quiet \/ \E q \in Payments : Recognises(q)
    <3>1. PICK o \in held[Sweeper] : ApplyPaymentOutcome(o)
      BY <2>2 DEF SweepApply
    <3>2. o \in Outcomes /\ UNCHANGED refunds
      BY <1>0, <2>2 DEF OutcomeTypes, SweepApply
    <3> QED BY <1>1, <3>1, <3>2
  <2> QED BY <1>5, <2>1, <2>2 DEF SweepNext
<1>6. ASSUME NEW e \in Events, EventNext(e)
      PROVE  Quiet \/ \E p \in Payments : Recognises(p)
  <2>1. CASE (\E p \in Payments : ReceiveWebhook(e, p)) \/ MarkEventProcessed(e)
    BY <2>1 DEF ReceiveWebhook, MarkEventProcessed, Quiet
  <2>2. CASE ProcessEvent(e)
    <3>1. PICK o \in eventOutcome[e] : ApplyPaymentOutcome(o)
      BY <2>2 DEF ProcessEvent
    <3>2. o \in Outcomes /\ UNCHANGED refunds
      BY <1>0, <2>2 DEF OutcomeTypes, ProcessEvent
    <3> QED BY <1>1, <3>1, <3>2
  <2> QED BY <1>6, <2>1, <2>2 DEF EventNext
<1>7. CASE UNCHANGED vars
  BY <1>7 DEF vars, Quiet
<1> QED BY <1>2, <1>3, <1>4, <1>5, <1>6, <1>7 DEF Next

-----------------------------------------------------------------------------
(* What the steps keep.                                                    *)

LEMMA QuietKeepsRefunds ==
  ASSUME IInv, IInv', RefundInvariant, Quiet
  PROVE  RefundInvariant'
<1> USE DEF IInv, Books, Quiet, RefundInvariant
<1>1. \A o : PaidPayments(o)' = PaidPayments(o)
  <2>1. \A p \in Payments : captures[p] > 0 => orderOf'[p] = orderOf[p]
    BY DEF OneCapture
  <2>2. \A p \in Payments : captures'[p] > 0 => orderOf'[p] = orderOf[p]
    BY <2>1
  <2> QED BY <2>1, <2>2 DEF PaidPayments
<1>2. MoneyTypes' /\ RefundRows' /\ OneWriter'
  BY DEF MoneyTypes, RefundRows, OneWriter
<1>3. \A p, S : AmountOf(RefundsOf(p, S))' = AmountOf(RefundsOf(p, S))
  BY AmountIsSum
<1>4. RefundsWithinPayment'
  BY <1>3 DEF RefundsWithinPayment
<1>5. \A f \in Refunds : WrittenOf(f)' = WrittenOf(f)
  BY <1>3 DEF WrittenOf
<1>6. \A f \in Refunds : refund[f].status # "NONE" => orderOf'[refund[f].payment] = orderOf[refund[f].payment]
  BY DEF RefundRows
<1>7. SumInHand'
  <2> SUFFICES ASSUME NEW f \in Refunds, work'[f] = "writing"
               PROVE  /\ seen'[f] >= refund'[f].amount /\ seen'[f] <= refund'[f].amount + WrittenOfOrder(f)'
                      /\ PaidPayments(orderOf[refund[f].payment])' = {refund'[f].payment} =>
                           seen'[f] = refund'[f].amount + WrittenOf(f)'
                      /\ status'[refund'[f].payment] = "REFUNDED" => seen'[f] > Amount
    BY DEF SumInHand
  <2>1. work[f] = "writing" /\ refund[f].status # "NONE"
    BY DEF RefundRows
  <2>2. /\ status'[refund[f].payment] = status[refund[f].payment]
        /\ orderOf'[refund[f].payment] = orderOf[refund[f].payment]
    BY <2>1 DEF RefundRows
  <2>3. PaidPayments(orderOf[refund[f].payment])' = PaidPayments(orderOf[refund[f].payment])
    BY <1>1, <2>2 DEF PaidPayments
  <2>4. WrittenOfOrder(f)' = WrittenOfOrder(f)
    <3>1. \A o : Done(refund', orderOf', o) = Done(refund, orderOf, o)
      BY <1>6 DEF Done
    <3> QED BY <2>2, <3>1, WrittenOfOrderIsSum
  <2> QED BY <1>5, <2>1, <2>2, <2>3, <2>4 DEF SumInHand
<1>8. RefundedIsWhole'
  <2> SUFFICES ASSUME NEW p \in Payments, status'[p] = "REFUNDED"
               PROVE  AmountOf(CompletedOf(orderOf[p]))' >= Amount
    BY DEF RefundedIsWhole
  <2>1. status[p] = "REFUNDED" /\ orderOf'[p] = orderOf[p]
    BY DEF Recognised
  <2>2. Done(refund', orderOf', orderOf[p]) = Done(refund, orderOf, orderOf[p])
    BY <1>6 DEF Done
  <2>3. /\ AmountOf(CompletedOf(orderOf[p]))' = SumOn(refund', Done(refund', orderOf', orderOf'[p]))
        /\ AmountOf(CompletedOf(orderOf[p])) = SumOn(refund, Done(refund, orderOf, orderOf[p]))
    BY DEF AmountOf, Amounts, CompletedOf, SumOn, Done
  <2> QED BY <2>1, <2>2, <2>3 DEF RefundedIsWhole
<1>9. UnpaidIsNotRefunded'
  BY <1>1 DEF UnpaidIsNotRefunded
<1>10. RefundBooks'
  <2> SUFFICES ASSUME NEW o \in Orders, NEW p \in PaidPayments(o)', PaidPayments(o)' = {p}
               PROVE  /\ refundedTotal'[o] = AmountOf(RefundsOf(p, {"COMPLETED"}))'
                      /\ paymentStatus'[o] = status'[p]
                      /\ status'[p] = "REFUNDED" <=> refundedTotal'[o] = Amount
    BY DEF RefundBooks
  <2>1. p \in PaidPayments(o) /\ PaidPayments(o) = {p}
    BY <1>1
  <2>2. status'[p] = status[p]
    BY <2>1 DEF PaidPayments, OneCapture
  <2> QED BY <1>3, <2>1, <2>2 DEF RefundBooks
<1> QED BY <1>2, <1>4, <1>7, <1>8, <1>9, <1>10

\* The first payment of an order to be recognised starts its books; another one
\* ends what they promise.
LEMMA RecognisesKeepsRefunds ==
  ASSUME IInv, IInv', RefundInvariant, NEW p \in Payments, Recognises(p)
  PROVE  RefundInvariant'
<1> USE DEF IInv, Books, RefundInvariant
<1>1. UNCHANGED <<refund, work, seen, refundedTotal, orderOf>>
  BY DEF Recognises
<1>2. \A q \in Payments : status[q] \in Recognised => status'[q] = status[q]
  BY DEF Recognises
<1>3. \A o : PaidPayments(o)' = IF o = orderOf[p] THEN PaidPayments(o) \cup {p} ELSE PaidPayments(o)
  BY <1>1 DEF PaidPayments, Recognises, PaymentTypes
<1>4. \A q \in Payments : captures[q] > 0 => q # p
  BY DEF Recognises
<1>5. MoneyTypes' /\ OneWriter'
  BY <1>1 DEF MoneyTypes, OneWriter
<1>6. RefundRows'
  BY <1>1, <1>2 DEF RefundRows
<1>7. /\ \A q, S : AmountOf(RefundsOf(q, S))' = AmountOf(RefundsOf(q, S))
      /\ \A o : AmountOf(CompletedOf(o))' = AmountOf(CompletedOf(o))
  BY <1>1, AmountIsSum
<1>8. RefundsWithinPayment'
  BY <1>7 DEF RefundsWithinPayment
<1>9. SumInHand'
  <2> SUFFICES ASSUME NEW f \in Refunds, work'[f] = "writing"
               PROVE  /\ seen'[f] >= refund'[f].amount /\ seen'[f] <= refund'[f].amount + WrittenOfOrder(f)'
                      /\ PaidPayments(orderOf[refund[f].payment])' = {refund'[f].payment} =>
                           seen'[f] = refund'[f].amount + WrittenOf(f)'
                      /\ status'[refund'[f].payment] = "REFUNDED" => seen'[f] > Amount
    BY DEF SumInHand
  <2>1. /\ work[f] = "writing" /\ refund[f].payment \in Payments
        /\ status[refund[f].payment] \in Recognised
    BY <1>1 DEF RefundRows
  <2>2. status'[refund[f].payment] = status[refund[f].payment] /\ refund[f].payment # p
    BY <1>2, <2>1 DEF Recognises
  <2>3. WrittenOf(f)' = WrittenOf(f)
    BY <1>1, <1>7 DEF WrittenOf
  <2>4. PaidPayments(orderOf[refund[f].payment])' = {refund[f].payment} =>
          PaidPayments(orderOf[refund[f].payment]) = {refund[f].payment}
    <3> DEFINE o == orderOf[refund[f].payment]
    <3>1. PaidPayments(o)' = IF o = orderOf[p] THEN PaidPayments(o) \cup {p} ELSE PaidPayments(o)
      BY <1>1, <1>3 DEF PaidPayments
    <3>2. refund[f].payment \in PaidPayments(o)
      BY <2>1 DEF PaidPayments, OneCapture
    <3> QED BY <2>2, <3>1, <3>2
  <2>5. WrittenOfOrder(f)' = WrittenOfOrder(f)
    BY <1>1, WrittenOfOrderIsSum
  <2> QED BY <1>1, <2>1, <2>2, <2>3, <2>4, <2>5 DEF SumInHand
<1>10. RefundedIsWhole'
  <2> SUFFICES ASSUME NEW q \in Payments, status'[q] = "REFUNDED"
               PROVE  AmountOf(CompletedOf(orderOf[q]))' >= Amount
    BY DEF RefundedIsWhole
  <2>1. status[q] = "REFUNDED"
    BY DEF Recognises
  <2>2. AmountOf(CompletedOf(orderOf[q]))' = AmountOf(CompletedOf(orderOf[q]))
    BY <1>1 DEF AmountOf, Amounts, CompletedOf
  <2> QED BY <2>1, <2>2 DEF RefundedIsWhole
<1>11. UnpaidIsNotRefunded'
  BY <1>1, <1>3 DEF UnpaidIsNotRefunded
<1>12. RefundBooks'
  <2> SUFFICES ASSUME NEW o \in Orders, NEW q \in PaidPayments(o)', PaidPayments(o)' = {q}
               PROVE  /\ refundedTotal'[o] = AmountOf(RefundsOf(q, {"COMPLETED"}))'
                      /\ paymentStatus'[o] = status'[q]
                      /\ status'[q] = "REFUNDED" <=> refundedTotal'[o] = Amount
    BY DEF RefundBooks
  <2>1. CASE o # orderOf[p]
    <3>1. PaidPayments(o) = {q} /\ q \in Payments /\ captures[q] > 0
      BY <1>3, <2>1 DEF PaidPayments
    <3>2. status'[q] = status[q] /\ paymentStatus'[o] = paymentStatus[o]
      BY <2>1, <3>1, <1>4 DEF Recognises
    <3> QED BY <1>1, <1>7, <3>1, <3>2 DEF RefundBooks
  <2>2. CASE o = orderOf[p]
    <3>1. q = p /\ PaidPayments(o) = {}
      <4>1. PaidPayments(o)' = PaidPayments(o) \cup {p} /\ p \notin PaidPayments(o)
        BY <1>3, <1>4, <2>2 DEF PaidPayments
      <4> QED BY <4>1
    <3>2. status'[p] = "PAID" /\ paymentStatus'[o] = "PAID" /\ refundedTotal'[o] = 0
      BY <1>1, <2>2, <3>1 DEF Recognises, UnpaidIsNotRefunded
    <3>3. RefundsOf(p, {"COMPLETED"}) = {}
      BY DEF RefundsOf, RefundRows, Recognises
    <3>4. AmountOf(RefundsOf(p, {"COMPLETED"})) = 0
      BY <3>3, SumEmpty DEF AmountOf
    <3> QED BY <1>7, <3>1, <3>2, <3>4, PaymentsAssumption
  <2> QED BY <2>1, <2>2
<1> QED BY <1>5, <1>6, <1>8, <1>9, <1>10, <1>11, <1>12

\* A refund's row is written, but not completed, and its request does not hold the
\* payment's row afterwards.
LEMMA UncompletedKeepsRefunds ==
  ASSUME IInv, RefundInvariant, NEW f \in Refunds,
         \A g \in Refunds \ {f} :
           refund'[g] = refund[g] /\ work'[g] = work[g] /\ seen'[g] = seen[g],
         refund[f].status # "COMPLETED", refund'[f].status # "COMPLETED", work'[f] # "writing",
         UNCHANGED <<status, orderOf, captures, paymentStatus, refundedTotal>>,
         MoneyTypes', RefundRows', RefundsWithinPayment'
  PROVE  RefundInvariant'
<1> USE DEF IInv, Books, RefundInvariant
<1>1. \A p : Rows(refund', p, {"COMPLETED"}) = Rows(refund, p, {"COMPLETED"})
  BY DEF Rows
<1>2. \A o : Done(refund', orderOf', o) = Done(refund, orderOf, o)
  BY DEF Done
<1>3. /\ \A p : SumOn(refund', Rows(refund, p, {"COMPLETED"})) = SumOn(refund, Rows(refund, p, {"COMPLETED"}))
      /\ \A o : SumOn(refund', Done(refund, orderOf, o)) = SumOn(refund, Done(refund, orderOf, o))
  <2>1. ASSUME NEW T \in SUBSET (Refunds \ {f})
        PROVE  SumOn(refund', T) = SumOn(refund, T)
    BY <2>1, SumOnSame
  <2>2. /\ \A p : Rows(refund, p, {"COMPLETED"}) \in SUBSET (Refunds \ {f})
        /\ \A o : Done(refund, orderOf, o) \in SUBSET (Refunds \ {f})
    BY DEF Rows, Done
  <2> QED BY <2>1, <2>2
<1>4. /\ \A p : AmountOf(RefundsOf(p, {"COMPLETED"}))' = AmountOf(RefundsOf(p, {"COMPLETED"}))
      /\ \A o : AmountOf(CompletedOf(o))' = AmountOf(CompletedOf(o))
  BY <1>1, <1>2, <1>3, AmountIsSum
<1>5. \A o : PaidPayments(o)' = PaidPayments(o)
  BY DEF PaidPayments
<1>6. OneWriter'
  BY DEF OneWriter
<1>7. SumInHand'
  <2> SUFFICES ASSUME NEW g \in Refunds, work'[g] = "writing"
               PROVE  /\ seen'[g] >= refund'[g].amount /\ seen'[g] <= refund'[g].amount + WrittenOfOrder(g)'
                      /\ PaidPayments(orderOf[refund[g].payment])' = {refund'[g].payment} =>
                           seen'[g] = refund'[g].amount + WrittenOf(g)'
                      /\ status'[refund'[g].payment] = "REFUNDED" => seen'[g] > Amount
    BY DEF SumInHand
  <2>1. g # f /\ refund'[g] = refund[g] /\ work[g] = "writing" /\ seen'[g] = seen[g]
    OBVIOUS
  <2>2. WrittenOf(g)' = WrittenOf(g)
    BY <1>4, <2>1 DEF WrittenOf
  <2>3. PaidPayments(orderOf[refund[g].payment])' = PaidPayments(orderOf[refund[g].payment])
    BY <2>1 DEF PaidPayments
  <2>4. WrittenOfOrder(g)' = WrittenOfOrder(g)
    BY <1>2, <1>3, <2>1, WrittenOfOrderIsSum
  <2> QED BY <2>1, <2>2, <2>3, <2>4 DEF SumInHand
<1>8. RefundedIsWhole'
  <2> SUFFICES ASSUME NEW p \in Payments, status'[p] = "REFUNDED"
               PROVE  AmountOf(CompletedOf(orderOf[p]))' >= Amount
    BY DEF RefundedIsWhole
  <2>1. /\ AmountOf(CompletedOf(orderOf[p]))' = SumOn(refund', Done(refund', orderOf', orderOf'[p]))
        /\ AmountOf(CompletedOf(orderOf[p])) = SumOn(refund, Done(refund, orderOf, orderOf[p]))
    BY DEF AmountOf, Amounts, CompletedOf, SumOn, Done
  <2>2. orderOf' = orderOf /\ status'[p] = status[p]
    OBVIOUS
  <2> QED BY <1>2, <1>3, <2>1, <2>2 DEF RefundedIsWhole
<1>9. UnpaidIsNotRefunded' /\ RefundBooks'
  BY <1>4, <1>5 DEF UnpaidIsNotRefunded, RefundBooks
<1> QED BY <1>6, <1>7, <1>8, <1>9

LEMMA RequestKeepsRefunds ==
  ASSUME IInv, RefundInvariant, NEW f \in Refunds, NEW p \in Payments, NEW amount \in RefundAmounts,
         RequestRefund(f, p, amount)
  PROVE  RefundInvariant'
<1> USE DEF IInv, Books, RefundInvariant
<1> DEFINE row == [status |-> "REQUESTED", payment |-> p, amount |-> amount]
<1>1. /\ refund[f] = NoRefund /\ amount <= Remaining(p) /\ status[p] \in Recognised
      /\ refund' = [refund EXCEPT ![f] = row] /\ work' = [work EXCEPT ![f] = "asking"]
      /\ UNCHANGED <<seen, status, orderOf, captures, paymentStatus, refundedTotal>>
  BY DEF RequestRefund, Recognised, orders, payments, ledger
<1>2. /\ refund'[f] = row /\ work'[f] = "asking"
      /\ \A g \in Refunds \ {f} : refund'[g] = refund[g] /\ work'[g] = work[g]
      /\ work[f] = "none"
  <2>1. refund'[f] = row /\ \A g \in Refunds \ {f} : refund'[g] = refund[g]
    BY <1>1 DEF RefundTypes
  <2>2. work'[f] = "asking" /\ \A g \in Refunds \ {f} : work'[g] = work[g]
    BY <1>1 DEF RefundTypes
  <2>3. work[f] = "none"
    BY <1>1 DEF RefundRows, NoRefund
  <2> QED BY <2>1, <2>2, <2>3
<1>3. MoneyTypes' /\ RefundRows'
  BY <1>1, <1>2 DEF MoneyTypes, RefundRows
<1>4. RefundsWithinPayment'
  <2> SUFFICES ASSUME NEW q \in Payments
               PROVE  SumOn(refund', Rows(refund', q, Outstanding)) <= Amount
    BY AmountIsSum DEF RefundsWithinPayment
  <2> DEFINE T == Rows(refund, q, Outstanding)
  <2>1. T \in SUBSET Refunds /\ f \notin T /\ refund[f].status = "NONE"
    BY <1>1 DEF Rows, NoRefund, Outstanding
  <2>3. \A g \in T : refund'[g].amount = refund[g].amount
    BY <1>2, <2>1
  <2>8. \A g \in T : refund[g].amount \in 1..Amount
    BY RowsHaveAmounts DEF Rows, Outstanding
  <2>9. refund'[f].amount = amount /\ amount \in Nat
    BY <1>2, PaymentsAssumption
  <2>2. \A g \in T \cup {f} : refund'[g].amount \in Nat
    BY <2>3, <2>8, <2>9, PaymentsAssumption
  <2>4. SumOn(refund', T) = SumOn(refund, T)
    <3> HIDE DEF T
    <3> QED BY <2>1, <2>3, SumOnSame
  <2>5. SumOn(refund, T) <= Amount /\ SumOn(refund, T) \in Nat
    <3>1. SumOn(refund', T) \in Nat
      <4> HIDE DEF T
      <4> QED BY <2>1, <2>2, SumOnNat
    <3> QED BY <2>4, <3>1, AmountIsSum DEF RefundsWithinPayment
  <2>6. CASE q = p
    <3>1. Rows(refund', q, Outstanding) = T \cup {f}
      BY <1>2, <2>6 DEF Rows, Outstanding
    <3>2. SumOn(refund', T \cup {f}) = refund'[f].amount + SumOn(refund', T)
      <4> HIDE DEF T
      <4> QED BY <2>1, <2>2, SumOnAdd
    <3>3. amount <= Amount - SumOn(refund, T) /\ refund'[f].amount = amount
      BY <1>1, <1>2, <2>6, AmountIsSum DEF Remaining
    <3> QED BY <2>4, <2>5, <3>1, <3>2, <3>3, PaymentsAssumption
  <2>7. CASE q # p
    <3>1. Rows(refund', q, Outstanding) = T
      BY <1>2, <2>1, <2>7 DEF Rows
    <3> QED BY <2>4, <2>5, <3>1
  <2> QED BY <2>6, <2>7
<1>5. refund[f].status # "COMPLETED" /\ refund'[f].status # "COMPLETED" /\ work'[f] # "writing"
  BY <1>1, <1>2 DEF NoRefund
<1> QED BY <1>1, <1>2, <1>3, <1>4, <1>5, UncompletedKeepsRefunds

\* The answer of the provider, the record of one that is not final, and a stop.
LEMMA WorkKeepsRefunds ==
  ASSUME IInv, RefundInvariant, NEW f \in Refunds,
         (\E answer \in {"COMPLETED", "PENDING", "FAILED"} : ProviderRefunds(f, answer))
           \/ MarkRefundOutcome(f) \/ RefundStops(f)
  PROVE  RefundInvariant'
<1> USE DEF IInv, Books, RefundInvariant
<1>1. /\ work[f] # "none"
      /\ \/ refund' = refund
         \/ \E s \in {"PENDING", "FAILED"} : refund' = [refund EXCEPT ![f].status = s] /\ work'[f] = "none"
      /\ \E w \in {"none", "COMPLETED", "PENDING", "FAILED"} : work' = [work EXCEPT ![f] = w]
      /\ seen' = seen \/ seen' = [seen EXCEPT ![f] = 0]
      /\ UNCHANGED <<status, orderOf, captures, paymentStatus, refundedTotal>>
  BY DEF ProviderRefunds, MarkRefundOutcome, RefundStops, RefundTypes, orders, payments, ledger
<1>2. refund[f].status = "REQUESTED"
  BY <1>1 DEF RefundRows
<1>3. /\ \A g \in Refunds \ {f} : work'[g] = work[g] /\ seen'[g] = seen[g] /\ refund'[g] = refund[g]
      /\ work'[f] \in {"none", "COMPLETED", "PENDING", "FAILED"}
  <2>1. /\ \A g \in Refunds \ {f} : work'[g] = work[g]
        /\ work'[f] \in {"none", "COMPLETED", "PENDING", "FAILED"}
    BY <1>1 DEF RefundTypes
  <2>2. \A g \in Refunds \ {f} : seen'[g] = seen[g] /\ refund'[g] = refund[g]
    BY <1>1 DEF RefundTypes, MoneyTypes
  <2> QED BY <2>1, <2>2
<1>4. /\ \A g \in Refunds : refund'[g].payment = refund[g].payment /\ refund'[g].amount = refund[g].amount
      /\ refund'[f].status \in {"REQUESTED", "PENDING", "FAILED"}
      /\ refund'[f].status # "REQUESTED" => work'[f] = "none"
  BY <1>1, <1>2 DEF RefundTypes
<1>5. MoneyTypes' /\ RefundRows'
  BY <1>1, <1>2, <1>3, <1>4 DEF MoneyTypes, RefundRows
<1>6. RefundsWithinPayment'
  <2> SUFFICES ASSUME NEW p \in Payments
               PROVE  SumOn(refund', Rows(refund', p, Outstanding)) <= Amount
    BY AmountIsSum DEF RefundsWithinPayment
  <2> DEFINE T == Rows(refund, p, Outstanding)
             U == Rows(refund', p, Outstanding)
  <2>1. T \in SUBSET Refunds /\ U \in SUBSET T
    BY <1>2, <1>3, <1>4 DEF Rows, Outstanding
  <2>7. \A g \in T : refund[g].amount \in 1..Amount
    BY RowsHaveAmounts DEF Rows, Outstanding
  <2>2. \A g \in T : refund[g].amount \in Nat /\ refund'[g].amount = refund[g].amount
    BY <1>4, <2>1, <2>7, PaymentsAssumption
  <2>3. SumOn(refund, T) <= Amount
    BY AmountIsSum DEF RefundsWithinPayment
  <2> HIDE DEF T, U
  <2>4. SumOn(refund', U) = SumOn(refund, U) /\ SumOn(refund, U) <= SumOn(refund, T)
    BY <2>1, <2>2, SumOnSame, SumOnSubset
  <2>5. SumOn(refund, U) \in Nat /\ SumOn(refund, T) \in Nat
    BY <2>1, <2>2, SumOnNat
  <2>6. SumOn(refund', U) <= Amount
    BY <2>3, <2>4, <2>5, PaymentsAssumption
  <2> QED BY <2>6 DEF U
<1> QED BY <1>1, <1>2, <1>3, <1>4, <1>5, <1>6, UncompletedKeepsRefunds

\* The refunds of an order's only paid payment are the order's.
LEMMA RefundsOfOnlyPayment ==
  ASSUME IInv, RefundInvariant, NEW o \in Orders, NEW p \in Payments, PaidPayments(o) = {p}
  PROVE  Done(refund, orderOf, o) = Rows(refund, p, {"COMPLETED"})
<1> USE DEF IInv, Books, RefundInvariant
<1>1. orderOf[p] = o
  BY DEF PaidPayments
<1>2. ASSUME NEW f \in Refunds, refund[f].status = "COMPLETED", orderOf[refund[f].payment] = o
      PROVE  refund[f].payment = p
  <2>1. refund[f].payment \in Payments /\ status[refund[f].payment] \in Recognised
    BY <1>2 DEF RefundRows
  <2>2. refund[f].payment \in PaidPayments(o)
    BY <1>2, <2>1 DEF PaidPayments, OneCapture
  <2> QED BY <2>2
<1> QED BY <1>1, <1>2 DEF Done, Rows

LEMMA CompletedAreCounted ==
  ASSUME RefundRows
  PROVE  /\ \A p : AmountOf(RefundsOf(p, {"COMPLETED"})) \in Nat
         /\ \A o : AmountOf(CompletedOf(o)) \in Nat
<1>1. ASSUME NEW T \in SUBSET {f \in Refunds : refund[f].status = "COMPLETED"}
      PROVE  SumOn(refund, T) \in Nat
  BY <1>1, RowsHaveAmounts, SumOnNat
<1>2. /\ \A p : Rows(refund, p, {"COMPLETED"}) \in SUBSET {f \in Refunds : refund[f].status = "COMPLETED"}
      /\ \A o : Done(refund, orderOf, o) \in SUBSET {f \in Refunds : refund[f].status = "COMPLETED"}
  BY DEF Rows, Done
<1> QED BY <1>1, <1>2, AmountIsSum

LEMMA SumKeepsRefunds ==
  ASSUME IInv, RefundInvariant, NEW f \in Refunds, SumRefunds(f)
  PROVE  RefundInvariant'
<1> USE DEF IInv, Books, RefundInvariant
<1> DEFINE p == refund[f].payment
           o == orderOf[p]
           total == refund[f].amount + AmountOf(CompletedOf(o))
<1>1. /\ work[f] = "COMPLETED" /\ ~Locked(p)
      /\ work' = [work EXCEPT ![f] = "writing"] /\ seen' = [seen EXCEPT ![f] = total]
      /\ UNCHANGED <<refund, status, orderOf, captures, paymentStatus, refundedTotal>>
  BY DEF SumRefunds, orders, payments, ledger
<1>2. /\ refund[f].status = "REQUESTED" /\ p \in Payments /\ status[p] \in Recognised
      /\ refund[f].amount \in 1..Amount /\ o \in Orders
  <2>1. refund[f].status = "REQUESTED"
    BY <1>1 DEF RefundRows
  <2>2. p \in Payments /\ status[p] \in Recognised
    BY <2>1 DEF RefundRows
  <2> QED BY <2>1, <2>2, RowsHaveAmounts DEF CreatedForOrder, Recognised
<1>3. AmountOf(CompletedOf(o)) \in Nat
  BY CompletedAreCounted
<1>4. total \in Nat /\ total >= refund[f].amount
  BY <1>2, <1>3
<1>5. PaidPayments(o) = {p} => total = refund[f].amount + WrittenOf(f)
  BY <1>2, AmountIsSum, RefundsOfOnlyPayment DEF WrittenOf
<1>6. status[p] = "REFUNDED" => total > Amount
  BY <1>2, <1>3, PaymentsAssumption DEF RefundedIsWhole
<1>14. total = refund[f].amount + WrittenOfOrder(f)
  BY DEF WrittenOfOrder
<1> HIDE DEF total, o
<1>7. /\ \A g \in Refunds \ {f} : work'[g] = work[g] /\ seen'[g] = seen[g]
      /\ work'[f] = "writing" /\ seen'[f] = total
  BY <1>1 DEF RefundTypes, MoneyTypes
<1>8. MoneyTypes' /\ RefundRows'
  BY <1>1, <1>2, <1>4, <1>7 DEF MoneyTypes, RefundRows
<1>9. OneWriter'
  BY <1>1, <1>7 DEF OneWriter, Locked
<1>10. /\ \A q, S : AmountOf(RefundsOf(q, S))' = AmountOf(RefundsOf(q, S))
       /\ \A d : AmountOf(CompletedOf(d))' = AmountOf(CompletedOf(d))
       /\ \A d : PaidPayments(d)' = PaidPayments(d)
  BY <1>1, AmountIsSum DEF PaidPayments
<1>11. RefundsWithinPayment' /\ UnpaidIsNotRefunded' /\ RefundBooks'
  BY <1>1, <1>10 DEF RefundsWithinPayment, UnpaidIsNotRefunded, RefundBooks
<1>12. RefundedIsWhole'
  BY <1>1 DEF RefundedIsWhole, AmountOf, Amounts, CompletedOf
<1>13. SumInHand'
  <2> SUFFICES ASSUME NEW g \in Refunds, work'[g] = "writing"
               PROVE  /\ seen'[g] >= refund[g].amount /\ seen'[g] <= refund[g].amount + WrittenOfOrder(g)
                      /\ PaidPayments(orderOf[refund[g].payment]) = {refund[g].payment} =>
                           seen'[g] = refund[g].amount + WrittenOf(g)
                      /\ status[refund[g].payment] = "REFUNDED" => seen'[g] > Amount
    BY <1>1 DEF SumInHand, WrittenOf, WrittenOfOrder, AmountOf, Amounts, RefundsOf, CompletedOf, PaidPayments
  <2>1. CASE g = f
    BY <1>4, <1>14, <1>5, <1>6, <1>7, <2>1 DEF o
  <2>2. CASE g # f
    BY <1>7, <2>2 DEF SumInHand
  <2> QED BY <2>1, <2>2
<1> QED BY <1>8, <1>9, <1>11, <1>12, <1>13

\* The completed refund is added to what has been written; the payment's row is its own.
LEMMA SyncKeepsRefunds ==
  ASSUME IInv, IInv', RefundInvariant, NEW f \in Refunds, SyncOrderRefundTotals(f)
  PROVE  /\ RefundInvariant'
         /\ status[refund[f].payment] # "REFUNDED"
         /\ status'[refund[f].payment] \in {"PARTIALLY_REFUNDED", "REFUNDED"}
<1> USE DEF IInv, Books, RefundInvariant
<1> DEFINE p == refund[f].payment
           o == orderOf[p]
           next == RefundedStatus(seen[f])
<1>1. /\ work[f] = "writing" /\ seen[f] <= Amount
      /\ refund' = [refund EXCEPT ![f].status = "COMPLETED"]
      /\ work' = [work EXCEPT ![f] = "none"] /\ seen' = [seen EXCEPT ![f] = 0]
      /\ refundedTotal' = [refundedTotal EXCEPT ![o] = seen[f]]
      /\ paymentStatus' = [paymentStatus EXCEPT ![o] = next]
      /\ status' = IF status[p] \in Recognised THEN [status EXCEPT ![p] = next] ELSE status
      /\ UNCHANGED <<orderOf, captures>>
  BY DEF SyncOrderRefundTotals, ledger
<1>2. /\ refund[f].status = "REQUESTED" /\ p \in Payments /\ status[p] \in Recognised
      /\ refund[f].amount \in 1..Amount /\ o \in Orders
  <2>1. refund[f].status = "REQUESTED"
    BY <1>1 DEF RefundRows
  <2>2. p \in Payments /\ status[p] \in Recognised
    BY <2>1 DEF RefundRows
  <2> QED BY <2>1, <2>2, RowsHaveAmounts DEF CreatedForOrder, Recognised
<1>3. /\ seen[f] \in 1..Amount /\ seen[f] >= refund[f].amount
      /\ PaidPayments(o) = {p} => seen[f] = refund[f].amount + WrittenOf(f)
      /\ status[p] # "REFUNDED"
  BY <1>1, <1>2, PaymentsAssumption DEF SumInHand, MoneyTypes
<1>4. /\ next \in {"PARTIALLY_REFUNDED", "REFUNDED"}
      /\ next = "REFUNDED" <=> seen[f] = Amount
  BY <1>3, PaymentsAssumption DEF RefundedStatus
<1> HIDE DEF next
<1>5. /\ \A g \in Refunds : refund'[g].payment = refund[g].payment /\ refund'[g].amount = refund[g].amount
      /\ \A g \in Refunds : refund'[g].status = IF g = f THEN "COMPLETED" ELSE refund[g].status
      /\ \A g \in Refunds : work'[g] = IF g = f THEN "none" ELSE work[g]
      /\ \A g \in Refunds : seen'[g] = IF g = f THEN 0 ELSE seen[g]
  BY <1>1 DEF RefundTypes, MoneyTypes
<1>6. /\ \A q \in Payments : status'[q] = IF q = p THEN next ELSE status[q]
      /\ \A d \in Orders : paymentStatus'[d] = IF d = o THEN next ELSE paymentStatus[d]
      /\ \A d \in Orders : refundedTotal'[d] = IF d = o THEN seen[f] ELSE refundedTotal[d]
  BY <1>1, <1>2 DEF PaymentTypes, MoneyTypes
<1>7. \A d : PaidPayments(d)' = PaidPayments(d)
  BY <1>1 DEF PaidPayments
<1>8. MoneyTypes' /\ RefundRows'
  <2>1. MoneyTypes'
    <3>1. refundedTotal \in [Orders -> 0..Amount] /\ seen \in [Refunds -> Nat]
      BY DEF MoneyTypes
    <3>2. seen[f] \in 0..Amount
      BY <1>3, PaymentsAssumption
    <3> HIDE DEF o
    <3> QED BY <1>1, <3>1, <3>2 DEF MoneyTypes
  <2>2. \A q \in Payments : status[q] \in Recognised => status'[q] \in Recognised
    BY <1>4, <1>6 DEF Recognised
  <2> QED BY <1>2, <1>5, <2>1, <2>2 DEF RefundRows
<1>9. OneWriter'
  BY <1>5 DEF OneWriter
<1>10. \A g \in Refunds : work'[g] = "writing" => refund[g].payment # p /\ work[g] = "writing"
  BY <1>1, <1>5 DEF OneWriter
<1>11. ASSUME NEW T \in SUBSET Refunds
       PROVE  SumOn(refund', T) = SumOn(refund, T)
  BY <1>5, <1>11, SumOnSame
<1>12. RefundsWithinPayment'
  <2> SUFFICES ASSUME NEW q \in Payments
               PROVE  SumOn(refund', Rows(refund', q, Outstanding)) <= Amount
    BY AmountIsSum DEF RefundsWithinPayment
  <2>1. Rows(refund', q, Outstanding) = Rows(refund, q, Outstanding)
    BY <1>2, <1>5 DEF Rows, Outstanding
  <2>2. Rows(refund, q, Outstanding) \in SUBSET Refunds
    BY DEF Rows
  <2> QED BY <1>11, <2>1, <2>2, AmountIsSum DEF RefundsWithinPayment
<1>13. \A q : q # p => AmountOf(RefundsOf(q, {"COMPLETED"}))' = AmountOf(RefundsOf(q, {"COMPLETED"}))
  <2> TAKE q
  <2>1. q # p => Rows(refund', q, {"COMPLETED"}) = Rows(refund, q, {"COMPLETED"})
    BY <1>5 DEF Rows
  <2>2. Rows(refund, q, {"COMPLETED"}) \in SUBSET Refunds
    BY DEF Rows
  <2> QED BY <1>11, <2>1, <2>2, AmountIsSum
<1>14. \A q : q = p => AmountOf(RefundsOf(q, {"COMPLETED"}))' =
                        refund[f].amount + AmountOf(RefundsOf(q, {"COMPLETED"}))
  <2> DEFINE T == Rows(refund, p, {"COMPLETED"})
  <2>1. T \in SUBSET Refunds /\ f \in Refunds \ T
    BY <1>2 DEF Rows
  <2>2. Rows(refund', p, {"COMPLETED"}) = T \cup {f}
    BY <1>5 DEF Rows
  <2>3. \A g \in T \cup {f} : refund[g].amount \in Nat
    BY <1>2, RowsHaveAmounts DEF Rows
  <2>4. SumOn(refund, T \cup {f}) = refund[f].amount + SumOn(refund, T)
    <3> HIDE DEF T
    <3> QED BY <2>1, <2>3, SumOnAdd
  <2>5. SumOn(refund', T \cup {f}) = SumOn(refund, T \cup {f})
    <3> HIDE DEF T
    <3> QED BY <1>11, <2>1
  <2> QED BY <2>2, <2>4, <2>5, AmountIsSum
<1>19. ASSUME NEW d
       PROVE  /\ SumOn(refund, Done(refund, orderOf, d)) <= SumOn(refund', Done(refund', orderOf, d))
              /\ SumOn(refund, Done(refund, orderOf, d)) \in Nat
              /\ SumOn(refund', Done(refund', orderOf, d)) \in Nat
              /\ d = o => SumOn(refund', Done(refund', orderOf, d)) =
                           refund[f].amount + SumOn(refund, Done(refund, orderOf, d))
  <2> DEFINE T == Done(refund, orderOf, d)
             U == Done(refund', orderOf, d)
  <2>1. T \in SUBSET U /\ U \in SUBSET Refunds /\ f \in Refunds \ T
    BY <1>2, <1>5 DEF Done
  <2>2. \A g \in U : refund[g].amount \in 1..Amount
    <3>1. \A g \in U : refund[g].status # "NONE"
      BY <1>2, <1>5 DEF Done
    <3> QED BY <2>1, <3>1, RowsHaveAmounts
  <2>3. d = o => U = T \cup {f}
    BY <1>5 DEF Done
  <2> HIDE DEF T, U
  <2>4. SumOn(refund, T) <= SumOn(refund, U) /\ SumOn(refund', U) = SumOn(refund, U)
    BY <1>11, <2>1, <2>2, SumOnSubset
  <2>5. SumOn(refund, T) \in Nat /\ SumOn(refund, U) \in Nat
    BY <2>1, <2>2, SumOnNat
  <2>6. U = T \cup {f} => SumOn(refund, U) = refund[f].amount + SumOn(refund, T)
    BY <2>1, <2>2, SumOnAdd
  <2>7. /\ SumOn(refund, T) <= SumOn(refund', U) /\ SumOn(refund', U) \in Nat
        /\ d = o => SumOn(refund', U) = refund[f].amount + SumOn(refund, T)
    BY <2>3, <2>4, <2>5, <2>6
  <2> QED BY <2>5, <2>7 DEF T, U
<1>15. SumInHand'
  <2> SUFFICES ASSUME NEW g \in Refunds, work'[g] = "writing"
               PROVE  /\ seen'[g] >= refund'[g].amount /\ seen'[g] <= refund'[g].amount + WrittenOfOrder(g)'
                      /\ PaidPayments(orderOf[refund[g].payment])' = {refund'[g].payment} =>
                           seen'[g] = refund'[g].amount + WrittenOf(g)'
                      /\ status'[refund'[g].payment] = "REFUNDED" => seen'[g] > Amount
    BY DEF SumInHand
  <2>1. /\ g # f /\ refund[g].payment \in Payments \ {p} /\ work[g] = "writing" /\ seen'[g] = seen[g]
        /\ refund'[g].payment = refund[g].payment /\ refund'[g].amount = refund[g].amount
    BY <1>5, <1>10 DEF RefundRows
  <2>2. WrittenOf(g)' = WrittenOf(g)
    <3>1. /\ WrittenOf(g)' = SumOn(refund', Rows(refund', refund'[g].payment, {"COMPLETED"}))
          /\ WrittenOf(g) = SumOn(refund, Rows(refund, refund[g].payment, {"COMPLETED"}))
      BY DEF WrittenOf, AmountOf, Amounts, RefundsOf, SumOn, Rows
    <3>2. SumOn(refund', Rows(refund', refund[g].payment, {"COMPLETED"})) =
            SumOn(refund, Rows(refund, refund[g].payment, {"COMPLETED"}))
      BY <1>13, <2>1, AmountIsSum
    <3> QED BY <2>1, <3>1, <3>2
  <2>3. PaidPayments(orderOf[refund[g].payment])' = PaidPayments(orderOf[refund[g].payment])
    BY <1>1, <1>5 DEF PaidPayments
  <2>4. status'[refund[g].payment] = status[refund[g].payment]
    BY <1>6, <2>1
  <2>5. WrittenOfOrder(g) <= WrittenOfOrder(g)' /\ WrittenOfOrder(g) \in Nat /\ WrittenOfOrder(g)' \in Nat
    <3> DEFINE d == orderOf[refund[g].payment]
    <3>1. WrittenOfOrder(g) = SumOn(refund, Done(refund, orderOf, d))
      BY WrittenOfOrderIsSum
    <3>2. WrittenOfOrder(g)' = SumOn(refund', Done(refund', orderOf, d))
      BY <1>1, <2>1, WrittenOfOrderIsSum
    <3> HIDE DEF d
    <3> QED BY <1>19, <3>1, <3>2
  <2>6. seen[g] \in Nat /\ refund[g].amount \in Nat
    BY <2>1, RowsHaveAmounts DEF MoneyTypes, RefundRows
  <2>7. seen[g] >= refund[g].amount /\ seen[g] <= refund[g].amount + WrittenOfOrder(g)
    BY <2>1 DEF SumInHand
  <2>8. seen'[g] <= refund'[g].amount + WrittenOfOrder(g)'
    BY <2>1, <2>5, <2>6, <2>7
  <2> QED BY <2>1, <2>2, <2>3, <2>4, <2>7, <2>8 DEF SumInHand
<1>16. RefundedIsWhole'
  <2> SUFFICES ASSUME NEW q \in Payments, status'[q] = "REFUNDED"
               PROVE  SumOn(refund', Done(refund', orderOf, orderOf[q])) >= Amount
    <3>1. ASSUME NEW q \in Payments
          PROVE  AmountOf(CompletedOf(orderOf[q]))' = SumOn(refund', Done(refund', orderOf', orderOf'[q]))
      BY DEF AmountOf, Amounts, CompletedOf, SumOn, Done
    <3> QED BY <1>1, <3>1 DEF RefundedIsWhole
  <2> DEFINE d == orderOf[q]
  <2>1. CASE q # p
    <3>1. SumOn(refund, Done(refund, orderOf, d)) >= Amount
      BY <1>6, <2>1, AmountIsSum DEF RefundedIsWhole
    <3> HIDE DEF d
    <3>2. SumOn(refund', Done(refund', orderOf, d)) >= Amount
      BY <1>19, <3>1, PaymentsAssumption
    <3> QED BY <3>2 DEF d
  <2>2. CASE q = p
    <3>1. seen[f] = Amount /\ d = o
      BY <1>4, <1>6, <2>2
    <3>2. seen[f] <= refund[f].amount + SumOn(refund, Done(refund, orderOf, d))
      BY <1>1, <2>2, WrittenOfOrderIsSum DEF SumInHand
    <3> HIDE DEF d, o
    <3>3. SumOn(refund', Done(refund', orderOf, d)) >= Amount
      BY <1>2, <1>19, <3>1, <3>2, PaymentsAssumption
    <3> QED BY <3>3 DEF d
  <2> QED BY <2>1, <2>2
<1>17. UnpaidIsNotRefunded'
  BY <1>2, <1>6, <1>7 DEF UnpaidIsNotRefunded, PaidPayments, OneCapture
<1>18. RefundBooks'
  <2> SUFFICES ASSUME NEW d \in Orders, NEW q \in PaidPayments(d)', PaidPayments(d)' = {q}
               PROVE  /\ refundedTotal'[d] = AmountOf(RefundsOf(q, {"COMPLETED"}))'
                      /\ paymentStatus'[d] = status'[q]
                      /\ status'[q] = "REFUNDED" <=> refundedTotal'[d] = Amount
    BY DEF RefundBooks
  <2>1. PaidPayments(d) = {q} /\ q \in Payments /\ orderOf[q] = d
    BY <1>7 DEF PaidPayments
  <2>2. CASE d = o
    <3>1. q = p
      BY <1>2, <2>1, <2>2 DEF PaidPayments, OneCapture
    <3> QED BY <1>3, <1>4, <1>6, <1>14, <2>1, <2>2, <3>1 DEF WrittenOf
  <2>3. CASE d # o
    <3>1. q # p
      BY <2>1, <2>3
    <3> QED BY <1>6, <1>13, <2>1, <2>3, <3>1 DEF RefundBooks
  <2> QED BY <2>2, <2>3
<1> QED BY <1>2, <1>3, <1>4, <1>6, <1>8, <1>9, <1>12, <1>15, <1>16, <1>17, <1>18

LEMMA NextRefundInvariant == IInv /\ IInv' /\ RefundInvariant /\ [Next]_vars => RefundInvariant'
<1> SUFFICES ASSUME IInv, IInv', RefundInvariant, [Next]_vars
             PROVE  RefundInvariant'
  OBVIOUS
<1>1. CASE Quiet
  BY <1>1, QuietKeepsRefunds
<1>2. ASSUME NEW p \in Payments, Recognises(p)
      PROVE  RefundInvariant'
  BY <1>2, RecognisesKeepsRefunds
<1>3. ASSUME NEW f \in Refunds, RefundNext(f)
      PROVE  RefundInvariant'
  BY <1>3, RequestKeepsRefunds, WorkKeepsRefunds, SumKeepsRefunds, SyncKeepsRefunds DEF RefundNext
<1> QED BY <1>1, <1>2, <1>3, StepKinds

\* The invariant of the refunds: what the holder of a payment's row has summed is
\* what it will find written, as far as the books speak of it.
THEOREM RefundsInvariant == Spec => []RefundInvariant
<1>1. IInv /\ RefundInvariant /\ [Next]_vars => RefundInvariant'
  BY NextIInv, NextRefundInvariant
<1> QED BY <1>1, InitRefundInvariant, PaymentsInvariant, PTL DEF Spec

\* requestRefund counts what is requested, pending and completed under the payment's
\* lock: refunds that race, stop or are never answered do not claim more than was paid.
THEOREM RefundsWithin == Spec => []RefundsWithinPayment
BY RefundsInvariant, PTL DEF RefundInvariant

\* syncOrderRefundTotals: the order of a single paid payment carries the sum of its
\* completed refunds, and says of itself what the payment says.
THEOREM RefundBooksBalance == Spec => []RefundBooks
BY RefundsInvariant, PTL DEF RefundInvariant

\* A step of the system takes no recognised payment back.
LEMMA StepIsFinal ==
  ASSUME IInv, IInv', RefundInvariant, [Next]_vars, NEW p \in Payments, status[p] \in Recognised
  PROVE  status'[p] \in Recognised /\ Rank(status'[p]) >= Rank(status[p])
<1> USE DEF IInv, Books, RefundInvariant
<1>0. \A s \in Recognised : Rank(s) \in Nat
  BY DEF Rank, Recognised
<1>1. CASE status'[p] = status[p]
  BY <1>0, <1>1
<1>2. CASE Quiet \/ \E q \in Payments : Recognises(q)
  <2>1. status'[p] = status[p]
    BY <1>2 DEF Quiet, Recognises
  <2> QED BY <1>1, <2>1
<1>3. ASSUME NEW f \in Refunds, RefundNext(f)
      PROVE  status'[p] \in Recognised /\ Rank(status'[p]) >= Rank(status[p])
  <2>1. CASE SyncOrderRefundTotals(f)
    <3>1. /\ status[refund[f].payment] # "REFUNDED"
          /\ status'[refund[f].payment] \in {"PARTIALLY_REFUNDED", "REFUNDED"}
      BY <2>1, SyncKeepsRefunds
    <3>2. p # refund[f].payment => status'[p] = status[p]
      <4>1. \/ status' = status
            \/ status' = [status EXCEPT ![refund[f].payment] = RefundedStatus(seen[f])]
        BY <2>1 DEF SyncOrderRefundTotals
      <4> QED BY <4>1 DEF PaymentTypes
    <3>3. CASE p = refund[f].payment
      BY <3>1, <3>3 DEF Rank, Recognised
    <3> QED BY <1>1, <3>2, <3>3
  <2>2. CASE ~SyncOrderRefundTotals(f)
    <3>1. status' = status
      BY <1>3, <2>2 DEF RefundNext, RequestRefund, ProviderRefunds, MarkRefundOutcome, SumRefunds,
         RefundStops, payments
    <3> QED BY <1>1, <3>1
  <2> QED BY <2>1, <2>2
<1> QED BY <1>2, <1>3, StepKinds

\* decideTransition and syncOrderRefundTotals walk no recognised payment back, although
\* outcomes come late, twice and between the steps of a refund.
THEOREM RecognitionFinal == Spec => RecognitionIsFinal
<1> DEFINE Final == \A p \in Payments :
                      status[p] \in Recognised =>
                        status'[p] \in Recognised /\ Rank(status'[p]) >= Rank(status[p])
<1>1. IInv /\ IInv' /\ RefundInvariant /\ [Next]_vars => [Final]_vars
  BY StepIsFinal
<1> HIDE DEF Final
<1>2. Spec => [][Final]_vars
  BY <1>1, PaymentsInvariant, RefundsInvariant, PTL DEF Spec
<1> QED BY <1>2 DEF RecognitionIsFinal, Final
=============================================================================
