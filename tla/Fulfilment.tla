----------------------------- MODULE Fulfilment -----------------------------
(***************************************************************************)
(* One order after its confirmation: it is paid and refunded by the        *)
(* payments, and staff draft shipments of it, dispatch them, mark them     *)
(* delivered, or cancel it (FulfilmentService with its repository and what *)
(* it asks of OrdersService and InventoryService).  Every operation begins *)
(* with the lock of the order and is one transaction, so staff members     *)
(* race by the order of these steps.                                       *)
(*                                                                         *)
(* A consumed reservation is one variant at one location; its inventory    *)
(* item also has units allocated to other orders.                          *)
(***************************************************************************)
EXTENDS Integers, FiniteSets, Functions

CONSTANTS
  Reservations,  \* consumed reservations of the order, numbered in their order
  LineOf,        \* the order line of each
  UnitsOf,       \* and its units
  Others,        \* units other orders have allocated of each item
  Shipments,     \* idempotency keys of createShipment
  Refundable     \* the order's total in units of the smallest refund

VARIABLES order, shipments, allocated, dispatched, refunded

vars == <<order, shipments, allocated, dispatched, refunded>>

Lines == {LineOf[r] : r \in Reservations}
ReservationsOf(l) == {r \in Reservations : LineOf[r] = l}
Ordered(l) == SumFunctionOnSet(UnitsOf, ReservationsOf(l))

NoAllocation == [r \in Reservations |-> 0]
NoShipment   == [status |-> "absent", alloc |-> NoAllocation]

Init ==
  /\ order = [status |-> "PENDING_PAYMENT", payment |-> "UNPAID", fulfilment |-> "UNFULFILLED"]
  /\ shipments = [s \in Shipments |-> NoShipment]
  /\ allocated = [r \in Reservations |-> UnitsOf[r] + Others[r]]
  /\ dispatched = NoAllocation
  /\ refunded = 0

-----------------------------------------------------------------------------
(* The payments.  Refunds complete in parts; the whole amount makes the    *)
(* order a refunded one, whatever was done with it.                        *)
Capture ==
  /\ order.payment = "UNPAID"
  /\ order' = [order EXCEPT !.status = "PAID", !.payment = "PAID"]
  /\ UNCHANGED <<shipments, allocated, dispatched, refunded>>

Refund ==
  /\ order.payment \in {"PAID", "PARTIALLY_REFUNDED"} /\ refunded < Refundable
  /\ refunded' = refunded + 1
  /\ order' = IF refunded + 1 = Refundable
              THEN [order EXCEPT !.payment = "REFUNDED", !.status = "REFUNDED"]
              ELSE [order EXCEPT !.payment = "PARTIALLY_REFUNDED"]
  /\ UNCHANGED <<shipments, allocated, dispatched>>

-----------------------------------------------------------------------------
Existing(S) == {s \in Shipments : shipments[s].status \in S}
AnyStatus   == {"PENDING", "IN_TRANSIT", "DELIVERED"}
Sent        == {"IN_TRANSIT", "DELIVERED"}

AllocatedIn(S, r) == SumFunctionOnSet([s \in Shipments |-> shipments[s].alloc[r]], Existing(S))
LineUnits(S, l) ==
  SumFunctionOnSet([r \in Reservations |-> AllocatedIn(S, r)], ReservationsOf(l))

\* assertFulfillable
Fulfillable ==
  /\ order.payment = "PAID"
  /\ order.status \in {"PAID", "PROCESSING", "PARTIALLY_FULFILLED"}
  /\ order.fulfilment # "FULFILLED"

(* createShipment: each requested line takes what is free of its           *)
(* reservations, in their order; drafts of other shipments count.          *)
FreeOfDispatched(r) == UnitsOf[r] - AllocatedIn(Sent, r)
Free(r) == UnitsOf[r] - AllocatedIn(AnyStatus, r)
FreeIn(R) == SumFunctionOnSet([r \in Reservations |-> Free(r)], R)

Smaller(m, n) == IF m <= n THEN m ELSE n
Allocation(request) ==
  [r \in Reservations |->
     LET before == FreeIn({q \in ReservationsOf(LineOf[r]) : q < r})
         needed == request[LineOf[r]]
     IN  IF needed <= before THEN 0 ELSE Smaller(Free(r), needed - before)]

CreateShipment(s, request) ==
  /\ shipments[s].status = "absent"
  /\ Fulfillable
  /\ \E l \in Lines : request[l] > 0
  /\ \A l \in Lines : request[l] <= FreeIn(ReservationsOf(l))
  /\ shipments' = [shipments EXCEPT ![s] = [status |-> "PENDING", alloc |-> Allocation(request)]]
  /\ UNCHANGED <<order, allocated, dispatched, refunded>>

(* markShipped: the units leave the shelf and the allocation, and the      *)
(* order is as complete as what has been sent by now.                      *)
Complete(S) == \A l \in Lines : LineUnits(S, l) = Ordered(l)

\* Drafts count as sent.
CompleteWithDrafts(s) == Complete(AnyStatus)
CompleteWith(s) ==
  \A l \in Lines :
    LineUnits(Sent, l) + SumFunctionOnSet(shipments[s].alloc, ReservationsOf(l)) = Ordered(l)

MarkShipped(s) ==
  LET alloc == shipments[s].alloc
  IN  /\ shipments[s].status = "PENDING"
      /\ Fulfillable
      /\ \A r \in Reservations : alloc[r] <= allocated[r]
      /\ shipments' = [shipments EXCEPT ![s].status = "IN_TRANSIT"]
      /\ allocated' = [r \in Reservations |-> allocated[r] - alloc[r]]
      /\ dispatched' = [r \in Reservations |-> dispatched[r] + alloc[r]]
      /\ order' = IF CompleteWith(s)
                  THEN [order EXCEPT !.fulfilment = "FULFILLED", !.status = "FULFILLED"]
                  ELSE [order EXCEPT !.fulfilment = "PARTIAL", !.status = "PARTIALLY_FULFILLED"]
      /\ UNCHANGED refunded

MarkDelivered(s) ==
  /\ shipments[s].status = "IN_TRANSIT"
  /\ shipments' = [shipments EXCEPT ![s].status = "DELIVERED"]
  /\ UNCHANGED <<order, allocated, dispatched, refunded>>

(* cancelBeforeShipment gives everything back; a draft is enough to refuse *)
(* it.                                                                     *)
Cancellable ==
  /\ order.payment = "PAID"
  /\ order.status \in {"PAID", "PROCESSING"}
  /\ order.fulfilment = "UNFULFILLED"
  /\ Existing(AnyStatus) = {}

CancelBeforeShipment ==
  /\ Cancellable
  /\ \A r \in Reservations : UnitsOf[r] <= allocated[r]
  /\ allocated' = [r \in Reservations |-> allocated[r] - UnitsOf[r]]
  /\ order' = [order EXCEPT !.status = "CANCELLED"]
  /\ UNCHANGED <<shipments, dispatched, refunded>>

Requests ==
  {request \in [Lines -> 0..SumFunctionOnSet(UnitsOf, Reservations)] :
     \A l \in Lines : request[l] <= Ordered(l)}

Next ==
  \/ Capture \/ Refund
  \/ \E s \in Shipments :
       \/ \E request \in Requests : CreateShipment(s, request)
       \/ MarkShipped(s) \/ MarkDelivered(s)
  \/ CancelBeforeShipment

Spec == Init /\ [][Next]_vars

-----------------------------------------------------------------------------
TypeOK ==
  /\ order \in [status : {"PENDING_PAYMENT", "PAID", "PARTIALLY_FULFILLED", "FULFILLED",
                         "CANCELLED", "REFUNDED"},
               payment : {"UNPAID", "PAID", "PARTIALLY_REFUNDED", "REFUNDED"},
               fulfilment : {"UNFULFILLED", "PARTIAL", "FULFILLED"}]
  /\ shipments \in [Shipments -> [status : AnyStatus \cup {"absent"},
                                 alloc : [Reservations -> Nat]]]
  /\ allocated \in [Reservations -> Nat]
  /\ dispatched \in [Reservations -> Nat]
  /\ refunded \in 0..Refundable

(* No unit of this order leaves twice and none of another order leaves     *)
(* with it: what is drafted stays within the reservation, every item has   *)
(* exactly what this order still waits for on top of the others', and a    *)
(* cancelled order, nothing of which is drafted or sent, waits for nothing.*)
UnitsLeaveOnce ==
  \A r \in Reservations :
    /\ AllocatedIn(AnyStatus, r) <= UnitsOf[r]
    /\ dispatched[r] = AllocatedIn(Sent, r)
    /\ \/ allocated[r] = Others[r] + UnitsOf[r] - dispatched[r] /\ order.status # "CANCELLED"
       \/ allocated[r] = Others[r] /\ Existing(AnyStatus) = {}

(* The order says it is fulfilled exactly when every unit was sent, and    *)
(* partly when some were; whoever dispatched last, and whatever was        *)
(* refunded between the dispatches.                                        *)
FulfilmentFollowsShipments ==
  order.fulfilment = IF Existing(Sent) = {} THEN "UNFULFILLED"
                     ELSE IF Complete(Sent) THEN "FULFILLED" ELSE "PARTIAL"
=============================================================================
