---------------------------- MODULE Procurement ----------------------------
(***************************************************************************)
(* Purchase orders and goods receipts (ProcurementService with its         *)
(* repository), and the units they move through applyStockChanges.  Each   *)
(* operation is one transaction that begins with the order's row and its   *)
(* lines, so staff race by the order of these steps.  All lines are of one *)
(* variant at one location: its counters are shared by every order.        *)
(***************************************************************************)
EXTENDS Integers, FiniteSets, Functions

CONSTANTS
  Orders,        \* purchase orders
  OrderLines,    \* lines of each
  Untracked,     \* lines without a variant
  Quantities,    \* bound of the model: units ordered on a line
  ReceiptKeys,   \* idempotency keys of receiveGoods
  Entries        \* bound of the model: the entries a receipt may have

VARIABLES
  orders,        \* status and ordered units, by order
  receipts,      \* what each key received, "none" before
  incoming, onHand

procurementVars == <<orders, receipts, incoming, onHand>>

NoReceipt == [order |-> "none", entries |-> <<>>]
Sum(f) == SumFunctionOnSet(f, DOMAIN f)
NoUnits == [l \in OrderLines |-> 0]

ProcurementInit ==
  /\ orders = [o \in Orders |-> [status |-> "DRAFT", ordered |-> NoUnits]]
  /\ receipts = [k \in ReceiptKeys |-> NoReceipt]
  /\ incoming = 0 /\ onHand = 0

-----------------------------------------------------------------------------
(* The receipt lines of an order line, as the rows tell.  An entry is      *)
(* [line, accepted, rejected].                                             *)
Taken(entries, l) ==
  Sum([i \in DOMAIN entries |->
         IF entries[i].line = l THEN entries[i].accepted + entries[i].rejected ELSE 0])
Received(o, l) ==
  Sum([k \in ReceiptKeys |-> IF receipts[k].order = o THEN Taken(receipts[k].entries, l) ELSE 0])
Remaining(o, l) == orders[o].ordered[l] - Received(o, l)
Tracked == OrderLines \ Untracked

(* What an order still brings: projectIncoming and incomingForKeys.        *)
Brings(o) ==
  Sum([l \in Tracked |-> IF Remaining(o, l) > 0 THEN Remaining(o, l) ELSE 0])
Expected == {o \in Orders : orders[o].status \in {"CONFIRMED", "PARTIALLY_RECEIVED"}}

SetStatus(o, s) == orders' = [orders EXCEPT ![o].status = s]

(* replaceLines: a line of no units is none.                               *)
ReplaceLines(o, q) ==
  /\ orders[o].status = "DRAFT"
  /\ orders' = [orders EXCEPT ![o].ordered = q]
  /\ UNCHANGED <<receipts, incoming, onHand>>

(* transitionPurchaseOrder.                                                *)
SubmitOrder(o) ==
  /\ orders[o].status = "DRAFT" /\ SetStatus(o, "SUBMITTED")
  /\ UNCHANGED <<receipts, incoming, onHand>>
BackToDraft(o) ==
  /\ orders[o].status = "SUBMITTED" /\ SetStatus(o, "DRAFT")
  /\ UNCHANGED <<receipts, incoming, onHand>>
Confirm(o) ==
  /\ orders[o].status = "SUBMITTED" /\ orders[o].ordered # NoUnits
  /\ SetStatus(o, "CONFIRMED")
  /\ incoming' = incoming + Brings(o)
  /\ UNCHANGED <<receipts, onHand>>
Cancel(o) ==
  /\ orders[o].status \in {"DRAFT", "SUBMITTED", "CONFIRMED"}
  /\ orders[o].status = "CONFIRMED" => incoming >= Brings(o)
  /\ SetStatus(o, "CANCELLED")
  /\ incoming' = incoming - (IF orders[o].status = "CONFIRMED" THEN Brings(o) ELSE 0)
  /\ UNCHANGED <<receipts, onHand>>

StatusAfterOneLine(o, entries) ==
  IF \E l \in OrderLines : Taken(entries, l) > 0 /\ Taken(entries, l) >= Remaining(o, l)
  THEN "RECEIVED" ELSE "PARTIALLY_RECEIVED"

(* #derivedReceiptStatus.                                                  *)
StatusAfter(o, entries) ==
  IF \A l \in OrderLines : Taken(entries, l) >= Remaining(o, l)
  THEN "RECEIVED" ELSE "PARTIALLY_RECEIVED"

FitsOrdered(o, entry) ==
  /\ orders[o].ordered[entry.line] > 0
  /\ entry.accepted + entry.rejected >= 1
  /\ entry.accepted + entry.rejected <= orders[o].ordered[entry.line]

Fits(o, entry) ==
  /\ orders[o].ordered[entry.line] > 0
  /\ entry.accepted + entry.rejected >= 1
  /\ entry.accepted + entry.rejected <= Remaining(o, entry.line)

(* receiveGoods.  A key that was used answers what it received; with other *)
(* entries it is refused.  Each entry is compared with what the order's    *)
(* line lacked before this receipt.                                        *)
ReceiveGoods(k, o, entries) ==
  LET accepted == Sum([i \in DOMAIN entries |->
                         IF entries[i].line \in Tracked THEN entries[i].accepted ELSE 0])
      taken    == Sum([i \in DOMAIN entries |->
                         IF entries[i].line \in Tracked
                         THEN entries[i].accepted + entries[i].rejected ELSE 0])
  IN /\ receipts[k] = NoReceipt
     /\ orders[o].status \in {"CONFIRMED", "PARTIALLY_RECEIVED", "RECEIVED"}
     /\ \A i \in DOMAIN entries : Fits(o, entries[i])
     /\ incoming >= taken
     /\ receipts' = [receipts EXCEPT ![k] = [order |-> o, entries |-> entries]]
     /\ incoming' = incoming - taken
     /\ onHand' = onHand + accepted
     /\ SetStatus(o, StatusAfter(o, entries))

ProcurementNext ==
  \/ \E o \in Orders, q \in [OrderLines -> Quantities] : ReplaceLines(o, q)
  \/ \E o \in Orders : SubmitOrder(o) \/ BackToDraft(o) \/ Confirm(o) \/ Cancel(o)
  \/ \E k \in ReceiptKeys, o \in Orders, e \in Entries : ReceiveGoods(k, o, e)

ProcurementSpec == ProcurementInit /\ [][ProcurementNext]_procurementVars

-----------------------------------------------------------------------------
ProcurementTypeOK ==
  /\ orders \in [Orders -> [status : {"DRAFT", "SUBMITTED", "CONFIRMED", "CANCELLED",
                                      "PARTIALLY_RECEIVED", "RECEIVED"},
                            ordered : [OrderLines -> Quantities \cup {0}]]]
  /\ receipts \in [ReceiptKeys -> [order : Orders, entries : Entries] \cup {NoReceipt}]
  /\ incoming \in Nat /\ onHand \in Nat

(* Some receipt of the order names one line twice.                         *)
NamedTwice(o) ==
  \E k \in ReceiptKeys :
    LET e == receipts[k].entries IN
    receipts[k].order = o /\ \E i, j \in DOMAIN e : i # j /\ e[i].line = e[j].line

\* Receipts never bring more than a line ordered, whatever keys are repeated
\* and however staff race, unless one receipt names the same line twice: its
\* entries are each compared with the same remainder.
ReceivedWithinOrder ==
  \A o \in Orders : NamedTwice(o) \/ \A l \in OrderLines : Remaining(o, l) >= 0

\* The units on their way are those the confirmed orders still bring, so the
\* projection the reconciliation compares with is exact, and an order counts as
\* received when nothing is missing and not earlier, with the same exception.
IncomingIsOutstanding ==
  (\A o \in Orders : ~NamedTwice(o)) =>
    /\ incoming = Sum([o \in Expected |-> Brings(o)])
    /\ \A o \in Orders : orders[o].status = "RECEIVED" <=>
         /\ \E k \in ReceiptKeys : receipts[k].order = o
         /\ \A l \in OrderLines : Remaining(o, l) = 0
=============================================================================
