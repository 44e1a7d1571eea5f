------------------------------ MODULE Reviews ------------------------------
(***************************************************************************)
(* Product reviews of the customer who placed the order of Fulfilment      *)
(* (ReviewsService, ReviewPurchaseService and their repositories).  The    *)
(* purchase is looked up, its row locked and looked at again; the delivery *)
(* of every line is verified under that lock, and the review is written in *)
(* the same transaction.                                                   *)
(***************************************************************************)
EXTENDS Fulfilment

CONSTANTS Products, MaxLookups

VARIABLES
  published, \* products on sale
  lookup,    \* what each request read before the order was locked
  reviews    \* the review of each product: a customer has one of it

reviewVars == <<published, lookup, reviews>>

ReviewsInit ==
  /\ Init
  /\ published = Products
  /\ lookup = {}
  /\ reviews = [p \in Products |-> "none"]

Purchased ==
  /\ order.status \in {"FULFILLED", "COMPLETED"}
  /\ order.payment = "PAID" /\ refunded = 0

\* verifyReviewDelivery
Delivered == Complete({"DELIVERED"})

(* submit: the page is looked up first, the candidate order then, without  *)
(* a lock.                                                                 *)
FindPurchase(p) ==
  /\ p \in published /\ Purchased
  /\ Cardinality(lookup) < MaxLookups
  /\ lookup' = lookup \cup {p}
  /\ UNCHANGED <<vars, published, reviews>>

\* What is on its way counts as delivered.
EligibleWhenSent == Purchased /\ Complete(Sent)
Eligible == Purchased /\ Delivered

Submit(p) ==
  /\ p \in lookup
  /\ lookup' = lookup \ {p}
  /\ reviews' = IF Eligible /\ reviews[p] = "none"
                THEN [reviews EXCEPT ![p] = "PENDING"] ELSE reviews
  /\ UNCHANGED <<vars, published>>

\* moderate, under the lock of the row: once, and for good.
Moderate(p, verdict) ==
  /\ reviews[p] = "PENDING"
  /\ reviews' = [reviews EXCEPT ![p] = verdict]
  /\ UNCHANGED <<vars, published, lookup>>

Publish(p) ==
  /\ published' = IF p \in published THEN published \ {p} ELSE published \cup {p}
  /\ UNCHANGED <<vars, lookup, reviews>>

ReviewsNext ==
  \/ Next /\ UNCHANGED reviewVars
  \/ \E p \in Products :
       \/ FindPurchase(p) \/ Submit(p) \/ Publish(p)
       \/ \E verdict \in {"APPROVED", "REJECTED"} : Moderate(p, verdict)

ReviewsSpec == ReviewsInit /\ [][ReviewsNext]_<<vars, reviewVars>>

-----------------------------------------------------------------------------
ReviewsTypeOK ==
  /\ TypeOK
  /\ published \subseteq Products /\ lookup \subseteq Products
  /\ reviews \in [Products -> {"none", "PENDING", "APPROVED", "REJECTED"}]

(* Every review shown as a verified purchase is of an order that was paid  *)
(* for and arrived completely, in whatever parts it was sent, and although *)
(* the order may be refunded while the review is being submitted.          *)
OnlyVerifiedPurchases ==
  \A p \in Products : reviews[p] # "none" => Delivered /\ order.fulfilment = "FULFILLED"
=============================================================================
