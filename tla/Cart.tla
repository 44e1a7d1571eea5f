-------------------------------- MODULE Cart --------------------------------
(***************************************************************************)
(* Carts of one customer, first a guest (an anonymous identifier), then a  *)
(* user (CartService and its repository).  A request that carries both     *)
(* identities first merges the guest's cart into the user's; it then does  *)
(* what the same request of the user alone does, so merging is an action   *)
(* of its own that may happen at any moment.  Every transaction holds the  *)
(* advisory lock of its owner and the row of its cart and is one step;     *)
(* rendering a view reads first and clamps the lines in a transaction of   *)
(* its own, with what it read.                                             *)
(***************************************************************************)
EXTENDS Naturals, FiniteSets, SequencesExt

CONSTANTS
  Variants,
  MaximumLineQuantity, \* CART_MAXIMUM_LINE_QUANTITY
  AddKeys,             \* idempotency keys of addLine that are ever repeated
  FreshKey,            \* any other key
  Coupons,             \* whether the carts have one, TRUE or FALSE
  MaxCarts,            \* bound of the model: carts ever created
  MaxRenders           \* bound of the model: views being rendered at once

VARIABLES
  carts,      \* the rows of cart with their lines
  addClaims,  \* idempotency keys of addLine, by owner
  renders,    \* views whose clamps are still to be written
  available   \* units of each variant that may still be sold (inventory)

cartVars == <<carts, addClaims, renders, available>>

Owners     == {"guest", "user"}
CartIds    == 1..MaxCarts
Quantities == 1..MaximumLineQuantity
NoLines    == [v \in Variants |-> 0]
NoCart     == [owner |-> "guest", status |-> "absent", lines |-> NoLines,
               coupon |-> FALSE, expired |-> FALSE]
Unclaimed  == 0

Least(S) == CHOOSE n \in S : \A m \in S : n <= m

CartInit ==
  /\ carts = [c \in CartIds |-> NoCart]
  /\ addClaims = [o \in Owners |-> [k \in AddKeys |-> Unclaimed]]
  /\ renders = {}

Active(o) == {c \in CartIds : carts[c].status = "ACTIVE" /\ carts[c].owner = o}

(* #activeCartInTransaction: the owner's active cart, an expired one being *)
(* abandoned and replaced: the carts after it and the one to work on.      *)
ActiveCart(o) ==
  LET absent    == {c \in CartIds : carts[c].status = "absent"}
      new       == Least(absent)
      abandoned == [c \in CartIds |->
                      IF c \in Active(o) /\ carts[c].expired
                      THEN [carts[c] EXCEPT !.status = "ABANDONED"] ELSE carts[c]]
  IN  IF \E c \in Active(o) : ~carts[c].expired
      THEN {[carts |-> carts, id |-> c] : c \in {d \in Active(o) : ~carts[d].expired}}
      ELSE IF absent = {} THEN {}
      ELSE {[carts |-> [abandoned EXCEPT ![new] = [NoCart EXCEPT !.owner = o,
                                                             !.status = "ACTIVE"]],
             id    |-> new]}

WithActiveCart(o, Work(_, _)) == \E active \in ActiveCart(o) : Work(active.carts, active.id)

\* #render: the lines that exceed what is available, as they are read now.
StartRender(cs, c) ==
  LET clamps == {v \in Variants : available[v] > 0 /\ available[v] < cs[c].lines[v]}
  IN  renders' = IF clamps = {} \/ Cardinality(renders) >= MaxRenders
                 THEN renders
                 ELSE renders \cup {[cart |-> c, to |-> [v \in clamps |-> available[v]]]}

GetCart(o) ==
  /\ WithActiveCart(o, LAMBDA cs, c : carts' = cs /\ StartRender(cs, c))
  /\ UNCHANGED <<addClaims, available>>

SetLine(cs, c, v, n) == [cs EXCEPT ![c].lines[v] = n]

(* addLineWithIdempotency.  The claim and what it protects are written in  *)
(* one transaction.  A repeated key answers with the cart as it is.        *)
Claimed(o, k) == k # FreshKey /\ addClaims[o][k] # Unclaimed

AddLine(o, k, v, n) ==
  /\ WithActiveCart(o, LAMBDA cs, c :
       IF Claimed(o, k)
       THEN /\ addClaims[o][k] = n
            /\ carts' = cs /\ StartRender(cs, c)
            /\ UNCHANGED addClaims
       ELSE /\ available[v] >= 1
            /\ LET quantity == Least({MaximumLineQuantity, available[v], cs[c].lines[v] + n})
                   added    == SetLine(cs, c, v, quantity)
               IN  carts' = added /\ StartRender(added, c)
            /\ addClaims' = IF k = FreshKey THEN addClaims
                            ELSE [addClaims EXCEPT ![o][k] = n])
  /\ UNCHANGED available

UpdateLine(o, v, n) ==
  /\ available[v] >= 1
  /\ WithActiveCart(o, LAMBDA cs, c :
       LET updated == SetLine(cs, c, v, Least({n, available[v]}))
       IN  /\ cs[c].lines[v] > 0
           /\ carts' = updated /\ StartRender(updated, c))
  /\ UNCHANGED <<addClaims, available>>

RemoveLine(o, v) ==
  /\ WithActiveCart(o, LAMBDA cs, c :
       LET removed == SetLine(cs, c, v, 0)
       IN  /\ cs[c].lines[v] > 0
           /\ carts' = removed /\ StartRender(removed, c))
  /\ UNCHANGED <<addClaims, available>>

(* applyCoupon decides on the cart it reads and writes to the one active   *)
(* when it does; either may be a new one, so nothing of the first is left. *)
SetCoupon(o, coupon) ==
  /\ WithActiveCart(o, LAMBDA cs, c :
       /\ carts' = [cs EXCEPT ![c].coupon = coupon]
       /\ StartRender(cs, c))
  /\ UNCHANGED <<addClaims, available>>

(* The clamps of a view, in a transaction of their own.                    *)
Clamped(r) ==
  [carts EXCEPT ![r.cart].lines =
     [v \in Variants |-> IF v \in DOMAIN r.to /\ r.to[v] < @[v] THEN r.to[v] ELSE @[v]]]
Clamp(r) ==
  /\ renders' = renders \ {r}
  /\ carts' = IF carts[r.cart].status = "ACTIVE" THEN Clamped(r) ELSE carts
  /\ UNCHANGED <<addClaims, available>>

\* #mergeIfNecessary: the guest's lines, each up to what may be sold.
Merged(user, guest) ==
  [v \in Variants |->
     LET quantity == Least({MaximumLineQuantity, available[v], user[v] + guest[v]})
     IN  IF guest[v] > 0 /\ quantity > 0 THEN quantity ELSE user[v]]

Abandoned(S) ==
  [c \in CartIds |-> IF c \in S THEN [carts[c] EXCEPT !.status = "ABANDONED"] ELSE carts[c]]

MergeCarts ==
  LET stale == {c \in Active("user") \cup Active("guest") : carts[c].expired}
      kept  == Abandoned(stale)
  IN  /\ Active("guest") \cup stale # {}
      /\ \/ /\ Active("guest") \subseteq stale
            /\ carts' = kept
         \/ \E g \in Active("guest") \ stale :
              \/ /\ Active("user") \subseteq stale
                 /\ carts' = [kept EXCEPT ![g].owner = "user"]
              \/ \E u \in Active("user") \ stale :
                   carts' = [kept EXCEPT ![u].lines = Merged(@, carts[g].lines),
                                         ![u].coupon = @ \/ carts[g].coupon,
                                         ![g].lines = NoLines,
                                         ![g].status = "MERGED"]
      /\ UNCHANGED <<addClaims, renders, available>>

(* The clock: a cart nobody touched for CART_ACTIVE_TTL, a key for a day.  *)
CartExpires(c) ==
  /\ carts[c].status = "ACTIVE" /\ ~carts[c].expired
  /\ carts' = [carts EXCEPT ![c].expired = TRUE]
  /\ UNCHANGED <<addClaims, renders, available>>

AddKeyExpires(o, k) ==
  /\ addClaims[o][k] # Unclaimed
  /\ addClaims' = [addClaims EXCEPT ![o][k] = Unclaimed]
  /\ UNCHANGED <<carts, renders, available>>

CartNext ==
  \/ \E o \in Owners :
       \/ GetCart(o)
       \/ \E k \in AddKeys \cup {FreshKey}, v \in Variants, n \in Quantities : AddLine(o, k, v, n)
       \/ \E v \in Variants, n \in Quantities : UpdateLine(o, v, n)
       \/ \E v \in Variants : RemoveLine(o, v)
       \/ \E coupon \in Coupons : SetCoupon(o, coupon)
       \/ \E k \in AddKeys : AddKeyExpires(o, k)
  \/ \E r \in renders : Clamp(r)
  \/ MergeCarts
  \/ \E c \in CartIds : CartExpires(c)

-----------------------------------------------------------------------------
CartTypeOK ==
  /\ carts \in [CartIds -> [owner : Owners,
                            status : {"absent", "ACTIVE", "MERGED", "CONVERTED", "ABANDONED"},
                            lines : [Variants -> 0..MaximumLineQuantity],
                            coupon : BOOLEAN, expired : BOOLEAN]]
  /\ addClaims \in [Owners -> [AddKeys -> {Unclaimed} \cup Quantities]]
  /\ \A r \in renders : r.cart \in CartIds /\ DOMAIN r.to \subseteq Variants
  /\ available \in [Variants -> Nat]

(* No owner ever has two active carts, whatever is merged, abandoned and   *)
(* started anew: the unique indexes never refuse a request.                *)
OneActiveCart == \A o \in Owners : Cardinality(Active(o)) <= 1
=============================================================================
