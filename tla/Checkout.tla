------------------------------ MODULE Checkout ------------------------------
(***************************************************************************)
(* Checkout sessions on top of the carts: a session holds units for the    *)
(* lines of the cart, shows a price, and is confirmed into an order        *)
(* (CheckoutService with its repository, the orders it creates and the     *)
(* units InventoryService moves for it).  Each operation is one            *)
(* transaction that begins with the row of the session.                    *)
(*                                                                         *)
(* A session is named by the initiation key that created it, which is      *)
(* unique; repeating the key changes nothing.  Of a price only its version *)
(* is kept, and of the shipping quote nothing.  Time is untimed: a hold    *)
(* comes due at any moment, so its one extension is no step of its own.    *)
(***************************************************************************)
EXTENDS Cart

CONSTANTS
  Sessions,     \* initiation keys
  ConfirmKeys,  \* idempotency keys of confirm
  Stock,        \* units of each variant on the shelves
  MaxPrice      \* bound of the model: versions of the prices

VARIABLES
  sessions,     \* the rows of checkout_session and their reservations
  confirmations,\* idempotency keys of confirm, by session
  orders,       \* orders created, in their order
  price         \* what the shop asks now

checkoutVars == <<sessions, confirmations, orders, price>>
vars == <<cartVars, checkoutVars>>

NoQuote   == [lines |-> NoLines, price |-> 0]
NoSession == [status |-> "absent", cart |-> 1, owner |-> "guest", quote |-> NoQuote,
              due |-> FALSE, hold |-> "none", held |-> NoLines]

Init ==
  /\ CartInit
  /\ available = Stock
  /\ sessions = [s \in Sessions |-> NoSession]
  /\ confirmations = [s \in Sessions |-> [k \in ConfirmKeys |-> "absent"]]
  /\ orders = <<>>
  /\ price = 0

Minus(f, g) == [v \in Variants |-> f[v] - g[v]]
Plus(f, g)  == [v \in Variants |-> f[v] + g[v]]
FitsUnchecked(f, g) == TRUE
Fits(f, g)  == \A v \in Variants : f[v] <= g[v]

(* A guest's session is found through its cart, which the user may have    *)
(* taken over since; a user's session by the user.                         *)
Owned(s, o) ==
  /\ sessions[s].owner = o
  /\ o = "guest" => carts[sessions[s].cart].owner = "guest"

(* lockCheckoutCart: an expired cart is abandoned in the transaction that  *)
(* the error rolls back.                                                   *)
CheckoutCart(o) == {c \in Active(o) : ~carts[c].expired /\ carts[c].lines # NoLines}

OrdersOf(s) == {i \in DOMAIN orders : orders[i].session = s}

(* start: all lines are reserved, or nothing is written.                   *)
Start(o, s) ==
  /\ sessions[s].status = "absent"
  /\ \E c \in CheckoutCart(o) :
       /\ Fits(carts[c].lines, available)
       /\ available' = Minus(available, carts[c].lines)
       /\ sessions' = [sessions EXCEPT ![s] =
            [NoSession EXCEPT !.status = "OPEN", !.cart = c, !.owner = o,
               !.quote = [lines |-> carts[c].lines, price |-> price],
               !.hold = "ACTIVE", !.held = carts[c].lines]]
  /\ UNCHANGED <<carts, addClaims, renders, confirmations, orders, price>>

(* releaseReservations: nothing is left to release when the sweep was      *)
(* faster.                                                                 *)
ReleasedTwice(s) == Plus(available, sessions[s].held)
Released(s) ==
  IF sessions[s].hold = "ACTIVE" THEN Plus(available, sessions[s].held) ELSE available
Freed(s) ==
  IF sessions[s].hold = "ACTIVE"
  THEN [sessions EXCEPT ![s].hold = "RELEASED"] ELSE sessions

Expire(s) ==
  /\ available' = Released(s)
  /\ sessions' = [Freed(s) EXCEPT ![s].status = "EXPIRED"]

\* get and extend of a session whose time is up.
ExpireOnAccess(o, s) ==
  /\ Owned(s, o) /\ sessions[s].status = "OPEN" /\ sessions[s].due
  /\ Expire(s)
  /\ UNCHANGED <<carts, addClaims, renders, confirmations, orders, price>>

Confirmable(o, s) ==
  /\ Owned(s, o) /\ sessions[s].status = "OPEN" /\ ~sessions[s].due

\* selectShippingQuote prices the cart again and shows the result.
SelectShippingQuote(o, s) ==
  /\ Confirmable(o, s)
  /\ sessions[s].cart \in CheckoutCart(o)
  /\ sessions' = [sessions EXCEPT ![s].quote =
                    [lines |-> carts[sessions[s].cart].lines, price |-> price]]
  /\ UNCHANGED <<cartVars, confirmations, orders, price>>

-----------------------------------------------------------------------------
(* confirm.  The key is claimed first; an error takes the claim back with  *)
(* everything else, the answer PRICE_CHANGED keeps it.                     *)
NewKey(s, k) == confirmations[s][k] = "absent"
Claims(s, k, state) == confirmations' = [confirmations EXCEPT ![s][k] = state]

ConfirmOrdered(o, s, k) ==
  /\ Owned(s, o) /\ NewKey(s, k) /\ OrdersOf(s) # {}
  /\ Claims(s, k, "completed")
  /\ UNCHANGED <<cartVars, sessions, orders, price>>

Current(s) == [lines |-> carts[sessions[s].cart].lines, price |-> price]

ConfirmRepriced(o, s, k) ==
  /\ Confirmable(o, s) /\ NewKey(s, k) /\ OrdersOf(s) = {}
  /\ sessions[s].cart \in CheckoutCart(o)
  /\ sessions[s].quote # Current(s)
  /\ sessions' = [sessions EXCEPT ![s].quote = Current(s)]
  /\ Claims(s, k, "claimed")
  /\ UNCHANGED <<cartVars, orders, price>>

\* assertActiveReservations: what is held is what is in the cart.
Held(s) ==
  /\ sessions[s].hold = "ACTIVE"
  /\ sessions[s].held = carts[sessions[s].cart].lines

\* convertCheckoutCart
ConvertNothing(c) == carts
Converted(c)      == [carts EXCEPT ![c].status = "CONVERTED"]

\* The cart is priced again and the result is not compared.
ShownUnchecked(s) == TRUE
Shown(s) == sessions[s].quote = Current(s)

Confirm(o, s, k) ==
  LET c == sessions[s].cart
  IN  /\ Confirmable(o, s) /\ NewKey(s, k) /\ OrdersOf(s) = {}
      /\ c \in CheckoutCart(o)
      /\ Shown(s)
      /\ Held(s)
      /\ orders' = Append(orders, [session |-> s, cart |-> c, key |-> k,
                                   lines |-> carts[c].lines, price |-> price,
                                   shown |-> sessions[s].quote])
      /\ sessions' = [sessions EXCEPT ![s].hold = "CONSUMED", ![s].status = "AWAITING_PAYMENT"]
      /\ carts' = Converted(c)
      /\ Claims(s, k, "completed")
      /\ UNCHANGED <<addClaims, renders, available, price>>

-----------------------------------------------------------------------------
(* The worker's sweep and availability look-ups release what is due; the   *)
(* session stays open until somebody looks at it.                          *)
SweepHold(s) ==
  /\ sessions[s].hold = "ACTIVE" /\ sessions[s].due
  /\ available' = Released(s)
  /\ sessions' = Freed(s)
  /\ UNCHANGED <<carts, addClaims, renders, confirmations, orders, price>>

HoldComesDue(s) ==
  /\ sessions[s].hold = "ACTIVE" /\ ~sessions[s].due
  /\ sessions' = [sessions EXCEPT ![s].due = TRUE]
  /\ UNCHANGED <<cartVars, confirmations, orders, price>>

ConfirmKeyExpires(s, k) ==
  /\ confirmations[s][k] # "absent"
  /\ Claims(s, k, "absent")
  /\ UNCHANGED <<cartVars, sessions, orders, price>>

PriceChanges ==
  /\ price < MaxPrice
  /\ price' = price + 1
  /\ UNCHANGED <<cartVars, sessions, confirmations, orders>>

Next ==
  \/ CartNext /\ UNCHANGED checkoutVars
  \/ \E o \in Owners, s \in Sessions :
       \/ Start(o, s) \/ ExpireOnAccess(o, s) \/ SelectShippingQuote(o, s)
       \/ \E k \in ConfirmKeys :
            ConfirmOrdered(o, s, k) \/ ConfirmRepriced(o, s, k) \/ Confirm(o, s, k)
  \/ \E s \in Sessions :
       \/ SweepHold(s) \/ HoldComesDue(s)
       \/ \E k \in ConfirmKeys : ConfirmKeyExpires(s, k)
  \/ PriceChanges

Spec == Init /\ [][Next]_vars

-----------------------------------------------------------------------------
TypeOK ==
  /\ CartTypeOK
  /\ sessions \in [Sessions -> [status : {"absent", "OPEN", "AWAITING_PAYMENT", "EXPIRED"},
                                cart : CartIds, owner : Owners,
                                quote : [lines : [Variants -> Nat], price : 0..MaxPrice],
                                due : BOOLEAN,
                                hold : {"none", "ACTIVE", "CONSUMED", "RELEASED"},
                                held : [Variants -> Nat]]]
  /\ confirmations \in [Sessions -> [ConfirmKeys -> {"absent", "claimed", "completed"}]]
  /\ price \in 0..MaxPrice

(* A cart becomes at most one order, however many sessions were opened for *)
(* it, under whichever keys they are confirmed and however long ago their  *)
(* keys were forgotten; and what was ordered is what the cart still says,  *)
(* although views of it may be clamped at any later moment.                *)
CartOrderedOnce ==
  \A i, j \in DOMAIN orders :
    /\ orders[i].cart = orders[j].cart => i = j
    /\ orders[i].lines = carts[orders[i].cart].lines

(* The customer pays what the session showed last, for units set aside for *)
(* exactly this order: prices, carts and holds that changed meanwhile ask  *)
(* for another look.                                                       *)
OrderedAsShownAndHeld ==
  \A i \in DOMAIN orders :
    LET s == orders[i].session
    IN  /\ orders[i].shown = [lines |-> orders[i].lines, price |-> orders[i].price]
        /\ sessions[s].hold = "CONSUMED" /\ sessions[s].held = orders[i].lines

HeldUnits(v) ==
  [s \in Sessions |-> IF sessions[s].hold \in {"ACTIVE", "CONSUMED"} THEN sessions[s].held[v] ELSE 0]

(* Every unit is available, held by one session or set aside for an order: *)
(* the sweep, a late look at the session and the confirmation never give   *)
(* the same unit back twice and never lose one.                            *)
UnitsHeldOnce ==
  \A v \in Variants : available[v] + SumFunctionOnSet(HeldUnits(v), Sessions) = Stock[v]
=============================================================================
