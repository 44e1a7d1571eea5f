--------------------------- MODULE CheckoutProofs ---------------------------
(***************************************************************************)
(* For every number of carts, sessions, keys, variants and units: an owner *)
(* has one active cart, a cart becomes one order, and an order is what its *)
(* session showed and held.                                                *)
(***************************************************************************)
EXTENDS CheckoutPage, SumTheorems

Numbers ==
  /\ MaxCarts \in Nat \ {0} /\ MaximumLineQuantity \in Nat
  /\ Stock \in [Variants -> Nat] /\ Coupons \subseteq BOOLEAN
  /\ IsFiniteSet(Sessions)

Amounts == [Variants -> Nat]
CartRow == [owner : Owners, status : {"absent", "ACTIVE", "MERGED", "CONVERTED", "ABANDONED"},
            lines : Amounts, coupon : BOOLEAN, expired : BOOLEAN]
Quote   == [lines : Amounts, price : Nat]
SessionRow ==
  [status : {"absent", "OPEN", "AWAITING_PAYMENT", "EXPIRED"}, cart : CartIds, owner : Owners,
   quote : Quote, due : BOOLEAN, hold : {"none", "ACTIVE", "CONSUMED", "RELEASED"},
   held : Amounts]
Order ==
  [session : Sessions, cart : CartIds, key : ConfirmKeys, lines : Amounts, price : Nat,
   shown : Quote]

-----------------------------------------------------------------------------
(***************************************************************************)
(* The carts.                                                              *)
(***************************************************************************)
RendersTyped ==
  \A r \in renders : r.cart \in CartIds /\ \A v \in DOMAIN r.to : r.to[v] \in Nat

OneEach(cs) ==
  \A c, d \in CartIds :
    cs[c].status = "ACTIVE" /\ cs[d].status = "ACTIVE" /\ cs[c].owner = cs[d].owner => c = d

CartsInv ==
  /\ carts \in [CartIds -> CartRow] /\ available \in Amounts /\ RendersTyped
  /\ OneEach(carts)

\* What was ordered stays in its cart.
KeptIn(cs) ==
  \A c \in CartIds : carts[c].status = "CONVERTED" =>
    cs[c].status = "CONVERTED" /\ cs[c].lines = carts[c].lines

Sound(cs) == cs \in [CartIds -> CartRow] /\ OneEach(cs) /\ KeptIn(cs)

LEMMA LeastIsMember ==
  ASSUME NEW S \in SUBSET Nat, S # {}
  PROVE  Least(S) \in S /\ \A m \in S : Least(S) <= m
<1> DEFINE less == {p \in Nat \X Nat : p[1] < p[2]}
<1>1. IsWellFoundedOn(less, Nat)
  BY NatLessThanWellFounded DEF OpToRel
<1> HIDE DEF less
<1>2. PICK n \in S : \A m \in S : ~(<<m, n>> \in less)
  BY <1>1, WFMin
<1>3. ASSUME NEW m \in S
      PROVE  n <= m
  <2>1. m \in Nat /\ n \in Nat
    OBVIOUS
  <2>2. <<m, n>> \in less <=> m < n
    BY <2>1 DEF less
  <2> QED
    BY <1>2, <2>1, <2>2
<1> QED
  BY <1>3 DEF Least

\* The cart a request works on is active and its owner's, and getting it leaves
\* one active cart to each owner.
LEMMA ActiveCartFound ==
  ASSUME Numbers, CartsInv, NEW o \in Owners, NEW a \in ActiveCart(o)
  PROVE  /\ Sound(a.carts) /\ a.id \in CartIds
         /\ a.carts[a.id].status = "ACTIVE" /\ a.carts[a.id].owner = o
<1> DEFINE absent == {c \in CartIds : carts[c].status = "absent"}
           new == Least(absent)
           abandoned == [c \in CartIds |->
                           IF c \in Active(o) /\ carts[c].expired
                           THEN [carts[c] EXCEPT !.status = "ABANDONED"] ELSE carts[c]]
           fresh == [NoCart EXCEPT !.owner = o, !.status = "ACTIVE"]
           started == [abandoned EXCEPT ![new] = fresh]
<1>0. carts \in [CartIds -> CartRow] /\ OneEach(carts)
  BY DEF CartsInv
<1>1. CASE \E c \in Active(o) : ~carts[c].expired
  <2>1. PICK c \in Active(o) : a = [carts |-> carts, id |-> c]
    BY <1>1 DEF ActiveCart
  <2> QED
    BY <1>0, <2>1 DEF Active, Sound, KeptIn
<1>2. CASE ~\E c \in Active(o) : ~carts[c].expired
  <2>1. absent # {} /\ a = [carts |-> started, id |-> new]
    BY <1>2 DEF ActiveCart
  <2>2. absent \subseteq Nat /\ absent \subseteq CartIds
    BY Numbers DEF Numbers, CartIds
  <2>3. new \in absent
    BY <2>1, <2>2, LeastIsMember
  <2> HIDE DEF absent, new
  <2>4. fresh \in CartRow /\ fresh.status = "ACTIVE" /\ fresh.owner = o
    BY DEF CartRow, NoCart, NoLines, Amounts, Owners
  <2> HIDE DEF fresh
  <2>5. /\ abandoned \in [CartIds -> CartRow]
        /\ \A c \in CartIds :
             /\ abandoned[c].status # "ABANDONED" => abandoned[c] = carts[c]
             /\ carts[c].status # "ACTIVE" => abandoned[c] = carts[c]
             /\ abandoned[c].status = "ACTIVE" => carts[c].owner # o
    BY <1>0, <1>2 DEF CartRow, Active
  <2> HIDE DEF abandoned
  <2>6. started \in [CartIds -> CartRow] /\ started[new] = fresh
    BY <2>2, <2>3, <2>4, <2>5
  <2>7. \A c \in CartIds \ {new} : started[c] = abandoned[c]
    BY <2>5
  <2> HIDE DEF started
  <2>8. OneEach(started)
    BY <1>0, <2>4, <2>5, <2>6, <2>7 DEF OneEach
  <2>9. carts[new].status = "absent" /\ new \in CartIds
    BY <2>3 DEF absent
  <2>10. KeptIn(started)
    BY <2>5, <2>6, <2>7, <2>9 DEF KeptIn
  <2> QED
    BY <2>1, <2>4, <2>6, <2>8, <2>9, <2>10 DEF Sound
<1> QED
  BY <1>1, <1>2

\* Work on the active cart keeps its owner and its status.
LEMMA WorkIsSound ==
  ASSUME NEW cs, NEW c \in CartIds, NEW ds, Sound(cs), cs[c].status = "ACTIVE",
         ds \in [CartIds -> CartRow], ds[c].status = cs[c].status, ds[c].owner = cs[c].owner,
         \A d \in CartIds \ {c} : ds[d] = cs[d]
  PROVE  Sound(ds)
<1>1. OneEach(ds)
  BY DEF Sound, OneEach
<1>2. KeptIn(ds)
  BY DEF Sound, KeptIn
<1> QED
  BY <1>1, <1>2 DEF Sound

LEMMA LinesAreWork ==
  ASSUME NEW cs, NEW c \in CartIds, NEW v \in Variants, NEW n \in Nat,
         Sound(cs), cs[c].status = "ACTIVE"
  PROVE  Sound(SetLine(cs, c, v, n))
<1>1. cs \in [CartIds -> CartRow]
  BY DEF Sound
<1>2. [cs[c].lines EXCEPT ![v] = n] \in Amounts
  BY <1>1 DEF CartRow, Amounts
<1>3. [cs[c] EXCEPT !.lines = [cs[c].lines EXCEPT ![v] = n]] \in CartRow
  BY <1>1, <1>2 DEF CartRow
<1>4. SetLine(cs, c, v, n) = [cs EXCEPT ![c] = [cs[c] EXCEPT !.lines = [cs[c].lines EXCEPT ![v] = n]]]
  BY <1>1, Zenon DEF SetLine
<1>5. /\ SetLine(cs, c, v, n) \in [CartIds -> CartRow]
      /\ SetLine(cs, c, v, n)[c] = [cs[c] EXCEPT !.lines = [cs[c].lines EXCEPT ![v] = n]]
      /\ \A d \in CartIds \ {c} : SetLine(cs, c, v, n)[d] = cs[d]
  BY <1>1, <1>3, <1>4
<1>6. SetLine(cs, c, v, n)[c].status = cs[c].status /\ SetLine(cs, c, v, n)[c].owner = cs[c].owner
  BY <1>1, <1>5 DEF CartRow
<1> QED
  BY <1>5, <1>6, WorkIsSound

\* A view remembers natural numbers.
LEMMA RenderTyped ==
  ASSUME CartsInv, NEW cs, NEW c \in CartIds, StartRender(cs, c)
  PROVE  RendersTyped'
<1> DEFINE clamps == {v \in Variants : available[v] > 0 /\ available[v] < cs[c].lines[v]}
           view == [cart |-> c, to |-> [v \in clamps |-> available[v]]]
<1>1. renders' = renders \/ renders' = renders \cup {view}
  BY DEF StartRender
<1>2. view.cart \in CartIds /\ \A v \in DOMAIN view.to : view.to[v] \in Nat
  BY DEF CartsInv, Amounts
<1> QED
  BY <1>1, <1>2 DEF CartsInv, RendersTyped

CartsKept == CartsInv' /\ KeptIn(carts')

LEMMA SoundKeeps ==
  ASSUME Sound(carts'), available' \in Amounts, RendersTyped'
  PROVE  CartsKept
  BY DEF Sound, CartsKept, CartsInv

LEMMA LeastOfTwo ==
  ASSUME NEW m \in Nat, NEW n \in Nat
  PROVE  Least({m, n}) \in Nat
  BY LeastIsMember, {m, n} \subseteq Nat

LEMMA LeastOfThree ==
  ASSUME NEW l \in Nat, NEW m \in Nat, NEW n \in Nat
  PROVE  Least({l, m, n}) \in Nat
  BY LeastIsMember, {l, m, n} \subseteq Nat

LEMMA GetCartKeeps ==
  ASSUME Numbers, CartsInv, NEW o \in Owners, GetCart(o)
  PROVE  CartsKept
<1>1. PICK a \in ActiveCart(o) : carts' = a.carts /\ StartRender(a.carts, a.id)
  BY DEF GetCart, WithActiveCart
<1>2. available' \in Amounts
  BY DEF GetCart, CartsInv
<1> QED
  BY <1>1, <1>2, ActiveCartFound, RenderTyped, SoundKeeps

LEMMA AddLineKeeps ==
  ASSUME Numbers, CartsInv, NEW o \in Owners, NEW k, NEW v \in Variants, NEW n \in Quantities,
         AddLine(o, k, v, n)
  PROVE  CartsKept
<1>1. PICK a \in ActiveCart(o) :
        LET added == SetLine(a.carts, a.id, v,
                       Least({MaximumLineQuantity, available[v], a.carts[a.id].lines[v] + n}))
        IN  \/ carts' = a.carts /\ StartRender(a.carts, a.id)
            \/ carts' = added /\ StartRender(added, a.id)
  BY DEF AddLine, WithActiveCart
<1>2. available' \in Amounts /\ available[v] \in Nat
  BY DEF AddLine, CartsInv, Amounts
<1>3. /\ Sound(a.carts) /\ a.id \in CartIds /\ a.carts[a.id].status = "ACTIVE"
  BY ActiveCartFound
<1>4. a.carts[a.id].lines[v] + n \in Nat
  BY <1>3 DEF Sound, CartRow, Amounts, Quantities
<1>5. Least({MaximumLineQuantity, available[v], a.carts[a.id].lines[v] + n}) \in Nat
  BY <1>2, <1>4, LeastOfThree DEF Numbers
<1>6. Sound(carts')
  BY <1>1, <1>3, <1>5, LinesAreWork
<1>7. RendersTyped'
  BY <1>1, <1>3, RenderTyped
<1> QED
  BY <1>2, <1>6, <1>7, SoundKeeps

LEMMA UpdateLineKeeps ==
  ASSUME Numbers, CartsInv, NEW o \in Owners, NEW v \in Variants, NEW n \in Nat,
         UpdateLine(o, v, n) \/ (RemoveLine(o, v) /\ n = 0)
  PROVE  CartsKept
<1>1. PICK a \in ActiveCart(o), m \in {0, Least({n, available[v]})} :
        carts' = SetLine(a.carts, a.id, v, m) /\ StartRender(SetLine(a.carts, a.id, v, m), a.id)
  BY DEF UpdateLine, RemoveLine, WithActiveCart
<1>2. available' \in Amounts /\ available[v] \in Nat
  BY DEF UpdateLine, RemoveLine, CartsInv, Amounts
<1>3. Sound(a.carts) /\ a.id \in CartIds /\ a.carts[a.id].status = "ACTIVE"
  BY ActiveCartFound
<1>4. m \in Nat
  BY <1>1, <1>2, LeastOfTwo
<1>5. Sound(carts')
  BY <1>1, <1>3, <1>4, LinesAreWork
<1>6. RendersTyped'
  BY <1>1, <1>3, RenderTyped
<1> QED
  BY <1>2, <1>5, <1>6, SoundKeeps

LEMMA SetCouponKeeps ==
  ASSUME Numbers, CartsInv, NEW o \in Owners, NEW coupon \in Coupons, SetCoupon(o, coupon)
  PROVE  CartsKept
<1>1. PICK a \in ActiveCart(o) :
        carts' = [a.carts EXCEPT ![a.id].coupon = coupon] /\ StartRender(a.carts, a.id)
  BY DEF SetCoupon, WithActiveCart
<1>2. available' \in Amounts
  BY DEF SetCoupon, CartsInv
<1>3. Sound(a.carts) /\ a.id \in CartIds /\ a.carts[a.id].status = "ACTIVE"
  BY ActiveCartFound
<1>4. a.carts \in [CartIds -> CartRow] /\ coupon \in BOOLEAN
  BY <1>3 DEF Sound, Numbers
<1>5. /\ carts' \in [CartIds -> CartRow]
      /\ carts'[a.id].status = a.carts[a.id].status /\ carts'[a.id].owner = a.carts[a.id].owner
      /\ \A d \in CartIds \ {a.id} : carts'[d] = a.carts[d]
  BY <1>1, <1>3, <1>4 DEF CartRow
<1>6. Sound(carts')
  BY <1>3, <1>5, WorkIsSound
<1> QED
  BY <1>1, <1>2, <1>3, <1>6, RenderTyped, SoundKeeps

\* A clamp lowers lines of an active cart.
LEMMA ClampKeeps ==
  ASSUME CartsInv, NEW r \in renders, Clamp(r)
  PROVE  CartsKept
<1> DEFINE c == r.cart
           lines == [v \in Variants |->
                       IF v \in DOMAIN r.to /\ r.to[v] < carts[c].lines[v]
                       THEN r.to[v] ELSE carts[c].lines[v]]
<1>1. c \in CartIds /\ \A v \in DOMAIN r.to : r.to[v] \in Nat
  BY DEF CartsInv, RendersTyped
<1>2. carts \in [CartIds -> CartRow] /\ lines \in Amounts
  BY <1>1 DEF CartsInv, CartRow, Amounts
<1>3. \/ carts' = carts
      \/ carts[c].status = "ACTIVE" /\ carts' = [carts EXCEPT ![c] = [carts[c] EXCEPT !.lines = lines]]
  BY DEF Clamp, Clamped
<1> HIDE DEF c, lines
<1>4. /\ carts' \in [CartIds -> CartRow]
      /\ \A d \in CartIds : /\ carts'[d].status = carts[d].status
                            /\ carts'[d].owner = carts[d].owner
                            /\ carts[d].status # "ACTIVE" => carts'[d] = carts[d]
  BY <1>1, <1>2, <1>3 DEF CartRow
<1>5. OneEach(carts') /\ KeptIn(carts')
  BY <1>4 DEF CartsInv, OneEach, KeptIn
<1>6. available' \in Amounts /\ RendersTyped'
  BY DEF Clamp, CartsInv, RendersTyped
<1> QED
  BY <1>4, <1>5, <1>6, SoundKeeps DEF Sound

\* A merge leaves one active cart: the guest's as the user's, or the user's alone.
LEMMA MergeKeeps ==
  ASSUME Numbers, CartsInv, MergeCarts
  PROVE  CartsKept
<1> DEFINE stale == {c \in Active("user") \cup Active("guest") : carts[c].expired}
           kept == Abandoned(stale)
<1>1. /\ carts \in [CartIds -> CartRow] /\ available \in Amounts /\ OneEach(carts)
      /\ available' \in Amounts /\ RendersTyped'
  BY DEF CartsInv, MergeCarts, RendersTyped
<1>2. /\ kept \in [CartIds -> CartRow]
      /\ \A c \in CartIds :
           /\ c \notin stale => kept[c] = carts[c]
           /\ c \in stale => kept[c].status = "ABANDONED" /\ carts[c].status = "ACTIVE"
  BY <1>1 DEF Abandoned, CartRow, Active
<1>3. OneEach(kept) /\ KeptIn(kept)
  BY <1>1, <1>2 DEF OneEach, KeptIn
<1>4. CASE carts' = kept
  BY <1>1, <1>2, <1>3, <1>4, SoundKeeps DEF Sound
<1>5. ASSUME NEW g \in Active("guest") \ stale, Active("user") \subseteq stale,
             carts' = [kept EXCEPT ![g].owner = "user"]
      PROVE  CartsKept
  <2>1. /\ g \in CartIds /\ carts[g].status = "ACTIVE" /\ kept[g] = carts[g]
        /\ \A c \in CartIds : kept[c].status = "ACTIVE" => carts[c].owner = "guest" /\ kept[c] = carts[c]
    BY <1>1, <1>2, <1>5 DEF Active, CartRow, Owners
  <2> HIDE DEF kept, stale
  <2>2. /\ carts' \in [CartIds -> CartRow]
        /\ carts'[g].status = "ACTIVE" /\ \A c \in CartIds \ {g} : carts'[c] = kept[c]
    BY <1>2, <1>5, <2>1 DEF CartRow, Owners
  <2>3. OneEach(carts')
    BY <1>1, <2>1, <2>2 DEF OneEach, Active
  <2>4. KeptIn(carts')
    BY <1>3, <2>1, <2>2 DEF KeptIn
  <2> QED
    BY <1>1, <2>2, <2>3, <2>4, SoundKeeps DEF Sound
<1>6. ASSUME NEW g \in Active("guest") \ stale, NEW u \in Active("user") \ stale,
             carts' = [kept EXCEPT ![u].lines = Merged(@, carts[g].lines),
                                   ![u].coupon = @ \/ carts[g].coupon,
                                   ![g].lines = NoLines,
                                   ![g].status = "MERGED"]
      PROVE  CartsKept
  <2> DEFINE merged == [kept[u] EXCEPT !.lines = Merged(kept[u].lines, carts[g].lines),
                                       !.coupon = kept[u].coupon \/ carts[g].coupon]
             emptied == [kept[g] EXCEPT !.lines = NoLines, !.status = "MERGED"]
  <2>1. /\ g \in CartIds /\ u \in CartIds /\ g # u
        /\ carts[g].status = "ACTIVE" /\ carts[u].status = "ACTIVE"
        /\ kept[g] = carts[g] /\ kept[u] = carts[u]
    BY <1>2 DEF Active
  <2> HIDE DEF kept, stale
  <2>2. carts' = [[kept EXCEPT ![u] = merged] EXCEPT ![g] = emptied]
    BY <1>2, <1>6, <2>1
  <2>3. kept[u].lines \in Amounts /\ carts[g].lines \in Amounts /\ kept[u] \in CartRow /\ kept[g] \in CartRow
        /\ carts[g] \in CartRow
    BY <1>1, <1>2, <2>1 DEF CartRow
  <2>4. Merged(kept[u].lines, carts[g].lines) \in Amounts
    <3>1. ASSUME NEW v \in Variants
          PROVE  Least({MaximumLineQuantity, available[v],
                        kept[u].lines[v] + carts[g].lines[v]}) \in Nat
      <4>1. available[v] \in Nat /\ kept[u].lines[v] + carts[g].lines[v] \in Nat
        BY <1>1, <2>3 DEF Amounts
      <4> QED
        BY <4>1, LeastOfThree DEF Numbers
    <3> QED
      BY <2>3, <3>1 DEF Merged, Amounts
  <2>5. /\ merged \in CartRow /\ merged.status = "ACTIVE" /\ merged.owner = carts[u].owner
        /\ emptied \in CartRow /\ emptied.status = "MERGED"
    BY <2>1, <2>3, <2>4 DEF CartRow, NoLines, Amounts
  <2> HIDE DEF merged, emptied
  <2>6. /\ carts' \in [CartIds -> CartRow] /\ carts'[u] = merged /\ carts'[g] = emptied
        /\ \A c \in CartIds \ {g, u} : carts'[c] = kept[c]
    BY <1>2, <2>1, <2>2, <2>5
  <2>7. OneEach(carts')
    BY <1>3, <2>1, <2>5, <2>6 DEF OneEach
  <2>8. KeptIn(carts')
    BY <1>3, <2>1, <2>6 DEF KeptIn
  <2> QED
    BY <1>1, <2>6, <2>7, <2>8, SoundKeeps DEF Sound
<1> QED
  BY <1>4, <1>5, <1>6 DEF MergeCarts

LEMMA ExpiryKeeps ==
  ASSUME CartsInv, NEW c \in CartIds, CartExpires(c)
  PROVE  CartsKept
<1>1. carts \in [CartIds -> CartRow] /\ carts' = [carts EXCEPT ![c].expired = TRUE]
  BY DEF CartExpires, CartsInv
<1>2. /\ carts' \in [CartIds -> CartRow]
      /\ \A d \in CartIds : /\ carts'[d].status = carts[d].status
                            /\ carts'[d].owner = carts[d].owner
                            /\ carts'[d].lines = carts[d].lines
  BY <1>1 DEF CartRow
<1>3. OneEach(carts') /\ KeptIn(carts')
  BY <1>2 DEF CartsInv, OneEach, KeptIn
<1>4. available' \in Amounts /\ RendersTyped'
  BY DEF CartExpires, CartsInv, RendersTyped
<1> QED
  BY <1>2, <1>3, <1>4, SoundKeeps DEF Sound

LEMMA UnchangedKeeps ==
  ASSUME CartsInv, UNCHANGED <<carts, renders, available>>
  PROVE  CartsKept
  BY DEF CartsInv, CartsKept, RendersTyped, KeptIn

\* The requests of the cart.
LEMMA CartNextKeeps ==
  ASSUME Numbers, CartsInv, CartNext
  PROVE  CartsKept
<1>1. ASSUME NEW o \in Owners,
             \/ GetCart(o)
             \/ \E k \in AddKeys \cup {FreshKey}, v \in Variants, n \in Quantities : AddLine(o, k, v, n)
             \/ \E v \in Variants, n \in Quantities : UpdateLine(o, v, n)
             \/ \E v \in Variants : RemoveLine(o, v)
             \/ \E coupon \in Coupons : SetCoupon(o, coupon)
             \/ \E k \in AddKeys : AddKeyExpires(o, k)
      PROVE  CartsKept
  <2>1. \A k \in AddKeys : AddKeyExpires(o, k) => CartsKept
    BY UnchangedKeeps DEF AddKeyExpires
  <2>2. \A v \in Variants, n \in Quantities : UpdateLine(o, v, n) => CartsKept
    BY UpdateLineKeeps DEF Quantities
  <2>3. \A v \in Variants : RemoveLine(o, v) => CartsKept
    BY UpdateLineKeeps
  <2> QED
    BY <1>1, <2>1, <2>2, <2>3, GetCartKeeps, AddLineKeeps, SetCouponKeeps
<1> QED
  BY <1>1, ClampKeeps, MergeKeeps, ExpiryKeeps DEF CartNext

-----------------------------------------------------------------------------
(***************************************************************************)
(* The sessions and the orders.                                            *)
(***************************************************************************)
SessionsInv ==
  /\ sessions \in [Sessions -> SessionRow] /\ price \in Nat /\ orders \in Seq(Order)
  /\ \A s \in Sessions : sessions[s].status = "AWAITING_PAYMENT" => sessions[s].hold = "CONSUMED"

\* An order came of the last step of its session, and its cart is closed.
OrderStands(i) ==
  LET s == orders[i].session
      c == orders[i].cart
  IN  /\ carts[c].status = "CONVERTED" /\ carts[c].lines = orders[i].lines
      /\ sessions[s].status = "AWAITING_PAYMENT" /\ sessions[s].hold = "CONSUMED"
      /\ sessions[s].held = orders[i].lines
      /\ orders[i].shown = [lines |-> orders[i].lines, price |-> orders[i].price]

OrdersStand == \A i \in DOMAIN orders : OrderStands(i)
OneOrderEach == \A i, j \in DOMAIN orders : orders[i].cart = orders[j].cart => i = j

IInv == CartsInv /\ SessionsInv /\ OrdersStand /\ OneOrderEach

LEMMA InitCarts ==
  ASSUME CartInit, available \in Amounts
  PROVE  CartsInv
<1>1. carts \in [CartIds -> CartRow] /\ RendersTyped
  BY DEF CartInit, NoCart, NoLines, CartRow, Amounts, Owners, RendersTyped
<1>2. OneEach(carts)
  BY DEF CartInit, NoCart, OneEach
<1> QED
  BY <1>1, <1>2 DEF CartsInv

LEMMA InitIInv ==
  ASSUME Numbers, Init
  PROVE  IInv
<1>1. CartsInv
  BY InitCarts DEF Init, Numbers, Amounts
<1>2. 1 \in CartIds
  BY DEF CartIds, Numbers
<1>3. NoSession \in SessionRow /\ NoSession.status = "absent"
  BY <1>2 DEF NoSession, SessionRow, Owners, NoQuote, Quote, NoLines, Amounts
<1>4. sessions = [s \in Sessions |-> NoSession] /\ price = 0 /\ orders = <<>>
  BY DEF Init
<1> QED
  BY <1>1, <1>3, <1>4 DEF IInv, SessionsInv, OrdersStand, OneOrderEach

\* A step that adds no order keeps those there are, if the sessions that became
\* orders and the carts that were converted are left as they are.
LEMMA OrdersKept ==
  ASSUME IInv, CartsInv', SessionsInv', KeptIn(carts'), orders' = orders,
         \A s \in Sessions : sessions[s].status = "AWAITING_PAYMENT" =>
           /\ sessions'[s].status = "AWAITING_PAYMENT"
           /\ sessions'[s].hold = sessions[s].hold /\ sessions'[s].held = sessions[s].held
  PROVE  IInv'
<1>1. ASSUME NEW i \in DOMAIN orders
      PROVE  orders[i].session \in Sessions /\ orders[i].cart \in CartIds
  <2>1. orders[i] \in Order
    BY DEF IInv, SessionsInv
  <2> QED
    BY <2>1 DEF Order
<1>2. ASSUME NEW i \in DOMAIN orders
      PROVE  OrderStands(i)'
  BY <1>1 DEF IInv, OrdersStand, OrderStands, KeptIn
<1>3. OrdersStand' /\ OneOrderEach'
  BY <1>2 DEF IInv, OrdersStand, OneOrderEach
<1> QED
  BY <1>3 DEF IInv

LEMMA CartStep ==
  ASSUME Numbers, IInv, CartNext, UNCHANGED checkoutVars
  PROVE  IInv'
<1>1. CartsInv' /\ KeptIn(carts')
  BY CartNextKeeps DEF IInv, CartsKept
<1>2. UNCHANGED <<sessions, orders, price>>
  BY DEF checkoutVars
<1>3. SessionsInv'
  BY <1>2 DEF IInv, SessionsInv
<1> QED
  BY <1>1, <1>2, <1>3, OrdersKept

\* A step of one session that has not become an order.
SessionStep(s) ==
  /\ UNCHANGED <<carts, renders, orders, price>>
  /\ available' \in Amounts /\ sessions[s].status # "AWAITING_PAYMENT"
  /\ \E row \in SessionRow :
       row.status # "AWAITING_PAYMENT" /\ sessions' = [sessions EXCEPT ![s] = row]

LEMMA SessionStepKeeps ==
  ASSUME IInv, NEW s \in Sessions, SessionStep(s)
  PROVE  IInv'
<1>1. PICK row \in SessionRow :
        row.status # "AWAITING_PAYMENT" /\ sessions' = [sessions EXCEPT ![s] = row]
  BY DEF SessionStep
<1>2. sessions \in [Sessions -> SessionRow]
  BY DEF IInv, SessionsInv
<1>3. /\ sessions' \in [Sessions -> SessionRow]
      /\ \A q \in Sessions :
           /\ sessions[q].status = "AWAITING_PAYMENT" => sessions'[q] = sessions[q]
           /\ sessions'[q].status = "AWAITING_PAYMENT" => sessions'[q] = sessions[q]
  BY <1>1, <1>2 DEF SessionStep
<1>4. UNCHANGED <<carts, renders, orders, price>> /\ available' \in Amounts
  BY DEF SessionStep
<1>5. CartsInv' /\ KeptIn(carts')
  BY <1>4 DEF IInv, CartsInv, RendersTyped, KeptIn
<1>6. ASSUME NEW q \in Sessions, sessions'[q].status = "AWAITING_PAYMENT"
      PROVE  sessions'[q].hold = "CONSUMED"
  <2>1. sessions'[q] = sessions[q]
    BY <1>3, <1>6
  <2>2. sessions[q].status = "AWAITING_PAYMENT" => sessions[q].hold = "CONSUMED"
    BY DEF IInv, SessionsInv
  <2> QED
    BY <1>6, <2>1, <2>2
<1>7. price' \in Nat /\ orders' \in Seq(Order)
  BY <1>4 DEF IInv, SessionsInv
<1>8. SessionsInv'
  BY <1>3, <1>6, <1>7 DEF SessionsInv
<1> QED
  BY <1>3, <1>4, <1>5, <1>8, OrdersKept

LEMMA StartStep ==
  ASSUME IInv, NEW o \in Owners, NEW s \in Sessions, Start(o, s)
  PROVE  IInv'
<1>1. PICK c \in CheckoutCart(o) :
        /\ Fits(carts[c].lines, available) /\ available' = Minus(available, carts[c].lines)
        /\ sessions' = [sessions EXCEPT ![s] =
             [NoSession EXCEPT !.status = "OPEN", !.cart = c, !.owner = o,
                !.quote = [lines |-> carts[c].lines, price |-> price],
                !.hold = "ACTIVE", !.held = carts[c].lines]]
  BY DEF Start
<1>2. c \in CartIds /\ carts[c].lines \in Amounts /\ price \in Nat /\ available \in Amounts
  BY DEF IInv, CartsInv, SessionsInv, CheckoutCart, Active, CartRow
<1>3. available' \in Amounts
  BY <1>1, <1>2 DEF Fits, Minus, Amounts
<1> DEFINE row == [NoSession EXCEPT !.status = "OPEN", !.cart = c, !.owner = o,
                      !.quote = [lines |-> carts[c].lines, price |-> price],
                      !.hold = "ACTIVE", !.held = carts[c].lines]
<1>4. row \in SessionRow /\ row.status = "OPEN"
  BY <1>2 DEF NoSession, SessionRow, Quote
<1> HIDE DEF row
<1>5. SessionStep(s)
  BY <1>1, <1>3, <1>4 DEF row, Start, SessionStep
<1> QED
  BY <1>5, SessionStepKeeps

\* What is released was held.
LEMMA ReleasedTyped ==
  ASSUME IInv, NEW s \in Sessions
  PROVE  /\ Released(s) \in Amounts
         /\ \E row \in SessionRow : Freed(s) = [sessions EXCEPT ![s] = row] /\ row.status = sessions[s].status
<1>1. sessions \in [Sessions -> SessionRow] /\ available \in Amounts
  BY DEF IInv, SessionsInv, CartsInv
<1>2. sessions[s] \in SessionRow /\ sessions[s].held \in Amounts
  BY <1>1 DEF SessionRow
<1>3. Released(s) \in Amounts
  BY <1>1, <1>2 DEF Released, Plus, Amounts
<1>4. CASE sessions[s].hold = "ACTIVE"
  <2>1. Freed(s) = [sessions EXCEPT ![s] = [sessions[s] EXCEPT !.hold = "RELEASED"]]
    BY <1>4 DEF Freed
  <2>2. /\ [sessions[s] EXCEPT !.hold = "RELEASED"] \in SessionRow
        /\ [sessions[s] EXCEPT !.hold = "RELEASED"].status = sessions[s].status
    BY <1>2 DEF SessionRow
  <2> QED
    BY <1>3, <2>1, <2>2
<1>5. CASE sessions[s].hold # "ACTIVE"
  <2>1. Freed(s) = [sessions EXCEPT ![s] = sessions[s]]
    BY <1>1, <1>5 DEF Freed
  <2> QED
    BY <1>2, <1>3, <2>1
<1> QED
  BY <1>4, <1>5

LEMMA EndsStep ==
  ASSUME IInv, NEW s \in Sessions, NEW o \in Owners, ExpireOnAccess(o, s)
  PROVE  IInv'
<1>1. PICK row \in SessionRow : Freed(s) = [sessions EXCEPT ![s] = row]
  BY ReleasedTyped
<1>2. sessions \in [Sessions -> SessionRow]
  BY DEF IInv, SessionsInv
<1>3. Freed(s) \in [Sessions -> SessionRow] /\ Freed(s)[s] = row
  BY <1>1, <1>2
<1>4. sessions' = [Freed(s) EXCEPT ![s].status = "EXPIRED"]
  BY DEF ExpireOnAccess, Expire
<1>5. sessions' = [sessions EXCEPT ![s] = [row EXCEPT !.status = "EXPIRED"]]
  BY <1>1, <1>2, <1>3, <1>4
<1>6. [row EXCEPT !.status = "EXPIRED"] \in SessionRow /\ [row EXCEPT !.status = "EXPIRED"].status = "EXPIRED"
  BY DEF SessionRow
<1>7. SessionStep(s)
  BY <1>5, <1>6, ReleasedTyped DEF ExpireOnAccess, Expire, SessionStep
<1> QED
  BY <1>7, SessionStepKeeps

\* A session that became an order has consumed its hold, and others' statuses are known.
LEMMA SweepStep ==
  ASSUME IInv, NEW s \in Sessions, SweepHold(s)
  PROVE  IInv'
<1>1. sessions[s].status # "AWAITING_PAYMENT"
  BY DEF SweepHold, IInv, SessionsInv
<1>2. SessionStep(s)
  BY <1>1, ReleasedTyped DEF SweepHold, SessionStep
<1> QED
  BY <1>2, SessionStepKeeps

\* A session that is changed in its quote or its deadline.
LEMMA DueStep ==
  ASSUME IInv, NEW s \in Sessions, HoldComesDue(s)
  PROVE  IInv'
<1>1. /\ sessions[s] \in SessionRow /\ available \in Amounts
      /\ sessions[s].status # "AWAITING_PAYMENT"
  BY DEF HoldComesDue, IInv, SessionsInv, CartsInv
<1>2. /\ [sessions[s] EXCEPT !.due = TRUE] \in SessionRow
      /\ [sessions[s] EXCEPT !.due = TRUE].status = sessions[s].status
  BY <1>1 DEF SessionRow
<1>3. sessions' = [sessions EXCEPT ![s] = [sessions[s] EXCEPT !.due = TRUE]]
  BY DEF HoldComesDue
<1>4. SessionStep(s)
  BY <1>1, <1>2, <1>3 DEF HoldComesDue, SessionStep, cartVars
<1> QED
  BY <1>4, SessionStepKeeps

LEMMA QuoteStep ==
  ASSUME IInv, NEW s \in Sessions, NEW o \in Owners, Confirmable(o, s),
         UNCHANGED <<cartVars, orders, price>>,
         sessions' = [sessions EXCEPT ![s].quote = Current(s)]
  PROVE  IInv'
<1>1. sessions[s] \in SessionRow /\ available \in Amounts
  BY DEF IInv, SessionsInv, CartsInv
<1>2. sessions[s].cart \in CartIds
  BY <1>1 DEF SessionRow
<1>3. Current(s) \in Quote
  BY <1>2 DEF Current, Quote, IInv, CartsInv, SessionsInv, CartRow
<1>4. /\ [sessions[s] EXCEPT !.quote = Current(s)] \in SessionRow
      /\ [sessions[s] EXCEPT !.quote = Current(s)].status = sessions[s].status
  BY <1>1, <1>3 DEF SessionRow
<1>5. sessions' = [sessions EXCEPT ![s] = [sessions[s] EXCEPT !.quote = Current(s)]]
  OBVIOUS
<1>6. SessionStep(s)
  BY <1>1, <1>4, <1>5 DEF SessionStep, cartVars, Confirmable
<1> QED
  BY <1>6, SessionStepKeeps

-----------------------------------------------------------------------------
\* A confirmation closes its cart, which no order came of before, and uses up the
\* hold of a session that was open.
LEMMA ConfirmStep ==
  ASSUME IInv, NEW s \in Sessions, NEW o \in Owners, NEW k \in ConfirmKeys, Confirm(o, s, k)
  PROVE  IInv'
<1> DEFINE c == sessions[s].cart
           order == [session |-> s, cart |-> c, key |-> k, lines |-> carts[c].lines,
                     price |-> price, shown |-> sessions[s].quote]
           row == [sessions[s] EXCEPT !.hold = "CONSUMED", !.status = "AWAITING_PAYMENT"]
           cart == [carts[c] EXCEPT !.status = "CONVERTED"]
<1>1. /\ sessions[s] \in SessionRow /\ sessions \in [Sessions -> SessionRow]
      /\ carts \in [CartIds -> CartRow] /\ available \in Amounts /\ orders \in Seq(Order)
      /\ price \in Nat /\ OneEach(carts) /\ RendersTyped
  BY DEF IInv, SessionsInv, CartsInv
<1>2. c \in CartIds /\ carts[c] \in CartRow /\ sessions[s].quote \in Quote
  BY <1>1 DEF SessionRow
<1>3. /\ sessions[s].status = "OPEN" /\ carts[c].status = "ACTIVE"
      /\ sessions[s].quote = Current(s) /\ sessions[s].held = carts[c].lines
      /\ orders' = Append(orders, order) /\ available' = available /\ renders' = renders
      /\ price' = price
  BY DEF Confirm, Confirmable, CheckoutCart, Active, Shown, Held
<1>4. sessions' = [sessions EXCEPT ![s] = row] /\ carts' = [carts EXCEPT ![c] = cart]
  BY <1>1, <1>2 DEF Confirm, Converted
<1>5. order \in Order
  BY <1>1, <1>2 DEF Order, CartRow
<1>6. /\ row \in SessionRow /\ row.status = "AWAITING_PAYMENT" /\ row.hold = "CONSUMED"
      /\ row.held = sessions[s].held
  BY <1>1 DEF SessionRow
<1>7. cart \in CartRow /\ cart.status = "CONVERTED" /\ cart.lines = carts[c].lines
  BY <1>2 DEF CartRow
<1>8. /\ order.session = s /\ order.cart = c /\ order.lines = carts[c].lines
      /\ order.shown = [lines |-> order.lines, price |-> order.price]
  BY <1>3 DEF Current
<1> HIDE DEF order, row, cart, c
<1>9. /\ sessions' \in [Sessions -> SessionRow] /\ sessions'[s] = row
      /\ \A q \in Sessions \ {s} : sessions'[q] = sessions[q]
      /\ carts' \in [CartIds -> CartRow] /\ carts'[c] = cart
      /\ \A d \in CartIds \ {c} : carts'[d] = carts[d]
  BY <1>1, <1>2, <1>4, <1>6, <1>7
<1>10. PICK n \in Nat :
         /\ orders' \in Seq(Order) /\ DOMAIN orders' = DOMAIN orders \cup {n} /\ n \notin DOMAIN orders
         /\ orders'[n] = order /\ \A i \in DOMAIN orders : orders'[i] = orders[i]
  <2>1. Len(orders) + 1 \in Nat
    BY <1>1
  <2> QED
    BY <1>1, <1>3, <1>5, <2>1
<1>11. CartsInv'
  <2>1. OneEach(carts')
    BY <1>1, <1>7, <1>9 DEF OneEach
  <2> QED
    BY <1>1, <1>3, <1>9, <2>1 DEF CartsInv, RendersTyped
<1>12. SessionsInv'
  BY <1>1, <1>3, <1>6, <1>9, <1>10 DEF SessionsInv, IInv
<1>13. ASSUME NEW i \in DOMAIN orders
       PROVE  /\ orders[i].cart \in CartIds \ {c} /\ orders[i].session \in Sessions \ {s}
              /\ OrderStands(i)
  <2>1. orders[i] \in Order
    BY <1>1
  <2> QED
    BY <1>3, <2>1 DEF Order, IInv, OrdersStand, OrderStands
<1>14. OrdersStand'
  <2>1. ASSUME NEW i \in DOMAIN orders
        PROVE  OrderStands(i)'
    BY <1>9, <1>10, <1>13 DEF OrderStands
  <2>2. OrderStands(n)'
    BY <1>3, <1>6, <1>7, <1>8, <1>9, <1>10 DEF OrderStands
  <2> QED
    BY <1>10, <2>1, <2>2 DEF OrdersStand
<1>15. OneOrderEach'
  BY <1>8, <1>10, <1>13 DEF OneOrderEach, IInv
<1> QED
  BY <1>11, <1>12, <1>14, <1>15 DEF IInv

\* The keys of confirmations and the price are no part of the invariant.
LEMMA OtherStep ==
  ASSUME IInv, UNCHANGED <<cartVars, sessions, orders>>, price' \in Nat
  PROVE  IInv'
<1>1. CartsInv' /\ KeptIn(carts') /\ SessionsInv'
  BY DEF IInv, CartsInv, SessionsInv, RendersTyped, KeptIn, cartVars
<1> QED
  BY <1>1, OrdersKept

LEMMA NextIInv ==
  ASSUME Numbers, IInv, [Next]_vars
  PROVE  IInv'
<1>0. price \in Nat
  BY DEF IInv, SessionsInv
<1>1. ASSUME NEW o \in Owners, NEW s \in Sessions,
             \/ Start(o, s) \/ ExpireOnAccess(o, s) \/ SelectShippingQuote(o, s)
             \/ \E k \in ConfirmKeys :
                  ConfirmOrdered(o, s, k) \/ ConfirmRepriced(o, s, k) \/ Confirm(o, s, k)
      PROVE  IInv'
  <2>1. ASSUME SelectShippingQuote(o, s)
        PROVE  IInv'
    BY <2>1, QuoteStep DEF SelectShippingQuote, Current
  <2>2. ASSUME NEW k \in ConfirmKeys, ConfirmRepriced(o, s, k)
        PROVE  IInv'
    BY <2>2, QuoteStep DEF ConfirmRepriced
  <2>3. ASSUME NEW k \in ConfirmKeys, ConfirmOrdered(o, s, k)
        PROVE  IInv'
    BY <1>0, <2>3, OtherStep DEF ConfirmOrdered
  <2> QED
    BY <1>1, <2>1, <2>2, <2>3, StartStep, EndsStep, ConfirmStep
<1>2. ASSUME NEW s \in Sessions,
             \/ SweepHold(s) \/ HoldComesDue(s)
             \/ \E k \in ConfirmKeys : ConfirmKeyExpires(s, k)
      PROVE  IInv'
  <2>1. ASSUME NEW k \in ConfirmKeys, ConfirmKeyExpires(s, k)
        PROVE  IInv'
    BY <1>0, <2>1, OtherStep DEF ConfirmKeyExpires
  <2> QED
    BY <1>2, <2>1, SweepStep, DueStep
<1>3. ASSUME PriceChanges
      PROVE  IInv'
  BY <1>0, <1>3, OtherStep DEF PriceChanges
<1>4. ASSUME UNCHANGED vars
      PROVE  IInv'
  BY <1>0, <1>4, OtherStep DEF vars, checkoutVars
<1> QED
  BY <1>1, <1>2, <1>3, <1>4, CartStep DEF Next

-----------------------------------------------------------------------------
\* Carts, sessions and orders fit together in every reachable state.
THEOREM CheckoutInvariant ==
  ASSUME Numbers
  PROVE  Spec => []IInv
BY InitIInv, NextIInv, PTL DEF Spec

LEMMA OneActive ==
  ASSUME CartsInv
  PROVE  OneActiveCart
<1> SUFFICES ASSUME NEW o \in Owners
             PROVE  Cardinality(Active(o)) <= 1
  BY DEF OneActiveCart
<1>1. CASE Active(o) = {}
  BY <1>1, FS_EmptySet
<1>2. ASSUME NEW c \in Active(o)
      PROVE  Cardinality(Active(o)) <= 1
  <2>1. Active(o) = {c}
    BY DEF CartsInv, OneEach, Active
  <2>2. Cardinality({c}) = 1
    BY FS_Singleton
  <2> QED
    BY <2>1, <2>2
<1> QED
  BY <1>1, <1>2

LEMMA OrdersSound ==
  ASSUME IInv
  PROVE  CartOrderedOnce /\ OrderedAsShownAndHeld
BY DEF IInv, OrdersStand, OrderStands, OneOrderEach, CartOrderedOnce, OrderedAsShownAndHeld

\* CartService, CheckoutService.confirm: no owner ever has two active carts.
THEOREM OneCart ==
  ASSUME Numbers
  PROVE  Spec => []OneActiveCart
<1>1. IInv => OneActiveCart
  BY OneActive DEF IInv
<1> QED
  BY <1>1, CheckoutInvariant, PTL

\* CheckoutService.confirm: a cart becomes one order, which says what the cart says.
THEOREM OrderedOnce ==
  ASSUME Numbers
  PROVE  Spec => []CartOrderedOnce
BY OrdersSound, CheckoutInvariant, PTL

\* CheckoutService.confirm: an order is what its session showed last and held.
THEOREM ShownAndHeld ==
  ASSUME Numbers
  PROVE  Spec => []OrderedAsShownAndHeld
BY OrdersSound, CheckoutInvariant, PTL

-----------------------------------------------------------------------------
(***************************************************************************)
(* The units.                                                              *)
(***************************************************************************)
\* A session that was not started holds nothing.
AbsentHoldNothing == \A s \in Sessions : sessions[s].status = "absent" => sessions[s].hold = "none"

UnitsInv == UnitsHeldOnce /\ AbsentHoldNothing

LEMMA HeldUnitsTyped ==
  ASSUME IInv, IInv', NEW v \in Variants
  PROVE  \A s \in Sessions : HeldUnits(v)[s] \in Nat /\ HeldUnits(v)'[s] \in Nat
<1>1. \A s \in Sessions : sessions[s].held \in Amounts /\ sessions'[s].held \in Amounts
  BY DEF IInv, SessionsInv, SessionRow
<1> QED
  BY <1>1 DEF HeldUnits, Amounts

\* Units that go over between the shelf and one session are neither lost nor made.
LEMMA UnitsMove ==
  ASSUME Numbers, IInv, IInv', UnitsInv, NEW s \in Sessions,
         \A q \in Sessions \ {s} : sessions'[q] = sessions[q], sessions'[s].status # "absent",
         \A v \in Variants :
           available'[v] + HeldUnits(v)'[s] = available[v] + HeldUnits(v)[s]
  PROVE  UnitsInv'
<1>0. UnitsHeldOnce /\ AbsentHoldNothing'
  BY DEF UnitsInv, AbsentHoldNothing
<1> SUFFICES ASSUME NEW v \in Variants
             PROVE  available'[v] + SumFunctionOnSet(HeldUnits(v)', Sessions) = Stock[v]
  BY <1>0 DEF UnitsHeldOnce, UnitsInv
<1> DEFINE f == HeldUnits(v)
           g == HeldUnits(v)'
<1>1. /\ IsFiniteSet(Sessions) /\ available[v] \in Nat /\ available'[v] \in Nat
      /\ Stock[v] = available[v] + SumFunctionOnSet(f, Sessions)
      /\ available'[v] + g[s] = available[v] + f[s]
  BY <1>0 DEF Numbers, IInv, CartsInv, Amounts, UnitsHeldOnce
<1>2. \A q \in Sessions : f[q] \in Nat /\ g[q] \in Nat
  BY HeldUnitsTyped
<1>3. \A q \in Sessions \ {s} : g[q] = f[q]
  BY DEF HeldUnits
<1> HIDE DEF f, g
<1>4. /\ SumFunctionOnSet(f, Sessions) \in Nat /\ SumFunctionOnSet(g, Sessions) \in Nat
      /\ SumFunctionOnSet(g, Sessions) + f[s] = SumFunctionOnSet(f, Sessions) + g[s]
  BY <1>1, <1>2, <1>3, SumChange
<1>5. f[s] \in Nat /\ g[s] \in Nat
  BY <1>2
<1>6. available'[v] + SumFunctionOnSet(g, Sessions) = Stock[v]
  BY <1>1, <1>4, <1>5
<1> QED
  BY <1>6 DEF g

LEMMA UnitsStay ==
  ASSUME UnitsInv, UNCHANGED <<available, sessions>>
  PROVE  UnitsInv'
  BY DEF UnitsInv, AbsentHoldNothing, UnitsHeldOnce, HeldUnits

\* The carts only read what is available.
LEMMA CartsTakeNothing ==
  ASSUME CartNext
  PROVE  UNCHANGED available
  BY DEF CartNext, GetCart, AddLine, UpdateLine, RemoveLine, SetCoupon, AddKeyExpires, Clamp,
         MergeCarts, CartExpires

LEMMA NextUnits ==
  ASSUME Numbers, IInv, IInv', UnitsInv, [Next]_vars
  PROVE  UnitsInv'
<1>0. /\ sessions \in [Sessions -> SessionRow] /\ available \in Amounts /\ carts \in [CartIds -> CartRow]
      /\ \A s \in Sessions : sessions[s].held \in Amounts
  BY DEF IInv, SessionsInv, CartsInv, SessionRow
<1>1. ASSUME NEW o \in Owners, NEW s \in Sessions, Start(o, s)
      PROVE  UnitsInv'
  <2>1. PICK c \in CheckoutCart(o) :
          /\ Fits(carts[c].lines, available) /\ available' = Minus(available, carts[c].lines)
          /\ sessions' = [sessions EXCEPT ![s] =
               [NoSession EXCEPT !.status = "OPEN", !.cart = c, !.owner = o,
                  !.quote = [lines |-> carts[c].lines, price |-> price],
                  !.hold = "ACTIVE", !.held = carts[c].lines]]
    BY <1>1 DEF Start
  <2>2. c \in CartIds /\ carts[c].lines \in Amounts
    BY <1>0 DEF CheckoutCart, Active, CartRow
  <2> DEFINE lines == carts[c].lines
  <2>3. /\ \A q \in Sessions \ {s} : sessions'[q] = sessions[q]
        /\ sessions'[s].hold = "ACTIVE" /\ sessions'[s].held = lines
        /\ sessions'[s].status = "OPEN"
    BY <1>0, <2>1 DEF NoSession
  <2>4. \A v \in Variants : HeldUnits(v)'[s] = lines[v]
    BY <2>3 DEF HeldUnits
  <2>5. sessions[s].hold = "none"
    BY <1>1 DEF Start, UnitsInv, AbsentHoldNothing
  <2>6. \A v \in Variants : HeldUnits(v)[s] = 0
    BY <2>5 DEF HeldUnits
  <2>7. \A v \in Variants : /\ available'[v] = available[v] - lines[v]
                            /\ available[v] \in Nat /\ lines[v] \in Nat
    BY <1>0, <2>1, <2>2 DEF Minus, Amounts
  <2> HIDE DEF lines
  <2>8. \A v \in Variants : available'[v] + HeldUnits(v)'[s] = available[v] + HeldUnits(v)[s]
    BY <2>4, <2>6, <2>7
  <2> QED
    BY <2>3, <2>8, UnitsMove
<1>2. ASSUME NEW s \in Sessions, available' = Released(s), \A q \in Sessions \ {s} : sessions'[q] = sessions[q],
             sessions'[s].hold = Freed(s)[s].hold, sessions'[s].held = sessions[s].held,
             sessions'[s].status # "absent"
      PROVE  UnitsInv'
  <2>1. CASE sessions[s].hold = "ACTIVE"
    <3>1. available' = Plus(available, sessions[s].held) /\ sessions'[s].hold = "RELEASED"
      BY <1>0, <1>2, <2>1 DEF Released, Freed
    <3>2. \A v \in Variants : HeldUnits(v)'[s] = 0 /\ HeldUnits(v)[s] = sessions[s].held[v]
      BY <1>2, <2>1, <3>1 DEF HeldUnits
    <3>3. \A v \in Variants : /\ available'[v] = available[v] + sessions[s].held[v]
                              /\ available[v] \in Nat /\ sessions[s].held[v] \in Nat
      BY <1>0, <3>1 DEF Plus, Amounts
    <3>4. \A v \in Variants : available'[v] + HeldUnits(v)'[s] = available[v] + HeldUnits(v)[s]
      BY <3>2, <3>3
    <3> QED
      BY <1>2, <3>4, UnitsMove
  <2>2. CASE sessions[s].hold # "ACTIVE"
    <3>1. available' = available /\ sessions'[s].hold = sessions[s].hold
      BY <1>2, <2>2 DEF Released, Freed
    <3>2. \A v \in Variants : HeldUnits(v)'[s] = HeldUnits(v)[s]
      BY <1>2, <3>1 DEF HeldUnits
    <3> QED
      BY <1>2, <3>1, <3>2, UnitsMove
  <2> QED
    BY <2>1, <2>2
<1>3. ASSUME NEW s \in Sessions, available' = available, \A q \in Sessions \ {s} : sessions'[q] = sessions[q],
             sessions'[s].held = sessions[s].held,
             sessions'[s].hold = sessions[s].hold
               \/ (sessions[s].hold = "ACTIVE" /\ sessions'[s].hold = "CONSUMED"),
             sessions'[s].status # "absent"
      PROVE  UnitsInv'
  <2>1. \A v \in Variants : HeldUnits(v)'[s] = HeldUnits(v)[s]
    BY <1>3 DEF HeldUnits
  <2> QED
    BY <1>3, <2>1, UnitsMove
<1>4. ASSUME NEW o \in Owners, NEW s \in Sessions, ExpireOnAccess(o, s)
      PROVE  UnitsInv'
  <2>1. sessions' = [Freed(s) EXCEPT ![s].status = "EXPIRED"] /\ available' = Released(s)
    BY <1>4 DEF ExpireOnAccess, Expire
  <2>2. /\ Freed(s) \in [Sessions -> SessionRow] /\ Freed(s)[s].held = sessions[s].held
        /\ \A q \in Sessions \ {s} : Freed(s)[q] = sessions[q]
    BY <1>0 DEF Freed, SessionRow
  <2>3. /\ \A q \in Sessions \ {s} : sessions'[q] = sessions[q]
        /\ sessions'[s].hold = Freed(s)[s].hold /\ sessions'[s].held = sessions[s].held
        /\ sessions'[s].status = "EXPIRED"
    BY <2>1, <2>2 DEF SessionRow
  <2> QED
    BY <1>2, <2>1, <2>3
<1>5. ASSUME NEW s \in Sessions, SweepHold(s)
      PROVE  UnitsInv'
  <2>1. sessions' = Freed(s) /\ available' = Released(s) /\ sessions[s].hold = "ACTIVE"
    BY <1>5 DEF SweepHold
  <2>2. /\ \A q \in Sessions \ {s} : sessions'[q] = sessions[q]
        /\ sessions'[s].held = sessions[s].held /\ sessions'[s].status = sessions[s].status
    BY <1>0, <2>1 DEF Freed, SessionRow
  <2>3. sessions[s].status # "absent"
    BY <2>1 DEF UnitsInv, AbsentHoldNothing
  <2> QED
    BY <1>2, <2>1, <2>2, <2>3
<1>6. ASSUME NEW o \in Owners, NEW s \in Sessions, NEW k \in ConfirmKeys, Confirm(o, s, k)
      PROVE  UnitsInv'
  <2>1. /\ sessions' = [sessions EXCEPT ![s].hold = "CONSUMED", ![s].status = "AWAITING_PAYMENT"]
        /\ sessions[s].hold = "ACTIVE" /\ available' = available
    BY <1>6 DEF Confirm, Held
  <2>2. /\ \A q \in Sessions \ {s} : sessions'[q] = sessions[q]
        /\ sessions'[s].hold = "CONSUMED" /\ sessions'[s].held = sessions[s].held
        /\ sessions'[s].status = "AWAITING_PAYMENT"
    BY <1>0, <2>1 DEF SessionRow
  <2> QED
    BY <1>3, <2>1, <2>2
<1>7. ASSUME NEW s \in Sessions, sessions[s].status # "absent", available' = available,
             \/ \E q : sessions' = [sessions EXCEPT ![s].quote = q]
             \/ sessions' = [sessions EXCEPT ![s].due = TRUE]
      PROVE  UnitsInv'
  <2>1. /\ \A p \in Sessions \ {s} : sessions'[p] = sessions[p]
        /\ sessions'[s].hold = sessions[s].hold /\ sessions'[s].held = sessions[s].held
        /\ sessions'[s].status = sessions[s].status
    BY <1>0, <1>7 DEF SessionRow
  <2> QED
    BY <1>3, <1>7, <2>1
<1>8. ASSUME NEW o \in Owners, NEW s \in Sessions,
             SelectShippingQuote(o, s) \/ \E k \in ConfirmKeys : ConfirmRepriced(o, s, k)
      PROVE  UnitsInv'
  <2>1. sessions[s].status # "absent" /\ available' = available
    BY <1>8 DEF SelectShippingQuote, ConfirmRepriced, Confirmable, cartVars
  <2>2. \E q : sessions' = [sessions EXCEPT ![s].quote = q]
    BY <1>8 DEF SelectShippingQuote, ConfirmRepriced
  <2> QED
    BY <1>7, <2>1, <2>2
<1>9. ASSUME NEW s \in Sessions, HoldComesDue(s)
      PROVE  UnitsInv'
  BY <1>7, <1>9 DEF HoldComesDue, cartVars, UnitsInv, AbsentHoldNothing
<1>10. ASSUME NEW o \in Owners, NEW s \in Sessions, NEW k \in ConfirmKeys, ConfirmOrdered(o, s, k)
       PROVE  UnitsInv'
  BY <1>10, UnitsStay DEF ConfirmOrdered, cartVars
<1>11. ASSUME NEW s \in Sessions, NEW k \in ConfirmKeys, ConfirmKeyExpires(s, k)
       PROVE  UnitsInv'
  BY <1>11, UnitsStay DEF ConfirmKeyExpires, cartVars
<1>12. ASSUME PriceChanges \/ UNCHANGED vars
       PROVE  UnitsInv'
  BY <1>12, UnitsStay DEF PriceChanges, vars, cartVars, checkoutVars
<1>13. ASSUME CartNext, UNCHANGED checkoutVars
       PROVE  UnitsInv'
  BY <1>13, UnitsStay, CartsTakeNothing DEF checkoutVars
<1>14. ASSUME NEW o \in Owners, NEW s \in Sessions,
              \/ Start(o, s) \/ ExpireOnAccess(o, s) \/ SelectShippingQuote(o, s)
              \/ \E k \in ConfirmKeys :
                   ConfirmOrdered(o, s, k) \/ ConfirmRepriced(o, s, k) \/ Confirm(o, s, k)
       PROVE  UnitsInv'
  BY <1>14, <1>1, <1>4, <1>6, <1>8, <1>10
<1>15. ASSUME NEW s \in Sessions,
              \/ SweepHold(s) \/ HoldComesDue(s)
              \/ \E k \in ConfirmKeys : ConfirmKeyExpires(s, k)
       PROVE  UnitsInv'
  BY <1>15, <1>5, <1>9, <1>11
<1> QED
  BY <1>12, <1>13, <1>14, <1>15 DEF Next

LEMMA InitialUnits ==
  ASSUME Numbers, available = Stock, sessions = [s \in Sessions |-> NoSession]
  PROVE  UnitsInv
<1>1. NoSession.status = "absent" /\ NoSession.hold = "none"
  BY DEF NoSession
<1>2. ASSUME NEW v \in Variants
      PROVE  available[v] + SumFunctionOnSet(HeldUnits(v), Sessions) = Stock[v]
  <2>1. HeldUnits(v) = [s \in Sessions |-> 0]
    BY <1>1 DEF HeldUnits
  <2> QED
    BY <2>1, SumZero DEF Numbers
<1> QED
  BY <1>1, <1>2 DEF UnitsInv, UnitsHeldOnce, AbsentHoldNothing

LEMMA InitUnits ==
  ASSUME Numbers, Init
  PROVE  UnitsInv
BY InitialUnits DEF Init

(* CheckoutService and the sweep: every unit is available, held by one      *)
(* session or set aside for an order; none is given back twice or lost.     *)
THEOREM UnitsHeld ==
  ASSUME Numbers
  PROVE  Spec => []UnitsHeldOnce
<1>1. Spec => [](IInv /\ UnitsInv)
  BY InitIInv, InitUnits, NextIInv, NextUnits, PTL DEF Spec
<1>2. UnitsInv => UnitsHeldOnce
  BY DEF UnitsInv
<1> QED
  BY <1>1, <1>2, PTL

-----------------------------------------------------------------------------
(***************************************************************************)
(* The page.  What it displays is what its session shows, except while it  *)
(* waits for what was shown anew, and the same is true of a request to     *)
(* confirm on its way.                                                     *)
(***************************************************************************)
Names == NoKey \notin Sessions /\ NoForm \notin Forms

Kinds   == {"get", "start", "extend", "select", "confirm", "refresh"}
Request == [kind : Kinds, session : Sessions, key : ConfirmKeys \cup {NoKey},
            form : Forms \cup {NoForm}, shown : Quote, awaited : BOOLEAN]
AnswerRow ==
  [kind : {"none", "lost", "session", "ordered", "repriced", "refused", "over", "in progress"},
   session : Sessions \cup {NoKey}, status : {"absent", "OPEN", "AWAITING_PAYMENT", "EXPIRED"},
   quote : Quote]
PageRow ==
  [phase : {"loading", "form", "review", "confirming", "success"},
   checkout : Sessions \cup {NoKey}, shown : Quote, awaits : Kinds \cup {"none"},
   answer : AnswerRow, storage : BOOLEAN, id : Sessions \cup {NoKey},
   startKey : Sessions \cup {NoKey}, confirmKey : ConfirmKeys \cup {NoKey},
   issued : SUBSET (Sessions \cup ConfirmKeys)]

Live(s)     == s \in Sessions /\ sessions[s].status # "absent"
Tells(q, s) == s \in missed \/ q = sessions[s].quote

Begun == begun \in [Sessions -> Forms \cup {NoForm}] /\ \A s \in Sessions : begun[s] # NoForm => Live(s)

\* What a request was sent with.
Asked(m) ==
  /\ IF m.kind = "start" THEN m.form \in Forms ELSE Live(m.session)
  /\ m.kind = "confirm" => m.key \in ConfirmKeys /\ Tells(m.shown, m.session)
  /\ m.awaited =>
       /\ m.kind = page.awaits /\ page.answer = NoAnswer
       /\ m.kind # "start" => m.session = IF m.kind = "get" THEN page.id ELSE page.checkout

Requests ==
  /\ network \subseteq Request
  /\ \A m \in network : Asked(m) /\ \A n \in network : m.awaited /\ n.awaited => m = n

\* The session has shown something since that the page has not displayed.
Stale ==
  \/ page.answer.kind = "repriced"
  \/ page.awaits = "refresh" /\ page.answer.kind # "lost"
  \/ page.awaits = "select" /\ page.answer.kind = "session"

Refers ==
  /\ page.id # NoKey => Live(page.id)
  /\ page.checkout # NoKey => Live(page.checkout)
  /\ page.awaits = "get" => page.id # NoKey
  /\ page.awaits \in {"extend", "select", "confirm", "refresh"} \/ page.phase = "review"
       => page.checkout # NoKey

Answers ==
  /\ page.awaits = "none" \/ page.answer.kind = "none" => page.answer = NoAnswer
  /\ page.answer.kind # "session" => page.answer.status = "absent"
  /\ page.awaits = "refresh" => page.answer.kind \in {"none", "session", "lost"}
  /\ page.answer.kind = "repriced" => page.awaits = "confirm"
  /\ page.answer.kind = "session" =>
       /\ page.awaits # "confirm"
       /\ Live(page.answer.session) /\ Tells(page.answer.quote, page.answer.session)
       /\ page.awaits # "start" =>
            page.answer.session = IF page.awaits = "get" THEN page.id ELSE page.checkout

Displays == page.checkout # NoKey /\ ~Stale => Tells(page.shown, page.checkout)

PageTells == page \in PageRow /\ Refers /\ Answers /\ Displays

Charges == agreed \in Seq(Quote) /\ Len(agreed) = Len(orders) /\ ChargedAsDisplayed

PageInv == Begun /\ Requests /\ PageTells /\ Charges

LEMMA RowsTyped ==
  /\ NoQuote \in Quote /\ NoAnswer \in AnswerRow /\ NoAnswer.kind = "none" /\ NoAnswer.status = "absent"
  /\ \A kind \in {"lost", "ordered", "repriced", "refused", "over", "in progress"} :
       /\ Answer(kind) \in AnswerRow /\ Answer(kind).kind = kind
       /\ Answer(kind).status = "absent"
  /\ Blank \in PageRow /\ Blank.awaits = "none" /\ Blank.answer = NoAnswer
  /\ Blank.id = NoKey /\ Blank.checkout = NoKey /\ Blank.phase = "loading"
<1>1. NoQuote \in Quote
  BY DEF NoQuote, NoLines, Quote, Amounts
<1>2. \A kind \in {"none", "lost", "ordered", "repriced", "refused", "over", "in progress"} :
        /\ Answer(kind) \in AnswerRow /\ Answer(kind).kind = kind
        /\ Answer(kind).status = "absent"
  BY <1>1 DEF Answer, AnswerRow
<1> QED
  BY <1>1, <1>2 DEF Blank, PageRow, NoAnswer

\* Only what a session shows is priced again, and it is never forgotten.
ShownStill(s) == Live(s) => Live(s)' /\ sessions'[s].quote = sessions[s].quote

\* The page waits for an answer at most once.
LEMMA NoneAwaited ==
  ASSUME PageInv, Idle \/ page.answer # NoAnswer
  PROVE  \A m \in network : ~m.awaited
BY DEF PageInv, Requests, Asked, PageTells, Answers, Idle, Request, Kinds

-----------------------------------------------------------------------------
\* The page sends a request.
LEMMA Sends ==
  ASSUME PageInv, NEW p \in PageRow, NEW kind \in Kinds, NEW s \in Sessions,
         NEW k \in ConfirmKeys \cup {NoKey}, NEW form \in Forms \cup {NoForm},
         Send(p, kind, s, k, form), UNCHANGED <<sessions, orders, begun, agreed, missed>>,
         p.answer = NoAnswer, \A m \in network : ~m.awaited,
         p.id # NoKey => Live(p.id),
         p.checkout # NoKey => Live(p.checkout) /\ (kind # "refresh" => Tells(p.shown, p.checkout)),
         p.phase = "review" => p.checkout # NoKey,
         IF kind = "start" THEN form \in Forms
         ELSE s # NoKey /\ s = IF kind = "get" THEN p.id ELSE p.checkout,
         kind = "confirm" => k \in ConfirmKeys
  PROVE  PageInv'
<1> DEFINE m == [kind |-> kind, session |-> s, key |-> k, form |-> form,
                 shown |-> p.shown, awaited |-> TRUE]
<1>1. page' = [p EXCEPT !.awaits = kind, !.issued = @ \cup ({s, k} \ {NoKey})]
  BY DEF Send
<1>2. network' = network \cup {m}
  BY DEF Send
<1>3. m \in Request /\ m.kind = kind /\ m.session = s /\ m.key = k /\ m.form = form
      /\ m.shown = p.shown /\ m.awaited
  BY DEF Request, PageRow
<1> HIDE DEF m
<1>4. {s, k} \ {NoKey} \subseteq Sessions \cup ConfirmKeys
  OBVIOUS
<1>5. /\ page' \in PageRow /\ page'.awaits = kind /\ page'.answer = p.answer /\ page'.id = p.id
      /\ page'.checkout = p.checkout /\ page'.shown = p.shown /\ page'.phase = p.phase
  BY <1>1, <1>4 DEF PageRow
<1>6. /\ \A q : Live(q)' <=> Live(q)
      /\ \A q, r : Tells(q, r)' <=> Tells(q, r)
  BY DEF Live, Tells
<1>7. Begun' /\ Charges'
  BY <1>6 DEF PageInv, Begun, Charges, ChargedAsDisplayed
<1>8. ASSUME NEW n \in network
      PROVE  Asked(n)' /\ ~n.awaited
  BY <1>6 DEF PageInv, Requests, Asked
<1>9. Asked(m)'
  BY <1>3, <1>5, <1>6 DEF Asked, Kinds
<1>10. Requests'
  BY <1>2, <1>3, <1>8, <1>9 DEF PageInv, Requests
<1>11. page'.answer = NoAnswer /\ page'.answer.kind = "none" /\ page'.answer.status = "absent"
  BY <1>5, RowsTyped
<1>12. Refers' /\ Answers' /\ Displays'
  BY <1>5, <1>6, <1>11, RowsTyped DEF Refers, Answers, Displays, Stale, Kinds
<1> QED
  BY <1>5, <1>7, <1>10, <1>12 DEF PageInv, PageTells

\* The page waits for nothing.
LEMMA Rests ==
  ASSUME PageInv, NEW p \in PageRow, page' = p, UNCHANGED <<sessions, orders, begun, agreed, missed>>,
         p.answer = NoAnswer, p.awaits = "none",
         \A m \in network' : \E n \in network : m = [n EXCEPT !.awaited = FALSE],
         p.id # NoKey => Live(p.id),
         p.checkout # NoKey => Live(p.checkout) /\ Tells(p.shown, p.checkout),
         p.phase = "review" => p.checkout # NoKey
  PROVE  PageInv'
<1>1. /\ \A q : Live(q)' <=> Live(q)
      /\ \A q, r : Tells(q, r)' <=> Tells(q, r)
  BY DEF Live, Tells
<1>2. Begun' /\ Charges'
  BY <1>1 DEF PageInv, Begun, Charges, ChargedAsDisplayed
<1>3. ASSUME NEW m \in network'
      PROVE  m \in Request /\ Asked(m)' /\ ~m.awaited
  <2>1. PICK n \in network : m = [n EXCEPT !.awaited = FALSE]
    OBVIOUS
  <2>2. n \in Request /\ Asked(n)
    BY DEF PageInv, Requests
  <2>3. /\ m \in Request /\ ~m.awaited /\ m.kind = n.kind /\ m.session = n.session
        /\ m.key = n.key /\ m.form = n.form /\ m.shown = n.shown
    BY <2>1, <2>2 DEF Request
  <2> QED
    BY <1>1, <2>2, <2>3 DEF Asked
<1>4. Requests'
  BY <1>3 DEF Requests
<1>5. page'.answer.kind = "none" /\ page'.answer.status = "absent"
  BY RowsTyped
<1>6. Refers' /\ Answers' /\ Displays'
  BY <1>1, <1>5 DEF Refers, Answers, Displays, Stale
<1> QED
  BY <1>2, <1>4, <1>6 DEF PageInv, PageTells

\* What is left of the page when it has taken the answer.
LEMMA SettledTyped ==
  ASSUME PageInv
  PROVE  /\ Settled \in PageRow /\ Settled.awaits = "none" /\ Settled.answer = NoAnswer
         /\ Settled.phase = page.phase /\ Settled.id = page.id /\ Settled.checkout = page.checkout
         /\ Settled.shown = page.shown /\ Settled.startKey = page.startKey
         /\ Settled.confirmKey = page.confirmKey
         /\ Settled.storage = page.storage /\ Settled.issued = page.issued
BY RowsTyped DEF PageInv, PageTells, Settled, PageRow

LEMMA ShowingTyped ==
  ASSUME PageInv, NEW p \in PageRow
  PROVE  /\ Showing(p) \in PageRow /\ Showing(p).shown = page.answer.quote
         /\ Showing(p).awaits = p.awaits /\ Showing(p).answer = p.answer
         /\ Showing(p).phase = p.phase /\ Showing(p).id = p.id /\ Showing(p).checkout = p.checkout
BY DEF PageInv, PageTells, Showing, PageRow, AnswerRow

LEMMA StoredTyped ==
  ASSUME NEW p \in PageRow, NEW id \in Sessions \cup {NoKey}, NEW startKey \in Sessions \cup {NoKey},
         NEW confirmKey \in ConfirmKeys \cup {NoKey}
  PROVE  LET q == Stored(p, id, startKey, confirmKey)
         IN  /\ q \in PageRow /\ q.awaits = p.awaits /\ q.answer = p.answer /\ q.phase = p.phase
             /\ q.checkout = p.checkout /\ q.shown = p.shown /\ q.id \in {id, p.id}
BY DEF Stored, PageRow

LEMMA ResetTyped ==
  ASSUME NEW p \in PageRow
  PROVE  LET q == ResetToForm(p)
         IN  /\ q \in PageRow /\ q.awaits = p.awaits /\ q.answer = p.answer /\ q.phase = "form"
             /\ q.checkout = NoKey /\ q.id \in {NoKey, p.id}
<1> DEFINE r == Stored(p, NoKey, NoKey, NoKey)
<1>1. r \in PageRow /\ r.awaits = p.awaits /\ r.answer = p.answer /\ r.id \in {NoKey, p.id}
  BY StoredTyped
<1>2. ResetToForm(p) = [r EXCEPT !.phase = "form", !.checkout = NoKey, !.shown = NoQuote]
  BY DEF ResetToForm
<1>3. NoQuote \in Quote
  BY RowsTyped
<1> HIDE DEF r
<1> QED
  BY <1>1, <1>2, <1>3 DEF PageRow

LEMMA PhaseTyped ==
  ASSUME NEW p \in PageRow, NEW phase \in {"form", "review", "confirming", "success"}
  PROVE  LET q == [p EXCEPT !.phase = phase]
         IN  /\ q \in PageRow /\ q.phase = phase /\ q.awaits = p.awaits /\ q.answer = p.answer
             /\ q.id = p.id /\ q.checkout = p.checkout /\ q.shown = p.shown
BY DEF PageRow

LEMMA NothingLost ==
  ASSUME PageInv, \A m \in network : ~m.awaited
  PROVE  \A m \in network : m = [m EXCEPT !.awaited = FALSE]
BY DEF PageInv, Requests, Request

-----------------------------------------------------------------------------
LEMMA CustomerStep ==
  ASSUME Names, PageInv, Customer
  PROVE  PageInv'
<1>0. /\ page \in PageRow /\ Refers /\ Answers /\ Displays /\ NoKey \notin Sessions
      /\ Idle => page.answer = NoAnswer /\ ~Stale
  BY RowsTyped DEF PageInv, PageTells, Answers, Stale, Idle, Names
<1>1. ASSUME Idle
      PROVE  /\ page.answer = NoAnswer /\ page.awaits = "none" /\ \A m \in network : ~m.awaited
             /\ page.id # NoKey => Live(page.id)
             /\ page.checkout # NoKey => Live(page.checkout) /\ Tells(page.shown, page.checkout)
  BY <1>0, <1>1, NoneAwaited DEF Refers, Displays, Idle
<1>2. CASE Open
  <2>1. page.phase = "loading" /\ Idle /\ UNCHANGED <<sessions, orders, begun, agreed, missed>>
    BY <1>2 DEF Open, vars, checkoutVars
  <2>2. CASE page.id = NoKey
    <3>1. page' = [page EXCEPT !.phase = "form"] /\ network' = network
      BY <1>2, <2>2 DEF Open
    <3>2. /\ page' \in PageRow /\ page'.awaits = page.awaits /\ page'.answer = page.answer
          /\ page'.id = page.id /\ page'.checkout = page.checkout /\ page'.shown = page.shown
          /\ page'.phase = "form"
      BY <1>0, <3>1 DEF PageRow
    <3>3. \A m \in network : m = [m EXCEPT !.awaited = FALSE]
      BY <1>1, <2>1, NothingLost
    <3> QED
      BY <1>1, <2>1, <3>1, <3>2, <3>3, Rests
  <2>3. CASE page.id # NoKey
    <3>1. Send(page, "get", page.id, NoKey, NoForm) /\ page.id \in Sessions
      BY <1>0, <1>2, <2>3 DEF Open, PageRow
    <3> QED
      BY <1>0, <1>1, <2>1, <2>3, <3>1, Sends DEF Kinds
  <2> QED
    BY <2>2, <2>3
<1>3. ASSUME NEW form \in Forms, SubmitForm(form)
      PROVE  PageInv'
  <2>1. page.phase = "form" /\ Idle /\ UNCHANGED <<sessions, orders, begun, agreed, missed>>
    BY <1>3 DEF SubmitForm, vars, checkoutVars
  <2>2. PICK s \in IF page.startKey = NoKey THEN Fresh(Sessions) ELSE {page.startKey} :
          Send(Stored(page, page.id, s, page.confirmKey), "start", s, NoKey, form)
    BY <1>3 DEF SubmitForm
  <2>3. s \in Sessions /\ page.id \in Sessions \cup {NoKey} /\ page.confirmKey \in ConfirmKeys \cup {NoKey}
    BY <1>0, <2>2 DEF PageRow, Fresh
  <2> DEFINE q == Stored(page, page.id, s, page.confirmKey)
  <2>4. /\ q \in PageRow /\ q.answer = page.answer /\ q.phase = page.phase
        /\ q.checkout = page.checkout /\ q.shown = page.shown /\ q.id = page.id
    BY <1>0, <2>3, StoredTyped
  <2>5. Send(q, "start", s, NoKey, form)
    BY <2>2
  <2> HIDE DEF q
  <2> QED
    BY <1>1, <2>1, <2>3, <2>4, <2>5, Sends DEF Kinds
<1>4. CASE ClickConfirm
  <2>1. page.phase = "review" /\ Idle /\ UNCHANGED <<sessions, orders, begun, agreed, missed>>
    BY <1>4 DEF ClickConfirm, vars, checkoutVars
  <2>2. PICK k \in IF page.confirmKey = NoKey THEN Fresh(ConfirmKeys) ELSE {page.confirmKey} :
          Send([Stored(page, page.id, page.startKey, k) EXCEPT !.phase = "confirming"],
               "confirm", page.checkout, k, NoForm)
    BY <1>4 DEF ClickConfirm
  <2>3. /\ k \in ConfirmKeys /\ page.id \in Sessions \cup {NoKey}
        /\ page.startKey \in Sessions \cup {NoKey}
    BY <1>0, <2>2 DEF PageRow, Fresh
  <2> DEFINE r == Stored(page, page.id, page.startKey, k)
             q == [r EXCEPT !.phase = "confirming"]
  <2>4. /\ r \in PageRow /\ r.answer = page.answer
        /\ r.checkout = page.checkout /\ r.shown = page.shown /\ r.id = page.id
    BY <1>0, <2>3, StoredTyped
  <2>5. Send(q, "confirm", page.checkout, k, NoForm)
    BY <2>2
  <2> HIDE DEF r
  <2>6. /\ q \in PageRow /\ q.answer = page.answer /\ q.phase = "confirming"
        /\ q.checkout = page.checkout /\ q.shown = page.shown /\ q.id = page.id
    BY <2>4, PhaseTyped
  <2> HIDE DEF q
  <2>7. page.checkout # NoKey /\ page.checkout \in Sessions
    BY <1>0, <2>1 DEF Refers, PageRow
  <2> QED
    BY <1>1, <2>1, <2>3, <2>5, <2>6, <2>7, Sends DEF Kinds
<1>5. CASE ClickQuote
  <2>1. page.phase = "review" /\ Idle /\ UNCHANGED <<sessions, orders, begun, agreed, missed>>
    BY <1>5 DEF ClickQuote, vars, checkoutVars
  <2>2. Send(page, "select", page.checkout, NoKey, NoForm)
    BY <1>5 DEF ClickQuote
  <2>3. page.checkout # NoKey /\ page.checkout \in Sessions
    BY <1>0, <2>1 DEF Refers, PageRow
  <2> QED
    BY <1>0, <1>1, <2>1, <2>2, <2>3, Sends DEF Kinds
<1>6. CASE Reload
  <2> DEFINE p == [Blank EXCEPT !.storage = page.storage, !.id = page.id, !.issued = page.issued,
                           !.startKey = page.startKey, !.confirmKey = page.confirmKey]
  <2>1. /\ page' = p /\ network' = {[m EXCEPT !.awaited = FALSE] : m \in network}
        /\ UNCHANGED <<sessions, orders, begun, agreed, missed>>
    BY <1>6 DEF Reload, vars, checkoutVars
  <2>2. /\ p \in PageRow /\ p.awaits = "none" /\ p.answer = NoAnswer /\ p.phase = "loading"
        /\ p.checkout = NoKey /\ p.id = page.id
    BY <1>0, RowsTyped DEF PageRow
  <2> HIDE DEF p
  <2> QED
    BY <1>0, <2>1, <2>2, Rests DEF Refers
<1>7. CASE StartOver
  <2> DEFINE q == ResetToForm(page)
  <2>1. Idle /\ page' = q /\ UNCHANGED <<sessions, orders, begun, network, agreed, missed>>
    BY <1>7 DEF StartOver, vars, checkoutVars
  <2>2. /\ q \in PageRow /\ q.awaits = page.awaits /\ q.answer = page.answer
        /\ q.phase = "form" /\ q.checkout = NoKey /\ q.id \in {NoKey, page.id}
    BY <1>0, ResetTyped
  <2>3. \A m \in network : m = [m EXCEPT !.awaited = FALSE]
    BY <1>1, <2>1, NothingLost
  <2> HIDE DEF q
  <2> QED
    BY <1>1, <2>1, <2>2, <2>3, Rests
<1> QED
  BY <1>2, <1>3, <1>4, <1>5, <1>6, <1>7 DEF Customer

LEMMA AnswerStep ==
  ASSUME Names, PageInv, Page
  PROVE  PageInv'
<1>0. /\ page \in PageRow /\ Refers /\ Answers /\ Displays /\ NoKey \notin Sessions
      /\ page.id \in Sessions \cup {NoKey} /\ page.startKey \in Sessions \cup {NoKey}
      /\ page.confirmKey \in ConfirmKeys \cup {NoKey}
  BY DEF PageInv, PageTells, Names, PageRow
<1>1. page.answer # NoAnswer /\ UNCHANGED <<sessions, orders, begun, agreed, missed>>
  BY DEF Page, ResumeSession, SessionExtended, SessionStarted, QuoteShown, ConfirmAnswered,
         Answered, vars, checkoutVars
<1>2. \A m \in network : ~m.awaited /\ m = [m EXCEPT !.awaited = FALSE]
  BY <1>1, NoneAwaited, NothingLost
<1>3. IsSession => /\ Live(page.answer.session) /\ page.answer.session \in Sessions
                   /\ Tells(page.answer.quote, page.answer.session)
  BY <1>0 DEF Answers, IsSession, Live
<1>4. /\ Showing(Settled) \in PageRow /\ Showing(Settled).shown = page.answer.quote
      /\ Showing(Settled).awaits = "none" /\ Showing(Settled).answer = NoAnswer
      /\ Showing(Settled).phase = page.phase /\ Showing(Settled).id = page.id
      /\ Showing(Settled).checkout = page.checkout
  BY SettledTyped, ShowingTyped
<1>5. ASSUME NEW phase \in {"review", "confirming", "success"}, page.checkout # NoKey,
             page' = [IF IsSession THEN Showing(Settled) ELSE Settled EXCEPT !.phase = phase],
             network' = network,
             IF IsSession THEN page.answer.session = page.checkout ELSE ~Stale
      PROVE  PageInv'
  <2> DEFINE p == IF IsSession THEN Showing(Settled) ELSE Settled
             q == [p EXCEPT !.phase = phase]
  <2>1. /\ p \in PageRow /\ p.awaits = "none" /\ p.answer = NoAnswer /\ p.id = page.id
        /\ p.checkout = page.checkout
    BY <1>4, SettledTyped
  <2>2. Live(page.checkout) /\ Tells(p.shown, page.checkout)
    BY <1>0, <1>3, <1>4, <1>5, SettledTyped DEF Refers, Displays
  <2>3. page' = q
    BY <1>5
  <2> HIDE DEF p
  <2>4. /\ q \in PageRow /\ q.awaits = "none" /\ q.answer = NoAnswer /\ q.id = page.id
        /\ q.checkout = page.checkout /\ q.phase = phase /\ q.shown = p.shown
    BY <2>1 DEF PageRow
  <2> HIDE DEF q
  <2> QED
    BY <1>0, <1>1, <1>2, <1>5, <2>2, <2>3, <2>4, Rests DEF Refers
<1>6. ASSUME page' = ResetToForm(Settled), network' = network
      PROVE  PageInv'
  <2> DEFINE q == ResetToForm(Settled)
  <2>1. /\ q \in PageRow /\ q.awaits = "none" /\ q.answer = NoAnswer /\ q.phase = "form"
        /\ q.checkout = NoKey /\ q.id \in {NoKey, page.id}
    BY SettledTyped, ResetTyped
  <2>2. page' = q
    BY <1>6
  <2> HIDE DEF q
  <2> QED
    BY <1>0, <1>1, <1>2, <1>6, <2>1, <2>2, Rests DEF Refers
<1>7. CASE ResumeSession
  <2>1. CASE page.answer.status = "OPEN"
    <3>1. PICK q : q = [Showing(Settled) EXCEPT !.checkout = page.id]
      OBVIOUS
    <3>2. Send(q, "extend", page.id, NoKey, NoForm) /\ page.awaits = "get"
      BY <1>7, <2>1, <3>1 DEF ResumeSession, Answered
    <3>3. page.id # NoKey /\ page.id \in Sessions /\ Live(page.id)
      BY <1>0, <3>2 DEF Refers
    <3>4. /\ q \in PageRow /\ q.awaits = "none" /\ q.answer = NoAnswer /\ q.phase = page.phase
          /\ q.id = page.id /\ q.checkout = page.id /\ q.shown = page.answer.quote
      BY <1>0, <1>4, <3>1 DEF PageRow
    <3>5. IsSession
      BY <1>0, <2>1 DEF Answers, IsSession
    <3>6. page.answer.session = page.id
      BY <1>0, <3>2, <3>5 DEF Answers, IsSession
    <3> QED
      BY <1>1, <1>2, <1>3, <3>2, <3>3, <3>4, <3>5, <3>6, Sends DEF Kinds
  <2>2. CASE page.answer.status # "OPEN"
    BY <1>6, <1>7, <2>2 DEF ResumeSession
  <2> QED
    BY <2>1, <2>2
<1>8. CASE SessionExtended
  <2>1. page.awaits = "extend" /\ page.checkout # NoKey
    BY <1>0, <1>8 DEF SessionExtended, Answered, Refers
  <2>2. IF IsSession THEN page.answer.session = page.checkout ELSE ~Stale
    BY <1>0, <2>1 DEF Answers, IsSession, Stale
  <2> QED
    BY <1>5, <1>8, <2>1, <2>2 DEF SessionExtended
<1>9. CASE SessionStarted
  <2>1. /\ page.awaits = "start" /\ network' = network
        /\ page' = IF IsSession
                   THEN [Stored(Showing(Settled), page.answer.session, NoKey, page.confirmKey)
                           EXCEPT !.checkout = page.answer.session, !.phase = "review"]
                   ELSE Settled
    BY <1>9 DEF SessionStarted, Answered
  <2>2. CASE IsSession
    <3> DEFINE r == Stored(Showing(Settled), page.answer.session, NoKey, page.confirmKey)
               q == [r EXCEPT !.checkout = page.answer.session, !.phase = "review"]
    <3>0. page.answer.session \in Sessions \cup {NoKey} /\ NoKey \in Sessions \cup {NoKey}
      BY <1>3, <2>2
    <3>1. /\ r \in PageRow /\ r.awaits = "none" /\ r.answer = NoAnswer
          /\ r.shown = page.answer.quote /\ r.id \in {page.answer.session, page.id}
      BY <1>0, <1>4, <3>0 DEF Stored, PageRow
    <3>2. page' = q
      BY <2>1, <2>2
    <3> HIDE DEF r
    <3>3. /\ q \in PageRow /\ q.awaits = "none" /\ q.answer = NoAnswer
          /\ q.shown = page.answer.quote /\ q.id \in {page.answer.session, page.id}
          /\ q.checkout = page.answer.session
      BY <1>3, <2>2, <3>1 DEF PageRow
    <3> HIDE DEF q
    <3>4. page.answer.session # NoKey
      BY <1>0, <1>3, <2>2
    <3> QED
      BY <1>0, <1>1, <1>2, <1>3, <2>1, <2>2, <3>2, <3>3, <3>4, Rests DEF Refers
  <2>3. CASE ~IsSession
    <3>1. page' = Settled
      BY <2>1, <2>3
    <3>2. ~Stale
      BY <1>0, <2>1, <2>3 DEF Stale, IsSession, Answers
    <3> QED
      BY <1>0, <1>1, <1>2, <2>1, <3>1, <3>2, SettledTyped, Rests DEF Refers, Displays
  <2> QED
    BY <2>2, <2>3
<1>10. CASE QuoteShown
  <2>1. page.awaits \in {"select", "refresh"} /\ page.checkout # NoKey
    BY <1>0, <1>10 DEF QuoteShown, Answered, Refers
  <2>2. IF IsSession THEN page.answer.session = page.checkout ELSE ~Stale
    BY <1>0, <1>1, <2>1 DEF Answers, IsSession, Stale
  <2> QED
    BY <1>5, <1>10, <2>1, <2>2 DEF QuoteShown
<1>11. CASE ConfirmAnswered
  <2>1. /\ page.awaits = "confirm" /\ page.checkout # NoKey /\ page.checkout \in Sessions
        /\ Live(page.checkout)
    BY <1>0, <1>11 DEF ConfirmAnswered, Answered, Refers, Live
  <2>2. CASE page.answer.kind = "repriced"
    <3> DEFINE q == Stored(Settled, page.id, page.startKey, NoKey)
    <3>1. /\ q \in PageRow /\ q.awaits = "none" /\ q.answer = NoAnswer /\ q.phase = page.phase
          /\ q.id = page.id /\ q.checkout = page.checkout
      BY <1>0, SettledTyped, StoredTyped
    <3>2. Send(q, "refresh", page.checkout, NoKey, NoForm)
      BY <1>11, <2>2 DEF ConfirmAnswered
    <3> HIDE DEF q
    <3> QED
      BY <1>0, <1>1, <1>2, <2>1, <3>1, <3>2, Sends DEF Kinds, Refers
  <2>3. CASE page.answer.kind = "ordered"
    <3> DEFINE r == Stored(Settled, NoKey, page.startKey, NoKey)
               q == [r EXCEPT !.phase = "success"]
    <3>0. NoKey \in Sessions \cup {NoKey} /\ NoKey \in ConfirmKeys \cup {NoKey}
      OBVIOUS
    <3>1. /\ r \in PageRow /\ r.awaits = "none" /\ r.answer = NoAnswer
          /\ r.shown = page.shown /\ r.id \in {NoKey, page.id} /\ r.checkout = page.checkout
      BY <1>0, <3>0, SettledTyped DEF Stored, PageRow
    <3>2. page' = q /\ network' = network
      BY <1>11, <2>3 DEF ConfirmAnswered
    <3> HIDE DEF r
    <3>3. /\ q \in PageRow /\ q.awaits = "none" /\ q.answer = NoAnswer /\ q.phase = "success"
          /\ q.shown = page.shown /\ q.id \in {NoKey, page.id} /\ q.checkout = page.checkout
      BY <3>1, PhaseTyped
    <3> HIDE DEF q
    <3>4. ~Stale
      BY <2>1, <2>3 DEF Stale
    <3> QED
      BY <1>0, <1>1, <1>2, <2>1, <3>2, <3>3, <3>4, Rests DEF Refers, Displays
  <2>4. CASE page.answer.kind = "over"
    BY <1>6, <1>11, <2>4 DEF ConfirmAnswered
  <2>5. CASE page.answer.kind \notin {"repriced", "ordered", "over"}
    <3>1. page' = [Settled EXCEPT !.phase = "review"] /\ network' = network
      BY <1>11, <2>5 DEF ConfirmAnswered
    <3>2. IF IsSession THEN page.answer.session = page.checkout ELSE ~Stale
      BY <1>0, <2>1, <2>5 DEF Answers, IsSession, Stale
    <3>3. page' = [IF IsSession THEN Showing(Settled) ELSE Settled EXCEPT !.phase = "review"]
      BY <1>0, <2>1, <3>1 DEF IsSession, Answers
    <3> QED
      BY <1>5, <2>1, <3>1, <3>2, <3>3
  <2> QED
    BY <2>2, <2>3, <2>4, <2>5
<1> QED
  BY <1>7, <1>8, <1>9, <1>10, <1>11 DEF Page

-----------------------------------------------------------------------------
\* The API answers a request, and no session or one shows something new.
LEMMA Replies ==
  ASSUME PageInv, NEW m \in network, NEW a \in AnswerRow, Reply(m, a), Begun', Charges',
         a.kind # "session" => a.status = "absent",
         a.kind = "session" => /\ m.kind # "confirm" /\ a.session = m.session
                               /\ Live(m.session)' /\ a.quote = sessions'[m.session].quote,
         a.kind = "repriced" => m.kind = "confirm",
         m.kind = "refresh" => a.kind = "session",
         a.kind \notin {"none", "lost"},
         \/ missed' = missed /\ \A s \in Sessions : ShownStill(s)
         \/ /\ missed' = Unseen(m) /\ Live(m.session)'
            /\ \A s \in Sessions \ {m.session} : ShownStill(s)
            /\ a.kind = "repriced" \/ (m.kind = "select" /\ a.kind = "session")
  PROVE  PageInv'
<1>0. /\ page \in PageRow /\ Refers /\ Answers /\ Displays /\ Asked(m) /\ m \in Request
      /\ network \subseteq Request
  BY DEF PageInv, PageTells, Requests
<1>1. network' = network \ {m} /\ page' = IF m.awaited THEN [page EXCEPT !.answer = a] ELSE page
  BY DEF Reply
<1>2. /\ page' \in PageRow /\ page'.awaits = page.awaits /\ page'.id = page.id
      /\ page'.checkout = page.checkout /\ page'.shown = page.shown /\ page'.phase = page.phase
      /\ page'.answer = IF m.awaited THEN a ELSE page.answer
  BY <1>0, <1>1 DEF PageRow
<1>3. ASSUME NEW s, Live(s)
      PROVE  Live(s)'
  BY <1>3 DEF Live, ShownStill
<1>4. ASSUME NEW q, NEW s, Live(s), Tells(q, s),
             s = m.session =>
               \/ \A r \in Sessions : ShownStill(r)
               \/ ~m.awaited \/ \E n \in network \ {m} : n.kind = "confirm"
      PROVE  Tells(q, s)'
  BY <1>4 DEF Live, Tells, ShownStill, Unseen
<1>5. ASSUME NEW n \in network, n # m
      PROVE  Asked(n)'
  <2>1. Asked(n) /\ ~(m.awaited /\ n.awaited)
    BY <1>5 DEF PageInv, Requests
  <2>2. n.kind = "confirm" => Tells(n.shown, n.session)'
    BY <1>4, <1>5, <2>1 DEF Asked
  <2>3. IF n.kind = "start" THEN n.form \in Forms ELSE Live(n.session)'
    BY <1>3, <2>1 DEF Asked
  <2> QED
    BY <1>2, <2>1, <2>2, <2>3 DEF Asked
<1>6. Requests'
  BY <1>0, <1>1, <1>5 DEF PageInv, Requests
<1>7. Refers'
  BY <1>0, <1>2, <1>3 DEF Refers
<1>8. CASE ~m.awaited
  <2>1. page' = page
    BY <1>1, <1>8
  <2>2. \A q, s : Live(s) /\ Tells(q, s) => Tells(q, s)'
    BY <1>4, <1>8
  <2>3. PICK answer, shown, checkout :
          answer = page.answer /\ shown = page.shown /\ checkout = page.checkout
    OBVIOUS
  <2>4. Answers'
    <3>1. answer.kind = "session" =>
            /\ Live(answer.session)' /\ Tells(answer.quote, answer.session)'
      BY <1>0, <1>3, <2>2, <2>3 DEF Answers
    <3> QED
      BY <1>0, <2>1, <2>3, <3>1 DEF Answers, Live, Tells
  <2>5. Displays'
    <3>1. checkout # NoKey /\ ~Stale => Tells(shown, checkout)'
      BY <1>0, <2>2, <2>3 DEF Displays, Refers
    <3> QED
      BY <2>1, <2>3, <3>1 DEF Displays, Stale, Tells
  <2> QED
    BY <1>2, <1>6, <1>7, <2>4, <2>5 DEF PageInv, PageTells
<1>9. CASE m.awaited
  <2>1. /\ m.kind = page.awaits /\ page.answer = NoAnswer
        /\ m.kind # "start" => m.session = IF m.kind = "get" THEN page.id ELSE page.checkout
    BY <1>0, <1>9 DEF Asked
  <2>2. page'.answer = a /\ page.awaits # "none"
    BY <1>0, <1>2, <1>9, <2>1 DEF Request, Kinds
  <2>3. a.kind = "session" => Live(a.session)' /\ Tells(a.quote, a.session)'
    BY DEF Live, Tells
  <2>4. Answers'
    BY <1>2, <2>1, <2>2, <2>3 DEF Answers
  <2>5. PICK shown, checkout : shown = page.shown /\ checkout = page.checkout
    OBVIOUS
  <2>6. ASSUME checkout # NoKey, ~Stale'
        PROVE  Tells(shown, checkout)'
    <3>1. missed' = missed /\ \A s \in Sessions : ShownStill(s)
      BY <1>2, <2>1, <2>2, <2>6 DEF Stale
    <3>2. page.answer.kind = "none" /\ page.awaits # "refresh"
      BY <1>2, <2>1, <2>2, <2>6, RowsTyped DEF Stale
    <3>3. Tells(shown, checkout) /\ Live(checkout)
      BY <1>0, <2>5, <2>6, <3>2 DEF Displays, Stale, Refers
    <3> QED
      BY <1>4, <3>1, <3>3
  <2>7. Displays'
    BY <1>2, <2>5, <2>6 DEF Displays, Tells
  <2> QED
    BY <1>2, <1>6, <1>7, <2>4, <2>7 DEF PageInv, PageTells
<1> QED
  BY <1>8, <1>9

LEMMA ViewTyped ==
  ASSUME IInv', NEW s \in Sessions
  PROVE  /\ View(s) \in AnswerRow /\ View(s).kind = "session" /\ View(s).session = s
         /\ View(s).quote = sessions'[s].quote
BY DEF View, AnswerRow, IInv, SessionsInv, SessionRow

LEMMA BegunStill ==
  ASSUME PageInv, begun' = begun, \A s \in Sessions : ShownStill(s)
  PROVE  Begun'
BY DEF PageInv, Begun, ShownStill, Live

LEMMA ChargesStill ==
  ASSUME PageInv, UNCHANGED <<orders, agreed>>, missed \subseteq missed'
  PROVE  Charges'
BY DEF PageInv, Charges, ChargedAsDisplayed

LEMMA Refuses ==
  ASSUME PageInv, NEW m \in network, m.kind # "refresh",
         NEW kind \in {"ordered", "refused", "over", "in progress"}, Refuse(m, kind)
  PROVE  PageInv'
<1>1. Answer(kind) \in AnswerRow /\ Answer(kind).kind = kind /\ Answer(kind).status = "absent"
  BY RowsTyped
<1>2. Reply(m, Answer(kind)) /\ UNCHANGED <<sessions, orders, begun, agreed, missed>>
  BY DEF Refuse, vars, checkoutVars
<1>3. \A s \in Sessions : ShownStill(s)
  BY <1>2 DEF ShownStill, Live
<1> QED
  BY <1>1, <1>2, <1>3, BegunStill, ChargesStill, Replies

\* What each step of a session leaves of what the sessions show.
LEMMA Shows ==
  ASSUME IInv, NEW o \in Owners, NEW s \in Sessions
  PROVE  /\ Start(o, s) => Live(s)' /\ (\A r \in Sessions : ShownStill(r)) /\ UNCHANGED orders
         /\ ExpireOnAccess(o, s) \/ SweepHold(s) \/ HoldComesDue(s) =>
              (\A r \in Sessions : ShownStill(r)) /\ UNCHANGED orders
         /\ SelectShippingQuote(o, s) \/ (\E k \in ConfirmKeys : ConfirmRepriced(o, s, k)) =>
              /\ Live(s)' /\ (\A r \in Sessions \ {s} : ShownStill(r)) /\ UNCHANGED orders
<1>0. sessions \in [Sessions -> SessionRow]
  BY DEF IInv, SessionsInv
<1>1. ASSUME Start(o, s)
      PROVE  Live(s)' /\ (\A r \in Sessions : ShownStill(r)) /\ UNCHANGED orders
  <2>1. PICK row : /\ sessions' = [sessions EXCEPT ![s] = row]
                   /\ row.status = "OPEN" /\ sessions[s].status = "absent" /\ UNCHANGED orders
    BY <1>1 DEF Start, NoSession
  <2> QED
    BY <1>0, <2>1 DEF Live, ShownStill
<1>2. ASSUME ExpireOnAccess(o, s)
      PROVE  (\A r \in Sessions : ShownStill(r)) /\ UNCHANGED orders
  BY <1>0, <1>2 DEF ExpireOnAccess, Expire, Freed, Live, ShownStill, SessionRow
<1>3. ASSUME SweepHold(s)
      PROVE  (\A r \in Sessions : ShownStill(r)) /\ UNCHANGED orders
  BY <1>0, <1>3 DEF SweepHold, Freed, Live, ShownStill, SessionRow
<1>4. ASSUME HoldComesDue(s)
      PROVE  (\A r \in Sessions : ShownStill(r)) /\ UNCHANGED orders
  BY <1>0, <1>4 DEF HoldComesDue, Live, ShownStill, SessionRow
<1>5. ASSUME SelectShippingQuote(o, s) \/ \E k \in ConfirmKeys : ConfirmRepriced(o, s, k)
      PROVE  /\ Live(s)' /\ (\A r \in Sessions \ {s} : ShownStill(r)) /\ UNCHANGED orders
  <2>1. PICK q : sessions' = [sessions EXCEPT ![s].quote = q]
    BY <1>5 DEF SelectShippingQuote, ConfirmRepriced
  <2>2. sessions[s].status = "OPEN" /\ UNCHANGED orders
    BY <1>5 DEF SelectShippingQuote, ConfirmRepriced, Confirmable
  <2> QED
    BY <1>0, <2>1, <2>2 DEF Live, ShownStill, SessionRow
<1> QED
  BY <1>1, <1>2, <1>3, <1>4, <1>5

LEMMA ApiStep ==
  ASSUME Names, IInv, IInv', PageInv, NEW m \in network,
         ServeStart(m) \/ ServeLook(m) \/ ServeSelect(m) \/ ServeConfirm(m)
  PROVE  PageInv'
<1>0. m \in Request /\ Asked(m) /\ "guest" \in Owners
  BY DEF PageInv, Requests, Owners
<1> DEFINE s == m.session
<1>1. s \in Sessions /\ (m.kind # "start" => Live(s)) /\ (m.kind = "confirm" => m.key \in ConfirmKeys)
  BY <1>0 DEF Request, Asked
<1>2. /\ View(s) \in AnswerRow /\ View(s).kind = "session" /\ View(s).session = s
      /\ View(s).quote = sessions'[s].quote
  BY <1>1, ViewTyped
<1>3. ASSUME UNCHANGED sessions
      PROVE  \A r \in Sessions : ShownStill(r)
  BY <1>3 DEF ShownStill, Live
<1>4. ASSUME Reply(m, View(s)), m.kind # "confirm", Live(s)', Begun', UNCHANGED <<orders, agreed, missed>>,
             \A r \in Sessions : ShownStill(r)
      PROVE  PageInv'
  <2>1. Charges'
    BY <1>4, ChargesStill
  <2> QED
    BY <1>2, <1>4, <2>1, Replies
<1>5. ASSUME NEW a \in AnswerRow, Reply(m, a), missed' = Unseen(m), UNCHANGED <<orders, agreed, begun>>,
             Live(s)', \A r \in Sessions \ {s} : ShownStill(r),
             \/ a = View(s) /\ m.kind = "select"
             \/ a = Answer("repriced") /\ m.kind = "confirm"
      PROVE  PageInv'
  <2>1. Charges'
    BY <1>5, ChargesStill DEF Unseen
  <2>2. Begun'
    BY <1>5 DEF PageInv, Begun, ShownStill, Live
  <2>3. /\ Answer("repriced") \in AnswerRow /\ Answer("repriced").kind = "repriced"
        /\ Answer("repriced").status = "absent"
    BY RowsTyped
  <2> QED
    BY <1>2, <1>5, <2>1, <2>2, <2>3, Replies
<1>6. CASE ServeStart(m)
  <2>0. m.kind = "start" /\ m.form \in Forms
    BY <1>0, <1>6 DEF ServeStart, Asked
  <2>1. ASSUME Start("guest", s), begun' = [begun EXCEPT ![s] = m.form], Reply(m, View(s)),
               UNCHANGED <<agreed, missed>>
        PROVE  PageInv'
    <3>1. Live(s)' /\ (\A r \in Sessions : ShownStill(r)) /\ UNCHANGED orders
      BY <1>0, <1>1, <2>1, Shows
    <3>2. Begun'
      BY <1>1, <2>0, <2>1, <3>1 DEF PageInv, Begun, ShownStill, Live
    <3> QED
      BY <1>4, <2>0, <2>1, <3>1, <3>2
  <2>2. ASSUME begun[s] = m.form, UNCHANGED <<vars, begun, agreed, missed>>, Reply(m, View(s))
        PROVE  PageInv'
    <3>1. Live(s)
      BY <1>1, <2>0, <2>2 DEF PageInv, Begun, Names
    <3>2. UNCHANGED <<sessions, orders>>
      BY <2>2 DEF vars, checkoutVars
    <3>3. Begun' /\ Live(s)'
      BY <1>3, <2>2, <3>1, <3>2, BegunStill DEF Live
    <3> QED
      BY <1>3, <1>4, <2>0, <2>2, <3>2, <3>3
  <2>3. ASSUME Refuse(m, "refused")
        PROVE  PageInv'
    BY <2>0, <2>3, Refuses
  <2> QED
    BY <1>6, <2>1, <2>2, <2>3 DEF ServeStart
<1>7. CASE ServeLook(m)
  <2>1. m.kind \in {"get", "extend", "refresh"} /\ UNCHANGED <<begun, agreed, missed>>
    BY <1>7 DEF ServeLook
  <2>2. (\A r \in Sessions : ShownStill(r)) /\ UNCHANGED orders
    BY <1>0, <1>1, <1>3, <1>7, Shows DEF ServeLook, vars, checkoutVars
  <2>3. Begun' /\ Live(s)' /\ Charges'
    BY <1>1, <2>1, <2>2, BegunStill, ChargesStill DEF ShownStill
  <2>4. ASSUME Reply(m, Answer("refused")), m.kind = "extend"
        PROVE  PageInv'
    <3>1. /\ Answer("refused") \in AnswerRow /\ Answer("refused").kind = "refused"
          /\ Answer("refused").status = "absent"
      BY RowsTyped
    <3> QED
      BY <2>1, <2>2, <2>3, <2>4, <3>1, Replies
  <2>5. ASSUME Reply(m, View(s))
        PROVE  PageInv'
    BY <1>4, <2>1, <2>2, <2>3, <2>5
  <2> QED
    BY <1>7, <2>4, <2>5 DEF ServeLook
<1>8. CASE ServeSelect(m)
  <2>1. ASSUME SelectShippingQuote("guest", s), missed' = Unseen(m), Reply(m, View(s)),
               UNCHANGED <<begun, agreed>>
        PROVE  PageInv'
    <3>1. Live(s)' /\ (\A r \in Sessions \ {s} : ShownStill(r)) /\ UNCHANGED orders
      BY <1>0, <1>1, <2>1, Shows
    <3> QED
      BY <1>2, <1>5, <1>8, <2>1, <3>1 DEF ServeSelect
  <2>2. ASSUME Refuse(m, "refused")
        PROVE  PageInv'
    BY <1>8, <2>2, Refuses DEF ServeSelect
  <2> QED
    BY <1>8, <2>1, <2>2 DEF ServeSelect
<1>9. CASE ServeConfirm(m)
  <2>0. m.kind = "confirm"
    BY <1>9 DEF ServeConfirm
  <2>1. ASSUME ConfirmInProgress(m) \/ ConfirmReplayed(m) \/ ConfirmRefused(m)
        PROVE  PageInv'
    BY <2>0, <2>1, Refuses DEF ConfirmInProgress, ConfirmReplayed, ConfirmRefused
  <2>2. /\ Answer("ordered") \in AnswerRow /\ Answer("ordered").kind = "ordered"
        /\ Answer("ordered").status = "absent" /\ Answer("repriced") \in AnswerRow
    BY RowsTyped
  <2>3. ASSUME ConfirmOrdered("guest", s, m.key), Reply(m, Answer("ordered")),
               UNCHANGED <<begun, agreed, missed>>
        PROVE  PageInv'
    <3>1. UNCHANGED <<sessions, orders>>
      BY <2>3 DEF ConfirmOrdered
    <3>2. (\A r \in Sessions : ShownStill(r)) /\ Begun' /\ Charges'
      BY <1>3, <2>3, <3>1, BegunStill, ChargesStill
    <3> QED
      BY <2>0, <2>2, <2>3, <3>2, Replies
  <2>4. ASSUME ConfirmRepriced("guest", s, m.key), Reply(m, Answer("repriced")),
               missed' = Unseen(m), UNCHANGED <<begun, agreed>>
        PROVE  PageInv'
    <3>1. Live(s)' /\ (\A r \in Sessions \ {s} : ShownStill(r)) /\ UNCHANGED orders
      BY <1>0, <1>1, <2>0, <2>4, Shows
    <3> QED
      BY <1>5, <2>0, <2>2, <2>4, <3>1
  <2>5. ASSUME Confirm("guest", s, m.key), Reply(m, Answer("ordered")),
               agreed' = Append(agreed, m.shown), UNCHANGED <<begun, missed>>
        PROVE  PageInv'
    <3> DEFINE c == sessions[s].cart
               order == [session |-> s, cart |-> c, key |-> m.key, lines |-> carts[c].lines,
                         price |-> price, shown |-> sessions[s].quote]
    <3>1. /\ orders' = Append(orders, order) /\ sessions[s].quote = Current(s)
          /\ sessions' = [sessions EXCEPT ![s].hold = "CONSUMED", ![s].status = "AWAITING_PAYMENT"]
      BY <2>5 DEF Confirm, Shown
    <3>2. order.session = s /\ sessions[s].quote = [lines |-> order.lines, price |-> order.price]
      BY <3>1 DEF Current
    <3>3. sessions \in [Sessions -> SessionRow] /\ orders \in Seq(Order)
      BY DEF IInv, SessionsInv
    <3> HIDE DEF order, c
    <3>4. \A r \in Sessions : ShownStill(r)
      BY <1>1, <3>1, <3>3 DEF ShownStill, Live, SessionRow
    <3>5. Begun'
      BY <2>5, <3>4, BegunStill
    <3>6. Tells(m.shown, s)
      BY <1>0, <2>0 DEF Asked
    <3>7. Len(orders') = Len(orders) + 1 /\ Len(orders) \in Nat /\ orders'[Len(orders) + 1] = order
          /\ \A i \in 1..Len(orders) : orders'[i] = orders[i]
      BY <3>1, <3>3
    <3>8. agreed \in Seq(Quote) /\ Len(agreed) = Len(orders) /\ m.shown \in Quote /\ ChargedAsDisplayed
      BY <1>0 DEF PageInv, Charges, Request
    <3>9. /\ agreed' \in Seq(Quote) /\ Len(agreed') = Len(orders')
          /\ agreed'[Len(orders) + 1] = m.shown
          /\ \A i \in 1..Len(orders) : agreed'[i] = agreed[i]
      BY <2>5, <3>7, <3>8
    <3>10. ASSUME NEW i \in DOMAIN orders'
           PROVE  orders'[i].session \in missed'
                    \/ agreed'[i] = [lines |-> orders'[i].lines, price |-> orders'[i].price]
      <4>1. i \in 1..Len(orders) \/ i = Len(orders) + 1
        BY <3>1, <3>3, <3>7
      <4>2. DOMAIN orders = 1..Len(orders)
        BY <3>3
      <4> QED
        BY <2>5, <3>2, <3>6, <3>7, <3>8, <3>9, <4>1, <4>2 DEF ChargedAsDisplayed, Tells
    <3>11. Charges'
      BY <3>9, <3>10 DEF Charges, ChargedAsDisplayed
    <3> QED
      BY <2>0, <2>2, <2>5, <3>4, <3>5, <3>11, Replies
  <2> QED
    BY <1>9, <2>1, <2>3, <2>4, <2>5 DEF ServeConfirm
<1> QED
  BY <1>6, <1>7, <1>8, <1>9

\* What the page gives up waiting for, it may have missed.
LEMMA AnswerLostStep ==
  ASSUME PageInv, AnswerLost
  PROVE  PageInv'
<1>0. /\ page \in PageRow /\ Refers /\ Answers /\ Displays
  BY DEF PageInv, PageTells
<1>1. /\ page' = [page EXCEPT !.answer = Answer("lost")]
      /\ network' = {[m EXCEPT !.awaited = FALSE] : m \in network}
      /\ UNCHANGED <<sessions, orders, begun, agreed>> /\ page.awaits # "none"
  BY DEF AnswerLost, Idle, vars, checkoutVars
<1>2. Answer("lost") \in AnswerRow /\ Answer("lost").kind = "lost" /\ Answer("lost").status = "absent"
  BY RowsTyped
<1>3. /\ page' \in PageRow /\ page'.awaits = page.awaits /\ page'.id = page.id
      /\ page'.checkout = page.checkout /\ page'.shown = page.shown /\ page'.phase = page.phase
      /\ page'.answer = Answer("lost")
  BY <1>0, <1>1, <1>2 DEF PageRow
<1>4. missed \subseteq missed' /\ (page.answer.kind # "lost" /\ Stale => page.checkout \in missed')
  BY DEF AnswerLost, Stale
<1>5. page.answer.kind # "lost"
  BY DEF AnswerLost
<1>6. /\ \A q : Live(q)' <=> Live(q)
      /\ \A q, r : Tells(q, r) => Tells(q, r)'
  BY <1>1, <1>4 DEF Live, Tells
<1>7. Begun' /\ Charges'
  BY <1>1, <1>4, <1>6, ChargesStill DEF PageInv, Begun
<1>8. ASSUME NEW m \in network'
      PROVE  m \in Request /\ Asked(m)' /\ ~m.awaited
  <2>1. PICK n \in network : m = [n EXCEPT !.awaited = FALSE]
    BY <1>1
  <2>2. n \in Request /\ Asked(n)
    BY DEF PageInv, Requests
  <2>3. /\ m \in Request /\ ~m.awaited /\ m.kind = n.kind /\ m.session = n.session
        /\ m.key = n.key /\ m.form = n.form /\ m.shown = n.shown
    BY <2>1, <2>2 DEF Request
  <2> QED
    BY <1>6, <2>2, <2>3 DEF Asked
<1>9. Requests'
  BY <1>8 DEF Requests
<1>10. Refers' /\ Answers'
  BY <1>0, <1>1, <1>2, <1>3, <1>6 DEF Refers, Answers
<1>11. PICK shown, checkout : shown = page.shown /\ checkout = page.checkout
  OBVIOUS
<1>12. checkout # NoKey => Tells(shown, checkout)'
  BY <1>0, <1>4, <1>5, <1>6, <1>11 DEF Displays, Tells
<1>13. Displays'
  BY <1>3, <1>11, <1>12 DEF Displays, Tells
<1> QED
  BY <1>3, <1>7, <1>9, <1>10, <1>13 DEF PageInv, PageTells

LEMMA RequestLostStep ==
  ASSUME PageInv, NEW m \in network, RequestLost(m)
  PROVE  PageInv'
<1>1. network' \subseteq network /\ UNCHANGED <<sessions, orders, begun, agreed, missed, page>>
  BY DEF RequestLost, vars, checkoutVars
<1>2. Begun' /\ Charges' /\ PageTells'
  BY <1>1 DEF PageInv, Begun, Charges, ChargedAsDisplayed, PageTells, Refers, Answers, Displays,
              Stale, Live, Tells
<1>3. Requests'
  BY <1>1 DEF PageInv, Requests, Asked, Live, Tells
<1> QED
  BY <1>2, <1>3 DEF PageInv

\* The rest of the shop changes nothing of what the sessions show.
LEMMA AroundStep ==
  ASSUME PageInv, UNCHANGED <<pageVars, orders>>, \A r \in Sessions : ShownStill(r)
  PROVE  PageInv'
<1>0. PageInv /\ UNCHANGED <<begun, page, network, agreed, missed>>
  BY DEF pageVars
<1>1. Begun' /\ Charges'
  BY <1>0, BegunStill, ChargesStill
<1>2. \A s : Live(s) => Live(s)'
  BY DEF Live, ShownStill
<1>3. \A q, s : Live(s) /\ Tells(q, s) => Tells(q, s)'
  BY <1>0 DEF Live, Tells, ShownStill
<1>4. ASSUME NEW m \in network
      PROVE  Asked(m)'
  BY <1>0, <1>2, <1>3 DEF PageInv, Requests, Asked
<1>5. Requests'
  BY <1>0, <1>4 DEF PageInv, Requests
<1>6. PICK answer, shown, checkout, id :
        answer = page.answer /\ shown = page.shown /\ checkout = page.checkout /\ id = page.id
  OBVIOUS
<1>7. /\ Live(id) => Live(id)'
      /\ Live(checkout) => Live(checkout)' /\ (Tells(shown, checkout) => Tells(shown, checkout)')
      /\ Live(answer.session) => Live(answer.session)'
           /\ (Tells(answer.quote, answer.session) => Tells(answer.quote, answer.session)')
  BY <1>2, <1>3
<1>8. Refers' /\ Answers' /\ Displays' /\ page' \in PageRow
  BY <1>0, <1>6, <1>7 DEF PageInv, PageTells, Refers, Answers, Displays, Stale, Live, Tells
<1> QED
  BY <1>1, <1>5, <1>8 DEF PageInv, PageTells

\* A step of the page is a step of the sessions, or none.
LEMMA PageSteps ==
  ASSUME PageInv, PageNext
  PROVE  [Next]_vars
<1>1. CASE Customer \/ Page \/ Faults
  <2>1. UNCHANGED vars
    BY <1>1 DEF Customer, Open, Reload, ClickConfirm, ClickQuote, StartOver, SubmitForm, Page,
       ResumeSession, SessionExtended, SessionStarted, QuoteShown, ConfirmAnswered, Faults, AnswerLost, RequestLost
  <2> QED
    BY <2>1
<1>2. ASSUME NEW m \in network, ServeStart(m) \/ ServeLook(m) \/ ServeSelect(m) \/ ServeConfirm(m)
      PROVE  [Next]_vars
  <2>1. m \in Request /\ Asked(m)
    BY DEF PageInv, Requests
  <2>2. /\ m.session \in Sessions /\ "guest" \in Owners
        /\ m.kind = "confirm" => m.key \in ConfirmKeys
    BY <2>1 DEF Request, Asked, Owners
  <2>3. CASE ServeStart(m)
    BY <2>2, <2>3 DEF ServeStart, Refuse, Next
  <2>4. CASE ServeLook(m)
    BY <2>2, <2>4 DEF ServeLook, Next
  <2>5. CASE ServeSelect(m)
    BY <2>2, <2>5 DEF ServeSelect, Refuse, Next
  <2>6. CASE ServeConfirm(m)
    BY <2>2, <2>6 DEF ServeConfirm, ConfirmInProgress, ConfirmReplayed, ConfirmRefused, Refuse, Next
  <2> QED
    BY <1>2, <2>3, <2>4, <2>5, <2>6
<1>3. CASE Around
  <2>1. ASSUME NEW v \in Variants, NEW n \in Quantities, UpdateLine("guest", v, n), UNCHANGED checkoutVars
        PROVE  Next
    BY <2>1 DEF Next, CartNext, Owners
  <2>2. ASSUME NEW s \in Sessions, SweepHold(s) \/ HoldComesDue(s)
        PROVE  Next
    BY <2>2 DEF Next
  <2>3. ASSUME PriceChanges
        PROVE  Next
    BY <2>3 DEF Next
  <2> QED
    BY <1>3, <2>1, <2>2, <2>3 DEF Around
<1> QED
  BY <1>1, <1>2, <1>3 DEF PageNext, Api

LEMMA NextPageInv ==
  ASSUME Names, IInv, IInv', PageInv, PageNext
  PROVE  PageInv'
<1>1. CASE Around
  <2>1. ASSUME UNCHANGED <<sessions, orders>>
        PROVE  (\A r \in Sessions : ShownStill(r)) /\ UNCHANGED orders
    BY <2>1 DEF ShownStill, Live
  <2>2. ASSUME NEW s \in Sessions, SweepHold(s) \/ HoldComesDue(s)
        PROVE  (\A r \in Sessions : ShownStill(r)) /\ UNCHANGED orders
    BY <2>2, Shows DEF Owners
  <2>3. (\A r \in Sessions : ShownStill(r)) /\ UNCHANGED orders
    BY <1>1, <2>1, <2>2 DEF Around, checkoutVars, PriceChanges
  <2>4. UNCHANGED pageVars
    BY <1>1 DEF Around
  <2> QED
    BY <2>3, <2>4, AroundStep
<1> QED
  BY <1>1, CustomerStep, AnswerStep, ApiStep, AnswerLostStep, RequestLostStep
     DEF PageNext, Api, Faults

LEMMA InitPageInv ==
  ASSUME Numbers, PageInit
  PROVE  IInv /\ UnitsInv /\ PageInv
<1>1. /\ sessions = [s \in Sessions |-> NoSession] /\ available = Stock /\ orders = <<>> /\ price = 0
      /\ renders = {}
      /\ carts = [c \in CartIds |->
           IF c = 1 THEN [NoCart EXCEPT !.status = "ACTIVE", !.lines = [v \in Variants |-> 1]]
           ELSE NoCart]
  BY DEF PageInit
<1>2. NoCart \in CartRow /\ NoCart.status = "absent"
      /\ [NoCart EXCEPT !.status = "ACTIVE", !.lines = [v \in Variants |-> 1]] \in CartRow
  BY DEF NoCart, NoLines, CartRow, Amounts, Owners
<1>3. /\ carts \in [CartIds -> CartRow]
      /\ \A c \in CartIds : carts[c].status = "ACTIVE" => c = 1
  BY <1>1, <1>2
<1>4. CartsInv
  BY <1>1, <1>3 DEF CartsInv, OneEach, RendersTyped, Numbers, Amounts
<1>5. NoSession \in SessionRow /\ NoSession.status = "absent" /\ NoSession.hold = "none"
  BY DEF NoSession, NoQuote, NoLines, SessionRow, Quote, Amounts, Owners, Numbers, CartIds
<1>6. IInv
  BY <1>1, <1>4, <1>5 DEF IInv, SessionsInv, OrdersStand, OneOrderEach
<1>7. UnitsInv
  BY <1>1, InitialUnits
<1>8. /\ page \in PageRow /\ page.awaits = "none" /\ page.answer = NoAnswer /\ page.phase = "loading"
      /\ page.id = NoKey /\ page.checkout = NoKey
  BY RowsTyped DEF PageInit, PageRow
<1>9. Refers /\ Answers /\ Displays
  BY <1>8, RowsTyped DEF Refers, Answers, Displays
<1>10. Begun /\ Requests /\ Charges
  BY <1>1 DEF PageInit, Begun, Requests, Charges, ChargedAsDisplayed
<1> QED
  BY <1>6, <1>7, <1>8, <1>9, <1>10 DEF PageInv, PageTells

LEMMA NextPage ==
  ASSUME Numbers, Names, IInv, UnitsInv, PageInv, [PageNext]_<<vars, pageVars>>
  PROVE  (IInv /\ UnitsInv /\ PageInv)'
<1>1. CASE UNCHANGED <<vars, pageVars>>
  <2>1. (IInv /\ UnitsInv)'
    BY <1>1, NextIInv, NextUnits
  <2>2. PageInv'
    BY <1>1, AroundStep DEF ShownStill, Live, vars, checkoutVars
  <2> QED
    BY <2>1, <2>2
<1>2. CASE PageNext
  BY <1>2, PageSteps, NextIInv, NextUnits, NextPageInv
<1> QED
  BY <1>1, <1>2

\* What the page relies on and what its requests carry, in every reachable state.
THEOREM PageInvariant ==
  ASSUME Numbers, Names
  PROVE  PageSpec => [](IInv /\ UnitsInv /\ PageInv)
BY InitPageInv, NextPage, PTL DEF PageSpec

(* CheckoutFlow, the BFF and CheckoutService.confirm together: what was     *)
(* ordered is what the page displayed when its button was pressed, unless   *)
(* a request that priced the session again stayed without an answer.       *)
THEOREM Charged ==
  ASSUME Numbers, Names
  PROVE  PageSpec => []ChargedAsDisplayed
<1>1. PageInv => ChargedAsDisplayed
  BY DEF PageInv, Charges
<1> QED
  BY <1>1, PageInvariant, PTL

-----------------------------------------------------------------------------
(***************************************************************************)
(* Types, and the bounds of lines and prices among them.                   *)
(***************************************************************************)
Sized == MaximumLineQuantity \in Nat \ {0} /\ MaxPrice \in Nat

LinesFit(cs) == \A c \in CartIds, v \in Variants : cs[c].lines[v] <= MaximumLineQuantity
ClaimsTyped  == addClaims \in [Owners -> [AddKeys -> {Unclaimed} \cup Quantities]]
ViewsTyped   == \A r \in renders : DOMAIN r.to \subseteq Variants
CartsFit     == LinesFit(carts) /\ ClaimsTyped /\ ViewsTyped

LEMMA CartTypes ==
  ASSUME Sized, CartsInv, CartsFit
  PROVE  CartTypeOK
<1>1. ASSUME NEW c \in CartIds
      PROVE  carts[c].lines \in [Variants -> 0..MaximumLineQuantity]
  BY DEF CartsInv, CartsFit, LinesFit, CartRow, Amounts, Sized
<1> QED BY <1>1 DEF CartsInv, CartsFit, ClaimsTyped, ViewsTyped, RendersTyped, CartTypeOK, CartRow, Amounts

\* An active cart is one there was, or an empty one.
LEMMA ActiveCartFits ==
  ASSUME Numbers, Sized, CartsInv, CartsFit, NEW o \in Owners, NEW a \in ActiveCart(o)
  PROVE  LinesFit(a.carts)
<1> DEFINE absent == {c \in CartIds : carts[c].status = "absent"}
           new == Least(absent)
           abandoned == [c \in CartIds |->
                           IF c \in Active(o) /\ carts[c].expired
                           THEN [carts[c] EXCEPT !.status = "ABANDONED"] ELSE carts[c]]
           fresh == [NoCart EXCEPT !.owner = o, !.status = "ACTIVE"]
<1>0. carts \in [CartIds -> CartRow] /\ LinesFit(carts)
  BY DEF CartsInv, CartsFit
<1>1. a.carts = carts \/ a.carts = [abandoned EXCEPT ![new] = fresh]
  <2>1. CASE \E c \in Active(o) : ~carts[c].expired
    <3>1. PICK c \in Active(o) : a = [carts |-> carts, id |-> c]
      BY <2>1 DEF ActiveCart
    <3> QED BY <3>1
  <2>2. CASE ~\E c \in Active(o) : ~carts[c].expired
    <3>1. a = [carts |-> [abandoned EXCEPT ![new] = fresh], id |-> new]
      BY <2>2 DEF ActiveCart
    <3> QED BY <3>1
  <2> QED BY <2>1, <2>2
<1>2. \A c \in CartIds : abandoned[c].lines = carts[c].lines
  BY <1>0 DEF CartRow
<1>3. fresh.lines = NoLines
  BY DEF NoCart
<1> HIDE DEF abandoned, fresh, new
<1>4. ASSUME NEW c \in CartIds, NEW v \in Variants, a.carts = [abandoned EXCEPT ![new] = fresh]
      PROVE  a.carts[c].lines[v] <= MaximumLineQuantity
  <2>1. DOMAIN abandoned = CartIds
    BY DEF abandoned
  <2>2. a.carts[c].lines = carts[c].lines \/ a.carts[c].lines = NoLines
    BY <1>2, <1>3, <1>4, <2>1
  <2> QED BY <1>0, <2>2 DEF LinesFit, NoLines, Sized
<1> QED BY <1>0, <1>1, <1>4 DEF LinesFit

LEMMA ViewFits ==
  ASSUME ViewsTyped, NEW cs, NEW c, StartRender(cs, c)
  PROVE  ViewsTyped'
<1> DEFINE clamps == {v \in Variants : available[v] > 0 /\ available[v] < cs[c].lines[v]}
           view == [cart |-> c, to |-> [v \in clamps |-> available[v]]]
<1>1. renders' = renders \/ renders' = renders \cup {view}
  BY DEF StartRender
<1>2. DOMAIN view.to \subseteq Variants
  OBVIOUS
<1> HIDE DEF view
<1> QED BY <1>1, <1>2 DEF ViewsTyped

LEMMA LineFits ==
  ASSUME NEW cs \in [CartIds -> CartRow], LinesFit(cs), NEW c \in CartIds, NEW v \in Variants, NEW n,
         n <= MaximumLineQuantity
  PROVE  LinesFit(SetLine(cs, c, v, n))
<1> DEFINE row == [cs[c] EXCEPT !.lines = [cs[c].lines EXCEPT ![v] = n]]
<1>1. SetLine(cs, c, v, n) = [cs EXCEPT ![c] = row]
  BY DEF SetLine
<1>2. row.lines = [cs[c].lines EXCEPT ![v] = n] /\ cs[c].lines \in Amounts
  BY DEF CartRow
<1>3. \A w \in Variants : row.lines[w] <= MaximumLineQuantity
  BY <1>2 DEF LinesFit, Amounts
<1> HIDE DEF row
<1> QED BY <1>1, <1>3 DEF LinesFit

LEMMA RequestsFit ==
  ASSUME Numbers, Sized, CartsInv, CartsFit, NEW o \in Owners,
         \/ GetCart(o)
         \/ \E k \in AddKeys \cup {FreshKey}, v \in Variants, n \in Quantities : AddLine(o, k, v, n)
         \/ \E v \in Variants, n \in Quantities : UpdateLine(o, v, n)
         \/ \E v \in Variants : RemoveLine(o, v)
         \/ \E coupon \in Coupons : SetCoupon(o, coupon)
         \/ \E k \in AddKeys : AddKeyExpires(o, k)
  PROVE  CartsFit'
<1>0. MaximumLineQuantity \in Nat /\ available \in Amounts /\ ClaimsTyped /\ ViewsTyped /\ LinesFit(carts)
  BY DEF Sized, CartsInv, CartsFit
<1>1. CASE GetCart(o)
  <2>1. PICK a \in ActiveCart(o) : carts' = a.carts /\ StartRender(a.carts, a.id)
    BY <1>1 DEF GetCart, WithActiveCart
  <2> QED BY <1>0, <1>1, <2>1, ActiveCartFits, ViewFits DEF GetCart, CartsFit, ClaimsTyped
<1>2. ASSUME NEW k \in AddKeys \cup {FreshKey}, NEW v \in Variants, NEW n \in Quantities, AddLine(o, k, v, n)
      PROVE  CartsFit'
  <2>1. PICK a \in ActiveCart(o) :
          LET m == Least({MaximumLineQuantity, available[v], a.carts[a.id].lines[v] + n})
              added == SetLine(a.carts, a.id, v, m)
          IN  /\ \/ carts' = a.carts /\ StartRender(a.carts, a.id)
                 \/ carts' = added /\ StartRender(added, a.id)
              /\ addClaims' = addClaims \/ (addClaims' = [addClaims EXCEPT ![o][k] = n] /\ k # FreshKey)
    BY <1>2 DEF AddLine, WithActiveCart
  <2>2. ClaimsTyped'
    BY <1>0, <2>1 DEF ClaimsTyped
  <2> DEFINE m == Least({MaximumLineQuantity, available[v], a.carts[a.id].lines[v] + n})
  <2>3. a.carts \in [CartIds -> CartRow] /\ a.id \in CartIds
    BY ActiveCartFound DEF Sound
  <2>4. a.carts[a.id].lines[v] + n \in Nat /\ available[v] \in Nat
    BY <1>0, <2>3 DEF CartRow, Amounts, Quantities
  <2>5. m <= MaximumLineQuantity
    <3>1. {MaximumLineQuantity, available[v], a.carts[a.id].lines[v] + n} \in SUBSET Nat
      BY <1>0, <2>4
    <3> QED BY <3>1, LeastIsMember
  <2> HIDE DEF m
  <2>6. LinesFit(SetLine(a.carts, a.id, v, m))
    BY <2>3, <2>5, ActiveCartFits, LineFits
  <2>7. LinesFit(carts')
    BY <2>1, <2>6, ActiveCartFits DEF m
  <2>8. ViewsTyped'
    BY <1>0, <2>1, ViewFits
  <2> QED BY <2>2, <2>7, <2>8 DEF CartsFit
<1>3. ASSUME NEW v \in Variants, NEW n \in 0..MaximumLineQuantity,
             UpdateLine(o, v, n) \/ (RemoveLine(o, v) /\ n = 0)
      PROVE  CartsFit'
  <2>1. PICK a \in ActiveCart(o), m \in {0, Least({n, available[v]})} :
          carts' = SetLine(a.carts, a.id, v, m) /\ StartRender(SetLine(a.carts, a.id, v, m), a.id)
    BY <1>3 DEF UpdateLine, RemoveLine, WithActiveCart
  <2>2. a.carts \in [CartIds -> CartRow] /\ a.id \in CartIds
    BY ActiveCartFound DEF Sound
  <2>3. m <= MaximumLineQuantity
    <3>1. {n, available[v]} \in SUBSET Nat
      BY <1>0 DEF Amounts
    <3>2. Least({n, available[v]}) <= n /\ Least({n, available[v]}) \in Nat
      BY <3>1, LeastIsMember
    <3> QED BY <1>0, <2>1, <3>2
  <2>4. LinesFit(carts')
    BY <2>1, <2>2, <2>3, ActiveCartFits, LineFits
  <2> QED BY <1>0, <1>3, <2>1, <2>4, ViewFits DEF UpdateLine, RemoveLine, CartsFit, ClaimsTyped
<1>4. ASSUME NEW coupon \in Coupons, SetCoupon(o, coupon)
      PROVE  CartsFit'
  <2>1. PICK a \in ActiveCart(o) :
          carts' = [a.carts EXCEPT ![a.id].coupon = coupon] /\ StartRender(a.carts, a.id)
    BY <1>4 DEF SetCoupon, WithActiveCart
  <2>2. a.carts \in [CartIds -> CartRow] /\ a.id \in CartIds
    BY ActiveCartFound DEF Sound
  <2>3. \A c \in CartIds : carts'[c].lines = a.carts[c].lines
    BY <2>1, <2>2 DEF CartRow
  <2>4. LinesFit(carts')
    BY <2>3, ActiveCartFits DEF LinesFit
  <2> QED BY <1>0, <1>4, <2>1, <2>4, ViewFits DEF SetCoupon, CartsFit, ClaimsTyped
<1>5. ASSUME NEW k \in AddKeys, AddKeyExpires(o, k)
      PROVE  CartsFit'
  BY <1>0, <1>5 DEF AddKeyExpires, CartsFit, ClaimsTyped, ViewsTyped
<1>6. ASSUME NEW v \in Variants, NEW n \in Quantities, UpdateLine(o, v, n)
      PROVE  CartsFit'
  BY <1>0, <1>3, <1>6 DEF Quantities
<1>7. ASSUME NEW v \in Variants, RemoveLine(o, v)
      PROVE  CartsFit'
  <2>1. 0 \in 0..MaximumLineQuantity
    BY <1>0
  <2> QED BY <1>3, <1>7, <2>1
<1> QED BY <1>1, <1>2, <1>4, <1>5, <1>6, <1>7

LEMMA ClampFits ==
  ASSUME CartsInv, CartsFit, Sized, NEW r \in renders, Clamp(r)
  PROVE  CartsFit'
<1> DEFINE c == r.cart
           lines == [v \in Variants |->
                       IF v \in DOMAIN r.to /\ r.to[v] < carts[c].lines[v]
                       THEN r.to[v] ELSE carts[c].lines[v]]
           row == [carts[c] EXCEPT !.lines = lines]
<1>1. /\ c \in CartIds /\ carts \in [CartIds -> CartRow] /\ LinesFit(carts)
      /\ MaximumLineQuantity \in Nat /\ \A v \in DOMAIN r.to : r.to[v] \in Nat
  BY DEF CartsInv, CartsFit, Sized, RendersTyped
<1>2. \A v \in Variants : lines[v] <= MaximumLineQuantity
  BY <1>1 DEF LinesFit, CartRow, Amounts
<1>3. row.lines = lines
  BY <1>1 DEF CartRow
<1>4. carts' = carts \/ carts' = [carts EXCEPT ![c] = row]
  BY DEF Clamp, Clamped
<1> HIDE DEF c, lines, row
<1>5. LinesFit(carts')
  BY <1>1, <1>2, <1>3, <1>4 DEF LinesFit
<1> QED BY <1>5 DEF Clamp, CartsFit, ClaimsTyped, ViewsTyped

LEMMA MergeFits ==
  ASSUME Numbers, Sized, CartsInv, CartsFit, MergeCarts
  PROVE  CartsFit'
<1> DEFINE stale == {c \in Active("user") \cup Active("guest") : carts[c].expired}
           kept == Abandoned(stale)
<1>1. /\ carts \in [CartIds -> CartRow] /\ LinesFit(carts) /\ available \in Amounts
      /\ MaximumLineQuantity \in Nat
  BY DEF CartsInv, CartsFit, Sized
<1>2. kept \in [CartIds -> CartRow] /\ \A c \in CartIds : kept[c].lines = carts[c].lines
  BY <1>1 DEF Abandoned, CartRow
<1>3. CASE carts' = kept
  BY <1>1, <1>2, <1>3 DEF MergeCarts, CartsFit, LinesFit, ClaimsTyped, ViewsTyped
<1>4. ASSUME NEW g \in Active("guest") \ stale, carts' = [kept EXCEPT ![g].owner = "user"]
      PROVE  CartsFit'
  <2> HIDE DEF kept, stale
  <2>1. \A c \in CartIds : carts'[c].lines = carts[c].lines
    BY <1>2, <1>4 DEF CartRow
  <2> QED BY <1>1, <2>1 DEF MergeCarts, CartsFit, LinesFit, ClaimsTyped, ViewsTyped
<1>5. ASSUME NEW g \in Active("guest") \ stale, NEW u \in Active("user") \ stale,
             carts' = [kept EXCEPT ![u].lines = Merged(@, carts[g].lines),
                                   ![u].coupon = @ \/ carts[g].coupon,
                                   ![g].lines = NoLines,
                                   ![g].status = "MERGED"]
      PROVE  CartsFit'
  <2> DEFINE merged == [kept[u] EXCEPT !.lines = Merged(kept[u].lines, carts[g].lines),
                                       !.coupon = kept[u].coupon \/ carts[g].coupon]
             emptied == [kept[g] EXCEPT !.lines = NoLines, !.status = "MERGED"]
  <2>1. g \in CartIds /\ u \in CartIds /\ g # u
    <3>1. carts[g].owner = "guest" /\ carts[u].owner = "user"
      BY DEF Active
    <3> QED BY <3>1 DEF Active
  <2> HIDE DEF kept, stale
  <2>2. carts' = [[kept EXCEPT ![u] = merged] EXCEPT ![g] = emptied]
    BY <1>2, <1>5, <2>1
  <2>3. kept[u].lines \in Amounts /\ carts[g].lines \in Amounts
    BY <1>1, <1>2, <2>1 DEF CartRow
  <2>4. ASSUME NEW v \in Variants
        PROVE  Merged(kept[u].lines, carts[g].lines)[v] <= MaximumLineQuantity
    <3> DEFINE m == Least({MaximumLineQuantity, available[v], kept[u].lines[v] + carts[g].lines[v]})
    <3>1. available[v] \in Nat /\ kept[u].lines[v] + carts[g].lines[v] \in Nat
      BY <1>1, <2>3 DEF Amounts
    <3>2. {MaximumLineQuantity, available[v], kept[u].lines[v] + carts[g].lines[v]} \in SUBSET Nat
      BY <1>1, <3>1
    <3>3. m <= MaximumLineQuantity
      BY <3>2, LeastIsMember
    <3>4. kept[u].lines[v] <= MaximumLineQuantity
      BY <1>1, <1>2, <2>1 DEF LinesFit
    <3>5. Merged(kept[u].lines, carts[g].lines)[v] \in {m, kept[u].lines[v]}
      BY DEF Merged
    <3> QED BY <3>3, <3>4, <3>5
  <2>5. merged.lines = Merged(kept[u].lines, carts[g].lines) /\ emptied.lines = NoLines
    BY <1>2, <2>1 DEF CartRow
  <2> HIDE DEF merged, emptied
  <2>6. ASSUME NEW c \in CartIds, NEW v \in Variants
        PROVE  carts'[c].lines[v] <= MaximumLineQuantity
    <3>1. CASE c = g
      BY <1>1, <1>2, <2>1, <2>2, <2>5, <3>1 DEF NoLines
    <3>2. CASE c = u
      BY <1>2, <2>1, <2>2, <2>4, <2>5, <3>2
    <3>3. CASE c # g /\ c # u
      BY <1>1, <1>2, <2>1, <2>2, <3>3 DEF LinesFit
    <3> QED BY <3>1, <3>2, <3>3
  <2> QED BY <2>6 DEF MergeCarts, CartsFit, LinesFit, ClaimsTyped, ViewsTyped
<1> QED BY <1>3, <1>4, <1>5 DEF MergeCarts

LEMMA CartNextFits ==
  ASSUME Numbers, Sized, CartsInv, CartsFit, CartNext
  PROVE  CartsFit'
<1>1. ASSUME NEW c \in CartIds, CartExpires(c)
      PROVE  CartsFit'
  <2>1. \A d \in CartIds : carts'[d].lines = carts[d].lines
    BY <1>1 DEF CartExpires, CartsInv, CartRow
  <2> QED BY <1>1, <2>1 DEF CartExpires, CartsFit, LinesFit, ClaimsTyped, ViewsTyped
<1> QED BY <1>1, RequestsFit, ClampFits, MergeFits DEF CartNext

LEMMA InitCartTypes ==
  ASSUME Sized, CartInit
  PROVE  CartsFit
BY DEF Sized, CartInit, CartsFit, LinesFit, ClaimsTyped, ViewsTyped, NoCart, NoLines

-----------------------------------------------------------------------------
ConfirmationsTyped ==
  confirmations \in [Sessions -> [ConfirmKeys -> {"absent", "claimed", "completed"}]]
PricesFit == price <= MaxPrice /\ \A s \in Sessions : sessions[s].quote.price <= MaxPrice

CheckoutFits == CartsFit /\ ConfirmationsTyped /\ PricesFit

LEMMA CheckoutTypes ==
  ASSUME Sized, IInv, CheckoutFits
  PROVE  TypeOK
<1>1. CartTypeOK
  BY CartTypes DEF IInv, CheckoutFits
<1>2. sessions \in [Sessions -> SessionRow] /\ price \in Nat
  BY DEF IInv, SessionsInv
<1>3. ASSUME NEW s \in Sessions
      PROVE  sessions[s].quote \in [lines : [Variants -> Nat], price : 0..MaxPrice]
  BY <1>2 DEF SessionRow, Quote, Amounts, CheckoutFits, PricesFit, Sized
<1>4. price \in 0..MaxPrice
  BY <1>2 DEF CheckoutFits, PricesFit, Sized
<1> QED
  BY <1>1, <1>2, <1>3, <1>4 DEF SessionRow, Amounts, CheckoutFits, ConfirmationsTyped, TypeOK

LEMMA InitCheckoutFits ==
  ASSUME Sized, Init
  PROVE  CheckoutFits
BY InitCartTypes DEF Init, Sized, CheckoutFits, ConfirmationsTyped, PricesFit, NoSession, NoQuote

LEMMA NextCheckoutFits ==
  ASSUME Numbers, Sized, IInv, CheckoutFits, [Next]_vars
  PROVE  CheckoutFits'
<1>1. CartsInv /\ CartsFit /\ ConfirmationsTyped /\ PricesFit
  BY DEF IInv, CheckoutFits
<1>2. /\ sessions \in [Sessions -> SessionRow] /\ price \in Nat /\ carts \in [CartIds -> CartRow]
  BY DEF IInv, SessionsInv, CartsInv
<1>3. ASSUME UNCHANGED <<carts, addClaims, renders>>
      PROVE  CartsFit'
  BY <1>1, <1>3 DEF CartsFit, LinesFit, ClaimsTyped, ViewsTyped
<1>4. ASSUME NEW s \in Sessions, NEW k \in ConfirmKeys, NEW state \in {"absent", "claimed", "completed"},
             Claims(s, k, state)
      PROVE  ConfirmationsTyped'
  BY <1>1, <1>4 DEF Claims, ConfirmationsTyped
<1>5. ASSUME UNCHANGED confirmations
      PROVE  ConfirmationsTyped'
  BY <1>1, <1>5 DEF ConfirmationsTyped
<1>6. ASSUME NEW s \in Sessions, UNCHANGED price,
             sessions'[s].quote.price \in {sessions[s].quote.price, price},
             \A r \in Sessions \ {s} : sessions'[r] = sessions[r]
      PROVE  PricesFit'
  BY <1>1, <1>6 DEF PricesFit
<1>7. ASSUME UNCHANGED <<sessions, price>>
      PROVE  PricesFit'
  BY <1>1, <1>7 DEF PricesFit
<1>8. CASE CartNext /\ UNCHANGED checkoutVars
  BY <1>1, <1>5, <1>7, <1>8, CartNextFits DEF checkoutVars, CheckoutFits
<1>9. ASSUME NEW o \in Owners, NEW s \in Sessions, Start(o, s)
      PROVE  CheckoutFits'
  <2>1. PICK c : sessions' = [sessions EXCEPT ![s] =
          [NoSession EXCEPT !.status = "OPEN", !.cart = c, !.owner = o,
             !.quote = [lines |-> carts[c].lines, price |-> price],
             !.hold = "ACTIVE", !.held = carts[c].lines]]
    BY <1>9 DEF Start
  <2>2. sessions'[s].quote.price = price
    BY <1>2, <2>1 DEF NoSession
  <2>3. \A r \in Sessions \ {s} : sessions'[r] = sessions[r]
    BY <1>2, <2>1
  <2>4. UNCHANGED <<carts, addClaims, renders, confirmations, price>>
    BY <1>9 DEF Start
  <2> QED BY <1>3, <1>5, <1>6, <2>2, <2>3, <2>4 DEF CheckoutFits
<1>10. ASSUME NEW o \in Owners, NEW s \in Sessions, ExpireOnAccess(o, s)
       PROVE  CheckoutFits'
  <2>1. /\ sessions'[s].quote.price \in {sessions[s].quote.price, price}
        /\ \A r \in Sessions \ {s} : sessions'[r] = sessions[r]
    BY <1>2, <1>10 DEF ExpireOnAccess, Expire, Freed, SessionRow
  <2>2. UNCHANGED <<carts, addClaims, renders, confirmations, price>>
    BY <1>10 DEF ExpireOnAccess
  <2> QED BY <1>3, <1>5, <1>6, <2>1, <2>2 DEF CheckoutFits
<1>11. ASSUME NEW o \in Owners, NEW s \in Sessions, SelectShippingQuote(o, s)
       PROVE  CheckoutFits'
  <2>1. sessions' = [sessions EXCEPT ![s].quote =
           [lines |-> carts[sessions[s].cart].lines, price |-> price]]
    BY <1>11 DEF SelectShippingQuote
  <2>2. /\ sessions'[s].quote.price \in {sessions[s].quote.price, price}
        /\ \A r \in Sessions \ {s} : sessions'[r] = sessions[r]
    BY <1>2, <2>1 DEF SessionRow
  <2>3. UNCHANGED <<carts, addClaims, renders, confirmations, price>>
    BY <1>11 DEF SelectShippingQuote, cartVars
  <2> QED BY <1>3, <1>5, <1>6, <2>2, <2>3 DEF CheckoutFits
<1>12. ASSUME NEW o \in Owners, NEW s \in Sessions, NEW k \in ConfirmKeys, ConfirmOrdered(o, s, k)
       PROVE  CheckoutFits'
  <2>1. Claims(s, k, "completed") /\ UNCHANGED <<carts, addClaims, renders, sessions, price>>
    BY <1>12 DEF ConfirmOrdered, cartVars
  <2> QED BY <1>3, <1>4, <1>7, <2>1 DEF CheckoutFits
<1>13. ASSUME NEW o \in Owners, NEW s \in Sessions, NEW k \in ConfirmKeys, ConfirmRepriced(o, s, k)
       PROVE  CheckoutFits'
  <2>1. sessions' = [sessions EXCEPT ![s].quote =
           [lines |-> carts[sessions[s].cart].lines, price |-> price]]
    BY <1>13 DEF ConfirmRepriced, Current
  <2>2. /\ sessions'[s].quote.price \in {sessions[s].quote.price, price}
        /\ \A r \in Sessions \ {s} : sessions'[r] = sessions[r]
    BY <1>2, <2>1 DEF SessionRow
  <2>3. Claims(s, k, "claimed") /\ UNCHANGED <<carts, addClaims, renders, price>>
    BY <1>13 DEF ConfirmRepriced, cartVars
  <2> QED BY <1>3, <1>4, <1>6, <2>2, <2>3 DEF CheckoutFits
<1>14. ASSUME NEW o \in Owners, NEW s \in Sessions, NEW k \in ConfirmKeys, Confirm(o, s, k)
       PROVE  CheckoutFits'
  <2>1. \A c \in CartIds : carts'[c].lines = carts[c].lines
    BY <1>2, <1>14 DEF Confirm, Converted, CartRow
  <2>2. Claims(s, k, "completed") /\ UNCHANGED <<addClaims, renders, price>>
    BY <1>14 DEF Confirm
  <2>3. CartsFit'
    BY <1>1, <2>1, <2>2 DEF CartsFit, LinesFit, ClaimsTyped, ViewsTyped
  <2>4. sessions' = [sessions EXCEPT ![s].hold = "CONSUMED", ![s].status = "AWAITING_PAYMENT"]
    BY <1>14 DEF Confirm
  <2>5. /\ sessions'[s].quote.price \in {sessions[s].quote.price, price}
        /\ \A r \in Sessions \ {s} : sessions'[r] = sessions[r]
    BY <1>2, <2>4 DEF SessionRow
  <2> QED BY <1>4, <1>6, <2>2, <2>3, <2>5 DEF CheckoutFits
<1>15. ASSUME NEW s \in Sessions, SweepHold(s) \/ HoldComesDue(s)
       PROVE  CheckoutFits'
  <2>1. /\ sessions'[s].quote.price \in {sessions[s].quote.price, price}
        /\ \A r \in Sessions \ {s} : sessions'[r] = sessions[r]
    BY <1>2, <1>15 DEF SweepHold, HoldComesDue, Freed, SessionRow
  <2>2. UNCHANGED <<carts, addClaims, renders, confirmations, price>>
    BY <1>15 DEF SweepHold, HoldComesDue, cartVars
  <2> QED BY <1>3, <1>5, <1>6, <2>1, <2>2 DEF CheckoutFits
<1>16. ASSUME NEW s \in Sessions, NEW k \in ConfirmKeys, ConfirmKeyExpires(s, k)
       PROVE  CheckoutFits'
  <2>1. Claims(s, k, "absent") /\ UNCHANGED <<carts, addClaims, renders, sessions, price>>
    BY <1>16 DEF ConfirmKeyExpires, cartVars
  <2> QED BY <1>3, <1>4, <1>7, <2>1 DEF CheckoutFits
<1>17. CASE PriceChanges
  <2>1. UNCHANGED <<carts, addClaims, renders, sessions, confirmations>>
    BY <1>17 DEF PriceChanges, cartVars
  <2>2. price' <= MaxPrice
    BY <1>2, <1>17 DEF PriceChanges, Sized
  <2> QED BY <1>1, <1>3, <1>5, <2>1, <2>2 DEF PricesFit, CheckoutFits
<1>18. CASE UNCHANGED vars
  BY <1>3, <1>5, <1>7, <1>18 DEF vars, cartVars, checkoutVars, CheckoutFits
<1> QED
  BY <1>8, <1>9, <1>10, <1>11, <1>12, <1>13, <1>14, <1>15, <1>16, <1>17, <1>18 DEF Next

-----------------------------------------------------------------------------
MissedTyped == missed \subseteq Sessions

LEMMA PageTypes ==
  ASSUME PageInv, MissedTyped
  PROVE  PageTypeOK
BY DEF PageInv, Begun, PageTells, PageRow, MissedTyped, PageTypeOK

LEMMA InitPageFits ==
  ASSUME Sized, PageInit
  PROVE  CheckoutFits /\ MissedTyped
<1>1. \A c \in CartIds, v \in Variants : carts[c].lines[v] \in {0, 1}
  BY DEF PageInit, NoCart, NoLines
<1>2. CartsFit
  BY <1>1 DEF PageInit, Sized, CartsFit, LinesFit, ClaimsTyped, ViewsTyped
<1> QED
  BY <1>2 DEF PageInit, Sized, CheckoutFits, ConfirmationsTyped, PricesFit, NoSession, NoQuote, MissedTyped

\* Only a request that names a session, or a page that shows one, misses its price.
LEMMA MissedStays ==
  ASSUME PageInv, MissedTyped, PageNext
  PROVE  MissedTyped'
<1>1. CASE Customer \/ Page \/ Around \/ \E m \in network : RequestLost(m)
  <2>1. UNCHANGED missed
    BY <1>1 DEF Customer, Open, Reload, ClickConfirm, ClickQuote, StartOver, SubmitForm, Page,
       ResumeSession, SessionExtended, SessionStarted, QuoteShown, ConfirmAnswered, RequestLost, Around, pageVars
  <2> QED BY <2>1 DEF MissedTyped
<1>2. ASSUME NEW m \in network, ServeStart(m) \/ ServeLook(m) \/ ServeSelect(m) \/ ServeConfirm(m)
      PROVE  MissedTyped'
  <2>1. m.session \in Sessions
    BY DEF PageInv, Requests, Request
  <2>2. missed' = missed \/ missed' = Unseen(m)
    BY <1>2 DEF ServeStart, ServeLook, ServeSelect, ServeConfirm, Refuse, ConfirmInProgress,
       ConfirmReplayed, ConfirmRefused
  <2> QED BY <2>1, <2>2 DEF Unseen, MissedTyped
<1>3. CASE AnswerLost
  <2>1. /\ page.answer.kind = "repriced" => page.awaits = "confirm"
        /\ page.awaits \in {"select", "confirm", "refresh"} => page.checkout \in Sessions
    BY DEF PageInv, PageTells, Answers, Refers, Live
  <2>2. \/ missed' = missed
        \/ missed' = missed \cup {page.checkout} /\ page.awaits \in {"select", "confirm", "refresh"}
    BY <1>3, <2>1 DEF AnswerLost
  <2> QED BY <2>1, <2>2 DEF MissedTyped
<1> QED BY <1>1, <1>2, <1>3 DEF PageNext, Api, Faults

LEMMA NextPageFits ==
  ASSUME Numbers, Sized, IInv, PageInv, CheckoutFits, MissedTyped, [PageNext]_<<vars, pageVars>>
  PROVE  (CheckoutFits /\ MissedTyped)'
<1>1. [Next]_vars
  BY PageSteps
<1>2. MissedTyped'
  BY MissedStays DEF pageVars, MissedTyped
<1> QED BY <1>1, <1>2, NextCheckoutFits
=============================================================================
