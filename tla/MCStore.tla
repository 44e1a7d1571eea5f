------------------------------- MODULE MCStore --------------------------------
EXTENDS Store, TLC

CONSTANTS item, k1, k2,
  m1, m2, n1, n2, e1, e2     \* interchangeable: m1 with m2, n1 with n2, e1 with e2

\* Shopping.
KeysByPart     == [carts |-> {k1}, checkouts |-> {}, pages |-> {}]
CouponsByPart  == [carts |-> BOOLEAN, checkouts |-> {}, pages |-> {}]
RendersByPart  == [carts |-> 1, checkouts |-> 1, pages |-> 0]
ConfirmsByPart == [checkouts |-> {k2}, pages |-> {n1, n2}]
FaultsByPart   == [pages |-> 1, uploading |-> 2]
TwoOfEach      == [w \in {item} |-> 2]
UpToTwo        == 0..2

\* An order of two lines, the first from two reservations.
ThreeReservations == 1..3
LinesOfThem       == <<1, 1, 2>>
TwoAndOne         == <<2, 1, 1>>

\* Two orders of one user and one of a guest, with a coupon of each kind.
Users == [n \in {m1, m2, n1} |-> IF n = n1 THEN "guest" ELSE "user"]
PricedCoupons == {
  [type |-> "PERCENT", value |-> 3, cap |-> 4, targets |-> {1, 2}, starts |-> 0, ends |-> 1,
   minimum |-> 2],
  [type |-> "FIXED", value |-> 5, cap |-> 9, targets |-> 1..3, starts |-> 0, ends |-> 2,
   minimum |-> 0],
  [type |-> "FREE_SHIPPING", value |-> 0, cap |-> 9, targets |-> {1}, starts |-> 0, ends |-> 2,
   minimum |-> 0]}
Rates == {[region |-> "none", bps |-> 1, inclusive |-> FALSE],
          [region |-> "r", bps |-> 2, inclusive |-> TRUE]}
ThreeLines == 1..3
OneWindow == {<<1, 2>>}

\* Receipts of two lines, one of them untracked.
Entry(l, accepted, rejected) == [line |-> l, accepted |-> accepted, rejected |-> rejected]
Receipts == {<<Entry(1, 1, 0)>>, <<Entry(1, 2, 0)>>, <<Entry(1, 1, 1)>>, <<Entry(2, 1, 0)>>,
             <<Entry(1, 1, 0), Entry(2, 0, 1)>>, <<Entry(1, 2, 0), Entry(1, 1, 0)>>}

Symmetry == Permutations({m1, m2}) \cup Permutations({n1, n2}) \cup Permutations({e1, e2})
===============================================================================
