------------------------------ MODULE Pricing -------------------------------
(***************************************************************************)
(* What an order costs (PricingService, the arithmetic of its domain and   *)
(* the tax shares CheckoutService derives): the prices in force, one       *)
(* coupon whose uses are limited, the discount spread over the lines and   *)
(* the tax.                                                                *)
(*                                                                         *)
(* A confirmation prices its lines with the coupon's row locked and        *)
(* redeems the coupon in the same transaction; a session that only shows   *)
(* its price lets the transaction end without redeeming.  A checkout       *)
(* without a coupon shares nothing with the others.  Line numbers stand    *)
(* for line identifiers and their order.                                   *)
(***************************************************************************)
EXTENDS Integers, FiniteSets, Functions

CONSTANTS
  Confirms,          \* confirmations, each of one order
  CustomerOf,        \* their users, "guest" for a guest
  UsageLimitTotal, UsageLimitPerUser,
  CouponKinds,       \* coupon rows the model starts with, without their count
  Lines,             \* lines of every cart, 1..n
  Quantities,        \* bound of the model: quantities of a line
  Amounts,           \* bound of the model: minor units of a price
  Windows,           \* bound of the model: from and to of a price
  MaxPrices,         \* bound of the model: rows of variant_price
  BasisPoints,       \* 10000 in the code, scaled to the amounts
  TaxRates,          \* tax rates staff may create
  MaxTime            \* bound of the model

VARIABLES
  clock, prices, rates,
  coupon,            \* the row of the coupon
  redeemed,          \* coupon_redemption, by confirmation
  stage,             \* where the transaction of a confirmation is
  sale               \* what the transaction under way computed

pricingVars == <<clock, prices, rates, coupon, redeemed, stage, sale>>

Nothing == [priced |-> FALSE]
Sum(f)  == SumFunctionOnSet(f, DOMAIN f)
Least(x, y) == IF x < y THEN x ELSE y

PricingInit ==
  /\ clock = 0
  /\ \E a \in Amounts :
       prices = {[line |-> l, amount |-> a, from |-> 0, to |-> MaxTime + 1] : l \in Lines}
  /\ rates = {}
  /\ coupon \in {[kind |-> k, usedCount |-> 0] : k \in CouponKinds}
  /\ redeemed = {}
  /\ stage = [c \in Confirms |-> "idle"]
  /\ sale = Nothing

-----------------------------------------------------------------------------
(* Prices and rates.  (variant, currency, valid_from) is unique; of rates  *)
(* only the code is.                                                       *)
TimePasses ==
  /\ clock < MaxTime
  /\ clock' = clock + 1
  /\ UNCHANGED <<prices, rates, coupon, redeemed, stage, sale>>

CreateVariantPrice(l, a, w) ==
  /\ w[1] < w[2] /\ Cardinality(prices) < MaxPrices
  /\ \A p \in prices : ~(p.line = l /\ p.from = w[1])
  /\ prices' = prices \cup {[line |-> l, amount |-> a, from |-> w[1], to |-> w[2]]}
  /\ UNCHANGED <<clock, rates, coupon, redeemed, stage, sale>>

CreateTaxRate(r) ==
  /\ rates' = rates \cup {r}
  /\ UNCHANGED <<clock, prices, coupon, redeemed, stage, sale>>

Active(l) == {p \in prices : p.line = l /\ p.from <= clock /\ clock < p.to}

(* resolveCurrentPrice.                                                    *)
CurrentPrice(l) == {p \in Active(l) : \A q \in Active(l) : p.from >= q.from}

(* resolveTaxRate: a rate of the region before one of the country; two     *)
(* that fit equally well are an error.                                     *)
Applicable(region) ==
  LET regional == {r \in rates : r.region = region /\ region # "none"}
      country  == {r \in rates : r.region = "none"}
  IN IF regional # {} THEN regional ELSE country

-----------------------------------------------------------------------------
DivideRoundHalfUp(n, d) == (n + d \div 2) \div d

Eligible(kind) == kind.targets \cap Lines

(* calculateCouponEffect.                                                  *)
CouponEffect(kind, eligibleSubtotal) ==
  LET requested == CASE kind.type = "FREE_SHIPPING" -> 0
                     [] kind.type = "PERCENT" ->
                          DivideRoundHalfUp(eligibleSubtotal * kind.value, BasisPoints)
                     [] kind.type = "FIXED" -> kind.value
  IN Least(eligibleSubtotal, Least(requested, kind.cap))

AllocationRestToFirst(subtotal, eligible, discount) ==
  LET S      == Sum(Restrict(subtotal, eligible))
      paying == {l \in eligible : subtotal[l] > 0}
      share  == [l \in paying |-> (discount * subtotal[l]) \div S]
      first(l) == \A k \in paying : l <= k
  IN [l \in Lines |-> IF l \in paying /\ discount > 0
                      THEN share[l] + (IF first(l) THEN discount - Sum(share) ELSE 0) ELSE 0]
(* allocateProportionalDiscount: whole shares first, then one unit more    *)
(* for each paying line in their order.                                    *)
Allocation(subtotal, eligible, discount) ==
  LET S      == Sum(Restrict(subtotal, eligible))
      paying == {l \in eligible : subtotal[l] > 0}
      share  == [l \in paying |-> (discount * subtotal[l]) \div S]
      rest   == discount - Sum(share)
      extra(l) == IF Cardinality({k \in paying : k < l}) < rest THEN 1 ELSE 0
  IN [l \in Lines |-> IF l \in paying /\ discount > 0 THEN share[l] + extra(l) ELSE 0]

(* calculateTax.                                                           *)
Tax(amount, rate) ==
  DivideRoundHalfUp(amount * rate.bps,
                    IF rate.inclusive THEN BasisPoints + rate.bps ELSE BasisPoints)

(* distributeTax: the largest remainders get the units that are left.      *)
TaxShares(amounts, tax) ==
  LET W       == Sum(amounts)
      base    == [l \in Lines |-> (tax * amounts[l]) \div W]
      left(l) == (tax * amounts[l]) % W
      rest    == tax - Sum(base)
      before(l) == {k \in Lines : left(k) > left(l) \/ (left(k) = left(l) /\ k < l)}
  IN IF W = 0 \/ tax = 0 THEN [l \in Lines |-> 0]
     ELSE [l \in Lines |-> base[l] + (IF Cardinality(before(l)) < rest THEN 1 ELSE 0)]

-----------------------------------------------------------------------------
UsesOf(u) == Cardinality({c \in redeemed : CustomerOf[c] = u})
UsesLeftForGuests(c) == coupon.usedCount < UsageLimitTotal
UsesLeft(c) ==
  /\ coupon.usedCount < UsageLimitTotal
  /\ CustomerOf[c] # "guest" => UsesOf(CustomerOf[c]) < UsageLimitPerUser

(* evaluateCoupon.                                                         *)
CouponApplies(c, subtotal) ==
  /\ coupon.kind.starts <= clock /\ clock < coupon.kind.ends
  /\ UsesLeft(c)
  /\ Sum(subtotal) >= coupon.kind.minimum
  /\ Eligible(coupon.kind) # {}

(* lockCoupon waits for the transaction that holds the row.                *)
UnderWay == {c \in Confirms : stage[c] \in {"priced", "redeemed"}}
CouponFree == UnderWay = {}

Priced(subtotal, rate) ==
  LET eligible == Eligible(coupon.kind)
      discount == CouponEffect(coupon.kind, Sum(Restrict(subtotal, eligible)))
      shares   == Allocation(subtotal, eligible, discount)
      total    == [l \in Lines |-> subtotal[l] - shares[l]]
      tax      == Tax(Sum(total), rate)
  IN [priced |-> TRUE, subtotal |-> subtotal, eligible |-> eligible, discount |-> discount,
      shares |-> shares, total |-> total, rate |-> rate, tax |-> tax,
      taxShares |-> TaxShares(total, tax)]

(* priceCheckout.  Any error ends the transaction.                         *)
PriceCheckout(c, quantity, region) ==
  /\ stage[c] = "idle" /\ c \notin redeemed
  /\ CouponFree
  /\ \A l \in Lines : CurrentPrice(l) # {}
  /\ Cardinality(Applicable(region)) = 1
  /\ \E p \in [Lines -> prices], rate \in Applicable(region) :
       LET subtotal == [l \in Lines |-> p[l].amount * quantity[l]] IN
       /\ \A l \in Lines : p[l] \in CurrentPrice(l)
       /\ CouponApplies(c, subtotal)
       /\ sale' = Priced(subtotal, rate)
  /\ stage' = [stage EXCEPT ![c] = "priced"]
  /\ UNCHANGED <<clock, prices, rates, coupon, redeemed>>

(* redeemCoupon, once the order has the numbers, reads the limits again;   *)
(* its row and count are seen by others when the confirmation commits.     *)
RedeemCoupon(c) ==
  /\ stage[c] = "priced"
  /\ UsesLeft(c)
  /\ stage' = [stage EXCEPT ![c] = "redeemed"]
  /\ sale' = Nothing
  /\ UNCHANGED <<clock, prices, rates, coupon, redeemed>>

CommitRedemption(c) ==
  /\ stage[c] = "redeemed"
  /\ redeemed' = redeemed \cup {c}
  /\ coupon' = [coupon EXCEPT !.usedCount = @ + 1]
  /\ stage' = [stage EXCEPT ![c] = "idle"]
  /\ UNCHANGED <<clock, prices, rates, sale>>

(* A session that only shows its price, or an error later in the           *)
(* confirmation.                                                           *)
EndsUnredeemed(c) ==
  /\ stage[c] \in {"priced", "redeemed"}
  /\ stage' = [stage EXCEPT ![c] = "idle"]
  /\ sale' = Nothing
  /\ UNCHANGED <<clock, prices, rates, coupon, redeemed>>

Regions == {r.region : r \in TaxRates} \cup {"none"}

PricingNext ==
  \/ TimePasses
  \/ \E l \in Lines, a \in Amounts, w \in Windows : CreateVariantPrice(l, a, w)
  \/ \E r \in TaxRates : CreateTaxRate(r)
  \/ \E c \in Confirms, q \in [Lines -> Quantities], g \in Regions : PriceCheckout(c, q, g)
  \/ \E c \in Confirms : RedeemCoupon(c) \/ CommitRedemption(c) \/ EndsUnredeemed(c)

PricingSpec == PricingInit /\ [][PricingNext]_pricingVars

-----------------------------------------------------------------------------
PricingTypeOK ==
  /\ clock \in 0..MaxTime
  /\ prices \subseteq [line : Lines, amount : Amounts, from : 0..MaxTime, to : 1..MaxTime + 1]
  /\ rates \subseteq TaxRates
  /\ coupon \in [kind : CouponKinds, usedCount : 0..Cardinality(Confirms)]
  /\ redeemed \subseteq Confirms
  /\ stage \in [Confirms -> {"idle", "priced", "redeemed"}]
  /\ sale = Nothing \/ sale.priced

\* However confirmations overlap, the coupon is used no more often than its
\* limits allow, in all and by each signed-in customer, and its count is the
\* number of its redemptions.  A guest has no limit of his own.
CouponWithinLimits ==
  /\ coupon.usedCount = Cardinality(redeemed)
  /\ coupon.usedCount <= UsageLimitTotal
  /\ \A u \in Range(CustomerOf) \ {"guest"} : UsesOf(u) <= UsageLimitPerUser

WithinOneUnit(share, whole, part, parts) ==
  LET d == share * parts - whole * part IN d <= parts /\ -d <= parts

\* The numbers of an order add up: the discount is spread over the lines it is
\* for, no line gives back more than it costs, and discount and tax reach the
\* lines to the last unit, each line at most one unit off its exact part.  The
\* errors the code raises when an allocation is not exact cannot occur.
SaleIsExact ==
  sale.priced =>
    LET S == Sum(Restrict(sale.subtotal, sale.eligible)) IN
    /\ Sum(sale.shares) = sale.discount /\ sale.discount <= S
    /\ \A l \in Lines :
         /\ sale.shares[l] <= sale.subtotal[l]
         /\ l \notin sale.eligible => sale.shares[l] = 0
         /\ l \in sale.eligible /\ S > 0 =>
              WithinOneUnit(sale.shares[l], sale.discount, sale.subtotal[l], S)
    /\ Sum(sale.taxShares) = sale.tax
    /\ Sum(sale.total) > 0 =>
         \A l \in Lines :
           WithinOneUnit(sale.taxShares[l], sale.tax, sale.total[l], Sum(sale.total))
=============================================================================
