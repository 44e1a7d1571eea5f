-------------------------------- MODULE Store ---------------------------------
(***************************************************************************)
(* The parts of the shop that share no state in the models, side by side:  *)
(* a behaviour is a behaviour of one of them, chosen by "part" at the      *)
(* start.  The variables x1 to x14 stand for the variables of that part,   *)
(* and are 0 where it has fewer.  A part is an instance of the module of   *)
(* its proofs, where it has one, so that they can be cited of it.          *)
(***************************************************************************)
EXTENDS Naturals, Sequences, FiniteSets

CONSTANTS                                  \* by part, where they are records
  Variants, MaximumLineQuantity, FreshKey, MaxCarts, Levels,          \* carts
  AddKeys, Coupons, MaxRenders,                        \* records: and the next
  Sessions, Stock, MaxPrice, ConfirmKeys,                  \* checkouts (record)
  Forms, NoKey,                                                        \* pages
  MaxFaults,                                              \* pages and uploading
  Reservations, LineOf, UnitsOf, Others, Shipments, Refundable,        \* sales
  Products, MaxLookups,
  Confirms, CustomerOf, UsageLimitTotal, UsageLimitPerUser,           \* prices
  CouponKinds, SaleLines, SaleQuantities, SaleAmounts, Windows, MaxPrices, BasisPoints,
  TaxRates, MaxTime,
  Orders, OrderLines, Untracked, OrderQuantities, ReceiptKeys,     \* purchases
  Entries,
  Uploads, Calls, Objects,                                         \* uploading
  Logins, Completions, StepUps, Tokens, MaxStep, MaxAttempts, Drift,   \* staff
  MaxRequests, MaxRuns,                                              \* letters
  Entities, Slugs, Edits, NoName,                                      \* links
  GoodsVariants, GoodsCategories,                          \* goods, with Edits
  Categories, TreeEdits, MaximumDepth, Root                             \* tree

\* Bounds and stock are numbers, there may be a cart and a unit of a line, and
\* what stands for no key and no form is neither.
CartsAssumption ==
  /\ MaxCarts \in Nat \ {0} /\ MaximumLineQuantity \in Nat \ {0} /\ MaxPrice \in Nat
  /\ Stock \in [Variants -> Nat] /\ Levels \subseteq Nat
  /\ Coupons \in [{"carts", "checkouts", "pages"} -> SUBSET BOOLEAN]
  /\ IsFiniteSet(Sessions) /\ NoKey \notin Sessions /\ "none" \notin Forms

\* Requests of different kinds are different, tokens are finitely many, and there
\* are steps and attempts.
StaffAssumption ==
  /\ Logins \cap Completions = {} /\ Logins \cap StepUps = {} /\ Completions \cap StepUps = {}
  /\ "none" \notin Logins
  /\ MaxStep \in Nat \ {0} /\ Drift \in Nat /\ MaxAttempts \in Nat \ {0} /\ IsFiniteSet(Tokens)

\* The name that stands for no variant and no category is neither.
GoodsAssumption == NoName \notin GoodsVariants \cup GoodsCategories

\* Reservations are numbered, and units are numbers.
SalesAssumption ==
  /\ IsFiniteSet(Reservations) /\ Reservations \subseteq Nat /\ IsFiniteSet(Shipments)
  /\ UnitsOf \in [Reservations -> Nat] /\ Others \in [Reservations -> Nat]
  /\ Refundable \in Nat

\* What stands for no order is none, and receipts have lines of orders.
PurchasesAssumption ==
  /\ IsFiniteSet(Orders) /\ IsFiniteSet(OrderLines) /\ IsFiniteSet(ReceiptKeys)
  /\ "none" \notin Orders /\ OrderQuantities \subseteq Nat
  /\ Entries \subseteq Seq([line : OrderLines, accepted : Nat, rejected : Nat])

\* Requests and runs of letters are numbered.
LettersAssumption == MaxRequests \in Nat /\ MaxRuns \in Nat

\* The name that stands for no entity and no slug is neither.
LinksAssumption == NoName \notin Entities \cup Slugs

\* Prices, quantities and rates are numbers, of a whole of basis points; windows
\* lie within the time there is.
PricesAssumption ==
  /\ IsFiniteSet(SaleLines) /\ SaleLines \subseteq Nat
  /\ SaleQuantities \subseteq Nat /\ SaleAmounts \subseteq Nat /\ BasisPoints \in Nat \ {0}
  /\ \A k \in CouponKinds : k.value \in Nat /\ k.cap \in Nat
                            /\ k.type \in {"FREE_SHIPPING", "PERCENT", "FIXED"}
  /\ \A r \in TaxRates : r.bps \in Nat
  /\ IsFiniteSet(Confirms) /\ UsageLimitTotal \in Nat /\ UsageLimitPerUser \in Nat
  /\ MaxTime \in Nat /\ \A w \in Windows : w[1] \in 0..MaxTime /\ w[2] \in 1..MaxTime + 1

\* Faults are numbered.
UploadsAssumption == MaxFaults.uploading \in Nat

\* The root of the tree is no category.
TreeAssumption == Root \notin Categories /\ MaximumDepth \in Nat

ASSUME StoreAssumption ==
  /\ CartsAssumption /\ StaffAssumption /\ GoodsAssumption
  /\ SalesAssumption /\ PurchasesAssumption
  /\ LettersAssumption /\ LinksAssumption /\ PricesAssumption /\ UploadsAssumption
  /\ TreeAssumption

VARIABLES part, x1, x2, x3, x4, x5, x6, x7, x8, x9, x10, x11, x12, x13, x14

From11 == <<x11, x12, x13, x14>>
From9 == <<x9, x10, From11>>
From8 == <<x8, From9>>
From7 == <<x7, From8>>
From5 == <<x5, x6, From7>>

Unused11 == x11 = 0 /\ x12 = 0 /\ x13 = 0 /\ x14 = 0
Unused9 == x9 = 0 /\ x10 = 0 /\ Unused11
Unused8 == x8 = 0 /\ Unused9
Unused7 == x7 = 0 /\ Unused8
Unused5 == x5 = 0 /\ x6 = 0 /\ Unused7

-------------------------------------------------------------------------------
(* Carts of a shopper whose keys are repeated, while the stock moves.      *)
Carts == INSTANCE CheckoutProofs WITH
  AddKeys <- AddKeys.carts, Coupons <- Coupons.carts, MaxRenders <- MaxRenders.carts,
  ConfirmKeys <- {}, MaxFaults <- 0,
  carts <- x1, addClaims <- x2, renders <- x3, available <- x4,
  sessions <- x5, confirmations <- x6, orders <- x7, price <- x8,
  begun <- x9, page <- x10, network <- x11, agreed <- x12, missed <- x13, faults <- x14

CartsInit == Carts!CartInit /\ x4 \in [Variants -> Levels] /\ Unused5

StockMoves == x4' \in [Variants -> Levels] /\ UNCHANGED <<x1, x2, x3>>

CartsNext == (Carts!CartNext \/ StockMoves) /\ UNCHANGED From5

(* Checkout sessions of one shopper.                                       *)
Checkouts == INSTANCE CheckoutProofs WITH
  AddKeys <- AddKeys.checkouts, Coupons <- Coupons.checkouts,
  MaxRenders <- MaxRenders.checkouts, ConfirmKeys <- ConfirmKeys.checkouts, MaxFaults <- 0,
  carts <- x1, addClaims <- x2, renders <- x3, available <- x4,
  sessions <- x5, confirmations <- x6, orders <- x7, price <- x8,
  begun <- x9, page <- x10, network <- x11, agreed <- x12, missed <- x13, faults <- x14

CheckoutsInit == Checkouts!Init /\ Unused9
CheckoutsNext == Checkouts!Next /\ UNCHANGED From9

(* A guest's tab of the checkout page that loses an answer or is reloaded, *)
(* while another tab edits the cart.                                       *)
Pages == INSTANCE CheckoutProofs WITH
  AddKeys <- AddKeys.pages, Coupons <- Coupons.pages, MaxRenders <- MaxRenders.pages,
  ConfirmKeys <- ConfirmKeys.pages, MaxFaults <- MaxFaults.pages,
  carts <- x1, addClaims <- x2, renders <- x3, available <- x4,
  sessions <- x5, confirmations <- x6, orders <- x7, price <- x8,
  begun <- x9, page <- x10, network <- x11, agreed <- x12, missed <- x13, faults <- x14

(* Calls that complete uploads; one product with its variants and          *)
(* categories, and edits that overlap; one order with its shipments, and   *)
(* the reviews of its products; and purchase orders of one variant at one  *)
(* location.                                                               *)
BackOffice == INSTANCE BackOfficeProofs WITH
  MaxFaults <- MaxFaults.uploading,
  intents <- x1, quarantine <- x2, stored <- x3, assets <- x4, unsure <- x5, calls <- x6,
  faults <- x7,
  Variants <- GoodsVariants, Categories <- GoodsCategories, None <- NoName,
  status <- x1, variants <- x2, default <- x3, members <- x4, primary <- x5, edits <- x6,
  overtaken <- x7, retired <- x8,
  order <- x1, shipments <- x2, allocated <- x3, dispatched <- x4, refunded <- x5,
  published <- x6, lookup <- x7, reviews <- x8,
  Quantities <- OrderQuantities,
  orders <- x1, receipts <- x2, incoming <- x3, onHand <- x4

UploadingInit == BackOffice!MediaInit /\ Unused8
UploadingNext == BackOffice!MediaNext /\ UNCHANGED From8

GoodsInit == BackOffice!ProductsInit /\ Unused9
GoodsNext == BackOffice!ProductsNext /\ UNCHANGED From9

SalesInit == BackOffice!ReviewsInit /\ Unused9
SalesNext == BackOffice!ReviewsNext /\ UNCHANGED From9

PurchasesInit == BackOffice!ProcurementInit /\ Unused5
PurchasesNext == BackOffice!ProcurementNext /\ UNCHANGED From5

(* Sign-ins and step-ups of one member of the staff; consents of one       *)
(* address and runs of its mail job; addresses of public entities, with    *)
(* upserts and transitions that overlap; the category tree, with moves     *)
(* that overlap; and confirmations of users and guests that reach for one  *)
(* coupon.                                                                 *)
FrontOffice == INSTANCE FrontOfficeProofs WITH
  step <- x1, password <- x2, lastAccepted <- x3, challenges <- x4, requests <- x5,
  overtaken <- x6, sessions <- x7, elevated <- x8, tokens <- x9, uses <- x10,
  subscription <- x1, deliveries <- x2, recent <- x3, runs <- x4, inbox <- x5, consent <- x6,
  None <- NoName,
  kind <- x1, status <- x2, slug <- x3, history <- x4, edits <- x5, shown <- x6,
  disputed <- x7,
  parents <- x1, paths <- x2, treeEdits <- x3, interleaved <- x4,
  Lines <- SaleLines, Quantities <- SaleQuantities, Amounts <- SaleAmounts,
  clock <- x1, prices <- x2, rates <- x3, coupon <- x4, redeemed <- x5, stage <- x6, sale <- x7

StaffInit == FrontOffice!Init /\ Unused11
StaffNext == FrontOffice!Next /\ UNCHANGED From11

LettersInit == FrontOffice!LettersInit /\ Unused7
LettersNext == FrontOffice!LettersNext /\ UNCHANGED From7

LinksInit == FrontOffice!LinksInit /\ Unused8
LinksNext == FrontOffice!LinksNext /\ UNCHANGED From8

PricesInit == FrontOffice!PricingInit /\ Unused8
PricesNext == FrontOffice!PricingNext /\ UNCHANGED From8

TreeInit == FrontOffice!TreeInit /\ Unused5
TreeNext == FrontOffice!TreeNext /\ UNCHANGED From5

-------------------------------------------------------------------------------
Init ==
  \/ part = "carts"     /\ CartsInit
  \/ part = "checkouts" /\ CheckoutsInit
  \/ part = "pages"     /\ Pages!PageInit
  \/ part = "sales"     /\ SalesInit
  \/ part = "prices"    /\ PricesInit
  \/ part = "purchases" /\ PurchasesInit
  \/ part = "uploading" /\ UploadingInit
  \/ part = "staff"     /\ StaffInit
  \/ part = "letters"   /\ LettersInit
  \/ part = "links"     /\ LinksInit
  \/ part = "goods"     /\ GoodsInit
  \/ part = "tree"      /\ TreeInit

CartsStep     == part = "carts"     /\ CartsNext     /\ UNCHANGED part
CheckoutsStep == part = "checkouts" /\ CheckoutsNext /\ UNCHANGED part
PagesStep     == part = "pages"     /\ Pages!PageNext /\ UNCHANGED part
SalesStep     == part = "sales"     /\ SalesNext     /\ UNCHANGED part
PricesStep    == part = "prices"    /\ PricesNext    /\ UNCHANGED part
PurchasesStep == part = "purchases" /\ PurchasesNext /\ UNCHANGED part
UploadingStep == part = "uploading" /\ UploadingNext /\ UNCHANGED part
StaffStep     == part = "staff"     /\ StaffNext     /\ UNCHANGED part
LettersStep   == part = "letters"   /\ LettersNext   /\ UNCHANGED part
LinksStep     == part = "links"     /\ LinksNext     /\ UNCHANGED part
GoodsStep     == part = "goods"     /\ GoodsNext     /\ UNCHANGED part
TreeStep      == part = "tree"      /\ TreeNext      /\ UNCHANGED part

Next ==
  \/ CartsStep \/ CheckoutsStep \/ PagesStep \/ SalesStep \/ PricesStep \/ PurchasesStep
  \/ UploadingStep \/ StaffStep \/ LettersStep \/ LinksStep \/ GoodsStep \/ TreeStep

storeVars == <<part, x1, x2, x3, x4, x5, x6, x7, x8, From9>>

Spec == Init /\ [][Next]_storeVars

-------------------------------------------------------------------------------
\* The type of the variables of each part.
TypeOK ==
  /\ part = "carts"     => Carts!CartTypeOK
  /\ part = "checkouts" => Checkouts!TypeOK
  /\ part = "pages"     => Pages!TypeOK /\ Pages!PageTypeOK
  /\ part = "sales"     => BackOffice!ReviewsTypeOK
  /\ part = "prices"    => FrontOffice!PricingTypeOK
  /\ part = "purchases" => BackOffice!ProcurementTypeOK
  /\ part = "uploading" => BackOffice!MediaTypeOK
  /\ part = "staff"     => FrontOffice!TypeOK
  /\ part = "letters"   => FrontOffice!LettersTypeOK
  /\ part = "links"     => FrontOffice!LinksTypeOK
  /\ part = "goods"     => BackOffice!ProductsTypeOK
  /\ part = "tree"      => FrontOffice!TreeTypeOK

\* A shopper never has two active carts, whatever is merged, abandoned and
\* started anew, and a cart becomes one order, which says what the cart says
\* (CartService, CheckoutService.confirm).
CartOrderedOnce ==
  /\ part = "carts" => Carts!OneActiveCart
  /\ part = "checkouts" => Checkouts!OneActiveCart /\ Checkouts!CartOrderedOnce
  /\ part = "pages" => Pages!CartOrderedOnce

\* The customer pays what the session showed last, for units set aside for
\* exactly this order (CheckoutService.confirm).
OrderedAsShownAndHeld ==
  /\ part = "checkouts" => Checkouts!OrderedAsShownAndHeld
  /\ part = "pages" => Pages!OrderedAsShownAndHeld

\* The customer pays what the page displayed when its button was pressed
\* (CheckoutFlow, CheckoutService.confirm).
ChargedAsDisplayed == part = "pages" => Pages!ChargedAsDisplayed

\* No unit is given back twice or lost between the sweep, a late look at a
\* session and its confirmation (CheckoutService, InventoryService).
UnitsHeldOnce ==
  /\ part = "checkouts" => Checkouts!UnitsHeldOnce
  /\ part = "pages" => Pages!UnitsHeldOnce

\* Units leave the shelves once, by a shipment or by a cancellation
\* (FulfilmentService).
UnitsLeaveOnce == part = "sales" => BackOffice!UnitsLeaveOnce

\* The order says fulfilled or completed exactly when its shipments do
\* (FulfilmentService).
FulfilmentFollowsShipments == part = "sales" => BackOffice!FulfilmentFollowsShipments

\* A review comes from a purchase that was delivered (ReviewsService.submit).
OnlyVerifiedPurchases == part = "sales" => BackOffice!OnlyVerifiedPurchases

\* A coupon is redeemed within its limits, whichever confirmations race for
\* its last use (PricingService.priceCheckout, redeemCheckoutCoupon).
CouponWithinLimits == part = "prices" => FrontOffice!CouponWithinLimits

\* Discount and tax of the lines add up to those of the order (pricing.ts).
SaleIsExact == part = "prices" => FrontOffice!SaleIsExact

\* A line is received within what was ordered (ProcurementService.receiveGoods).
ReceivedWithinOrder == part = "purchases" => BackOffice!ReceivedWithinOrder

\* The incoming units of a variant are what its orders still wait for
\* (ProcurementService).
IncomingIsOutstanding == part = "purchases" => BackOffice!IncomingIsOutstanding

\* A media row has every object it names (MediaService.completeUpload).
AssetHasItsObjects == part = "uploading" => BackOffice!AssetHasItsObjects

\* One code of the authenticator is accepted once (IdentityService).
EachCodeOnce == part = "staff" => FrontOffice!EachCodeOnce

\* A password reset ends every session begun with the old password
\* (IdentityService.confirmPasswordReset).
ResetEndsSessions == part = "staff" => FrontOffice!ResetEndsSessions

\* A subscription is confirmed by the link of its own consent, and the mail
\* that counts as sent carries the link that works (NotificationsService).
LinksFollowConsent == part = "letters" => FrontOffice!LinksFollowConsent

\* Old addresses of public entities redirect to them, but for those of upserts
\* that acted on what was not true any more and of archived entities that a
\* late publication revived (CatalogService).
LinksNeverBreak == part = "links" => FrontOffice!LinksNeverBreak

\* A product keeps one default variant and its primary category
\* (CatalogService, through the repository and its triggers).
ProductsStayWhole == part = "goods" => BackOffice!ProductsStayWhole

\* Category paths spell the chain of parents (CatalogService.moveCategory).
PathsSpellTheTree == part = "tree" => FrontOffice!PathsSpellTheTree
===============================================================================
