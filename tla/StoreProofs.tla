----------------------------- MODULE StoreProofs -----------------------------
(***************************************************************************)
(* What is proved of the parts of the shop, of the shop: a behaviour that  *)
(* began in a part stays in it, and the invariant of the part holds, for   *)
(* every value of the constants.                                           *)
(***************************************************************************)
EXTENDS Store, TLAPS

StoreInv ==
  /\ part = "carts"     => Carts!CartsInv
  /\ part = "checkouts" => Checkouts!IInv /\ Checkouts!UnitsInv
  /\ part = "pages"     => Pages!IInv /\ Pages!UnitsInv /\ Pages!PageInv
  /\ part = "uploading" => BackOffice!MediaInv
  /\ part = "staff"     => FrontOffice!IInv
  /\ part = "letters"   => FrontOffice!LettersInv
  /\ part = "links"     => FrontOffice!LinksInv
  /\ part = "prices"    => FrontOffice!PricingInv
  /\ part = "goods"     => BackOffice!ProductInv
  /\ part = "tree"      => FrontOffice!TreeInv
  /\ part = "sales"     => BackOffice!SalesInv
  /\ part = "purchases" => BackOffice!PurchaseInv

\* The assumptions of the shop are those of its parts.
LEMMA Hypotheses ==
  /\ Carts!Numbers /\ Checkouts!Numbers /\ Pages!Numbers /\ Pages!Names
  /\ FrontOffice!Separate /\ BackOffice!Named /\ BackOffice!Sold /\ BackOffice!Stocked
  /\ FrontOffice!Numbered /\ FrontOffice!Addressed /\ FrontOffice!Rooted /\ FrontOffice!Payable
  /\ Carts!Sized /\ Checkouts!Sized /\ Pages!Sized /\ FrontOffice!Staffed /\ FrontOffice!Dated
  /\ MaxFaults.uploading \in Nat
<1>1. Carts!IsFiniteSet(Sessions) /\ Checkouts!IsFiniteSet(Sessions) /\ Pages!IsFiniteSet(Sessions)
  BY StoreAssumption DEF CartsAssumption, IsFiniteSet, Carts!IsFiniteSet, Checkouts!IsFiniteSet,
     Pages!IsFiniteSet
<1>2. Carts!Numbers /\ Checkouts!Numbers /\ Pages!Numbers /\ Pages!Names
  BY <1>1, StoreAssumption DEF CartsAssumption, Carts!Numbers, Checkouts!Numbers, Pages!Numbers,
     Pages!Names, Pages!NoForm
<1>3. FrontOffice!Separate /\ BackOffice!Named
  BY StoreAssumption DEF StaffAssumption, GoodsAssumption, FrontOffice!Separate, BackOffice!Named
<1>4. BackOffice!Sold
  BY StoreAssumption DEF SalesAssumption, BackOffice!Sold, IsFiniteSet, BackOffice!IsFiniteSet
<1>5. BackOffice!Stocked
  BY StoreAssumption DEF PurchasesAssumption, BackOffice!Stocked, IsFiniteSet, BackOffice!IsFiniteSet
<1>6. FrontOffice!Numbered /\ FrontOffice!Addressed /\ FrontOffice!Rooted
  BY StoreAssumption DEF LettersAssumption, LinksAssumption, TreeAssumption,
     FrontOffice!Numbered, FrontOffice!Addressed, FrontOffice!Rooted
<1>7. FrontOffice!Payable
  BY StoreAssumption DEF PricesAssumption, FrontOffice!Payable, IsFiniteSet, FrontOffice!IsFiniteSet
<1>8. Carts!Sized /\ Checkouts!Sized /\ Pages!Sized
  BY StoreAssumption DEF CartsAssumption, Carts!Sized, Checkouts!Sized, Pages!Sized
<1>9. FrontOffice!Staffed /\ FrontOffice!Dated /\ MaxFaults.uploading \in Nat
  BY StoreAssumption DEF StaffAssumption, PricesAssumption, UploadsAssumption,
     FrontOffice!Staffed, FrontOffice!Dated, IsFiniteSet, FrontOffice!IsFiniteSet
<1> QED
  BY <1>2, <1>3, <1>4, <1>5, <1>6, <1>7, <1>8, <1>9

\* A step is a step of the part the behaviour is in, and stays in it.
LEMMA Steps ==
  ASSUME [Next]_storeVars
  PROVE  /\ part' = part
         /\ part = "carts" => CartsNext \/ UNCHANGED storeVars
         /\ part = "checkouts" => CheckoutsNext \/ UNCHANGED storeVars
         /\ part = "pages" => Pages!PageNext \/ UNCHANGED storeVars
         /\ part = "uploading" => UploadingNext \/ UNCHANGED storeVars
         /\ part = "staff" => StaffNext \/ UNCHANGED storeVars
         /\ part = "letters" => LettersNext \/ UNCHANGED storeVars
         /\ part = "links" => LinksNext \/ UNCHANGED storeVars
         /\ part = "prices" => PricesNext \/ UNCHANGED storeVars
         /\ part = "goods" => GoodsNext \/ UNCHANGED storeVars
         /\ part = "tree" => TreeNext \/ UNCHANGED storeVars
         /\ part = "sales" => SalesNext \/ UNCHANGED storeVars
         /\ part = "purchases" => PurchasesNext \/ UNCHANGED storeVars
BY DEF storeVars, Next, CartsStep, CheckoutsStep, PagesStep, SalesStep, PricesStep, PurchasesStep,
       UploadingStep, StaffStep, LettersStep, LinksStep, GoodsStep, TreeStep

LEMMA InitStoreInv == Init => StoreInv
<1>1. ASSUME CartsInit
      PROVE  Carts!CartsInv
  <2>1. x4 \in Carts!Amounts
    BY <1>1, StoreAssumption DEF CartsInit, CartsAssumption, Carts!Amounts
  <2> QED
    BY <1>1, <2>1, Carts!InitCarts DEF CartsInit
<1>2. ASSUME CheckoutsInit
      PROVE  Checkouts!IInv /\ Checkouts!UnitsInv
  BY <1>2, Hypotheses, Checkouts!InitIInv, Checkouts!InitUnits DEF CheckoutsInit
<1>3. ASSUME Pages!PageInit
      PROVE  Pages!IInv /\ Pages!UnitsInv /\ Pages!PageInv
  BY <1>3, Hypotheses, Pages!InitPageInv
<1>4. ASSUME UploadingInit
      PROVE  BackOffice!MediaInv
  BY <1>4, BackOffice!InitMediaInv DEF UploadingInit
<1>5. ASSUME StaffInit
      PROVE  FrontOffice!IInv
  BY <1>5, Hypotheses, FrontOffice!InitIInv DEF StaffInit
<1>6. ASSUME GoodsInit
      PROVE  BackOffice!ProductInv
  BY <1>6, Hypotheses, BackOffice!InitProductInv DEF GoodsInit
<1>7. ASSUME SalesInit
      PROVE  BackOffice!SalesInv
  BY <1>7, Hypotheses, BackOffice!InitSales DEF SalesInit
<1>8. ASSUME PurchasesInit
      PROVE  BackOffice!PurchaseInv
  BY <1>8, Hypotheses, BackOffice!InitPurchases DEF PurchasesInit
<1>9. ASSUME LettersInit
      PROVE  FrontOffice!LettersInv
  BY <1>9, Hypotheses, FrontOffice!InitLetters DEF LettersInit
<1>10. ASSUME LinksInit
       PROVE  FrontOffice!LinksInv
  BY <1>10, Hypotheses, FrontOffice!InitLinks DEF LinksInit
<1>11. ASSUME TreeInit
       PROVE  FrontOffice!TreeInv
  BY <1>11, Hypotheses, FrontOffice!InitTree DEF TreeInit
<1>12. ASSUME PricesInit
       PROVE  FrontOffice!PricingInv
  BY <1>12, Hypotheses, FrontOffice!InitPricing DEF PricesInit
<1> QED
  BY <1>1, <1>2, <1>3, <1>4, <1>5, <1>6, <1>7, <1>8, <1>9, <1>10, <1>11, <1>12
     DEF Init, StoreInv

LEMMA NextStoreInv ==
  ASSUME StoreInv, [Next]_storeVars
  PROVE  StoreInv'
<1>1. ASSUME Carts!CartsInv, CartsNext \/ UNCHANGED storeVars
      PROVE  Carts!CartsInv'
  <2>1. CASE Carts!CartNext
    BY <1>1, <2>1, Hypotheses, Carts!CartNextKeeps DEF Carts!CartsKept
  <2>2. CASE StockMoves \/ UNCHANGED storeVars
    <3>1. UNCHANGED <<x1, x2, x3>> /\ (x4' \in [Variants -> Levels] \/ x4' = x4)
      BY <2>2 DEF StockMoves, storeVars
    <3>2. x4' \in Carts!Amounts
      BY <1>1, <3>1, StoreAssumption DEF CartsAssumption, Carts!Amounts, Carts!CartsInv
    <3> QED
      BY <1>1, <3>1, <3>2 DEF Carts!CartsInv, Carts!RendersTyped
  <2> QED
    BY <1>1, <2>1, <2>2 DEF CartsNext
<1>2. ASSUME Checkouts!IInv, Checkouts!UnitsInv, CheckoutsNext \/ UNCHANGED storeVars
      PROVE  (Checkouts!IInv /\ Checkouts!UnitsInv)'
  <2>1. [Checkouts!Next]_(Checkouts!vars)
    BY <1>2 DEF CheckoutsNext, storeVars, Checkouts!vars, Checkouts!cartVars, Checkouts!checkoutVars
  <2> QED
    BY <1>2, <2>1, Hypotheses, Checkouts!NextIInv, Checkouts!NextUnits
<1>3. ASSUME Pages!IInv, Pages!UnitsInv, Pages!PageInv, Pages!PageNext \/ UNCHANGED storeVars
      PROVE  (Pages!IInv /\ Pages!UnitsInv /\ Pages!PageInv)'
  <2>1. [Pages!PageNext]_<<Pages!vars, Pages!pageVars>>
    BY <1>3 DEF storeVars, From9, From11, Pages!vars, Pages!cartVars, Pages!checkoutVars, Pages!pageVars
  <2> QED
    BY <1>3, <2>1, Hypotheses, Pages!NextPage
<1>4. ASSUME BackOffice!MediaInv, UploadingNext \/ UNCHANGED storeVars
      PROVE  BackOffice!MediaInv'
  <2>1. [BackOffice!MediaNext]_(BackOffice!mediaVars)
    BY <1>4 DEF UploadingNext, storeVars, BackOffice!mediaVars
  <2> QED
    BY <1>4, <2>1, BackOffice!NextMediaInv
<1>5. ASSUME FrontOffice!IInv, StaffNext \/ UNCHANGED storeVars
      PROVE  FrontOffice!IInv'
  <2>1. [FrontOffice!Next]_(FrontOffice!vars)
    BY <1>5 DEF StaffNext, storeVars, FrontOffice!vars, From9, From11
  <2> QED
    BY <1>5, <2>1, Hypotheses, FrontOffice!NextIInv
<1>6. ASSUME BackOffice!ProductInv, GoodsNext \/ UNCHANGED storeVars
      PROVE  BackOffice!ProductInv'
  <2>1. [BackOffice!ProductsNext]_(BackOffice!productVars)
    BY <1>6 DEF GoodsNext, storeVars, BackOffice!productVars
  <2> QED
    BY <1>6, <2>1, Hypotheses, BackOffice!NextProductInv
<1>7. ASSUME BackOffice!SalesInv, SalesNext \/ UNCHANGED storeVars
      PROVE  BackOffice!SalesInv'
  <2>1. [BackOffice!ReviewsNext]_<<BackOffice!vars, BackOffice!reviewVars>>
    BY <1>7 DEF SalesNext, storeVars, BackOffice!vars, BackOffice!reviewVars
  <2> QED
    BY <1>7, <2>1, Hypotheses, BackOffice!NextSales
<1>8. ASSUME BackOffice!PurchaseInv, PurchasesNext \/ UNCHANGED storeVars
      PROVE  BackOffice!PurchaseInv'
  <2>1. [BackOffice!ProcurementNext]_(BackOffice!procurementVars)
    BY <1>8 DEF PurchasesNext, storeVars, BackOffice!procurementVars
  <2> QED
    BY <1>8, <2>1, Hypotheses, BackOffice!NextPurchases
<1>9. ASSUME FrontOffice!LettersInv, LettersNext \/ UNCHANGED storeVars
      PROVE  FrontOffice!LettersInv'
  <2>1. [FrontOffice!LettersNext]_(FrontOffice!letterVars)
    BY <1>9 DEF LettersNext, storeVars, FrontOffice!letterVars
  <2> QED
    BY <1>9, <2>1, Hypotheses, FrontOffice!NextLetters
<1>10. ASSUME FrontOffice!LinksInv, LinksNext \/ UNCHANGED storeVars
       PROVE  FrontOffice!LinksInv'
  <2>1. [FrontOffice!LinksNext]_(FrontOffice!linkVars)
    BY <1>10 DEF LinksNext, storeVars, FrontOffice!linkVars
  <2> QED
    BY <1>10, <2>1, Hypotheses, FrontOffice!NextLinks
<1>11. ASSUME FrontOffice!TreeInv, TreeNext \/ UNCHANGED storeVars
       PROVE  FrontOffice!TreeInv'
  <2>1. [FrontOffice!TreeNext]_(FrontOffice!treeVars)
    BY <1>11 DEF TreeNext, storeVars, FrontOffice!treeVars
  <2> QED
    BY <1>11, <2>1, Hypotheses, FrontOffice!NextTree
<1>12. ASSUME FrontOffice!PricingInv, PricesNext \/ UNCHANGED storeVars
       PROVE  FrontOffice!PricingInv'
  <2>1. [FrontOffice!PricingNext]_(FrontOffice!pricingVars)
    BY <1>12 DEF PricesNext, storeVars, FrontOffice!pricingVars
  <2> QED
    BY <1>12, <2>1, Hypotheses, FrontOffice!NextPricing
<1> QED
  BY Steps, <1>1, <1>2, <1>3, <1>4, <1>5, <1>6, <1>7, <1>8, <1>9, <1>10, <1>11, <1>12
     DEF StoreInv

\* The invariant of every proved part holds of the shop.
THEOREM StoreInvariant == Spec => []StoreInv
BY InitStoreInv, NextStoreInv, PTL DEF Spec

-----------------------------------------------------------------------------
\* What the types need beyond the invariants of the parts, and the bounds of lines
\* and prices among them.
StoreFits ==
  /\ part = "carts"     => Carts!CartsFit
  /\ part = "checkouts" => Checkouts!CheckoutFits
  /\ part = "pages"     => Pages!CheckoutFits /\ Pages!MissedTyped
  /\ part = "uploading" => BackOffice!MediaTypeOK
  /\ part = "staff"     => FrontOffice!StaffTypes
  /\ part = "prices"    => FrontOffice!PricingTypeOK
  /\ part = "goods"     => BackOffice!ProductsTyped

LEMMA FitsAreTypes == StoreInv /\ StoreFits => TypeOK
<1> SUFFICES ASSUME StoreInv, StoreFits
             PROVE  TypeOK
  OBVIOUS
<1>1. /\ part = "carts" => Carts!CartTypeOK
      /\ part = "checkouts" => Checkouts!TypeOK
      /\ part = "pages" => Pages!TypeOK /\ Pages!PageTypeOK
  BY Hypotheses, Carts!CartTypes, Checkouts!CheckoutTypes, Pages!CheckoutTypes, Pages!PageTypes
     DEF StoreInv, StoreFits
<1>2. /\ part = "sales" => BackOffice!ReviewsTypeOK
      /\ part = "purchases" => BackOffice!ProcurementTypeOK
      /\ part = "uploading" => BackOffice!MediaTypeOK
      /\ part = "goods" => BackOffice!ProductsTypeOK
  BY DEF StoreInv, StoreFits, BackOffice!SalesInv, BackOffice!PurchaseInv, BackOffice!ProductsTyped
<1>3. /\ part = "prices" => FrontOffice!PricingTypeOK
      /\ part = "staff" => FrontOffice!TypeOK
      /\ part = "letters" => FrontOffice!LettersTypeOK
      /\ part = "links" => FrontOffice!LinksTypeOK
      /\ part = "tree" => FrontOffice!TreeTypeOK
  BY FrontOffice!TreeTypesCorrect
     DEF StoreInv, StoreFits, FrontOffice!StaffTypes, FrontOffice!LettersInv, FrontOffice!LinksInv
<1> QED
  BY <1>1, <1>2, <1>3 DEF TypeOK

LEMMA InitStoreFits == Init => StoreFits
<1>1. ASSUME CartsInit
      PROVE  Carts!CartsFit
  BY <1>1, Hypotheses, Carts!InitCartTypes DEF CartsInit
<1>2. ASSUME CheckoutsInit
      PROVE  Checkouts!CheckoutFits
  BY <1>2, Hypotheses, Checkouts!InitCheckoutFits DEF CheckoutsInit
<1>3. ASSUME Pages!PageInit
      PROVE  Pages!CheckoutFits /\ Pages!MissedTyped
  BY <1>3, Hypotheses, Pages!InitPageFits
<1>4. ASSUME UploadingInit
      PROVE  BackOffice!MediaTypeOK
  BY <1>4, Hypotheses, BackOffice!InitMediaTypes DEF UploadingInit
<1>5. ASSUME StaffInit
      PROVE  FrontOffice!StaffTypes
  BY <1>5, Hypotheses, FrontOffice!InitStaffTypes DEF StaffInit
<1>6. ASSUME PricesInit
      PROVE  FrontOffice!PricingTypeOK
  BY <1>6, Hypotheses, FrontOffice!InitPricingTypes DEF PricesInit
<1>7. ASSUME GoodsInit
      PROVE  BackOffice!ProductsTyped
  BY <1>7, BackOffice!InitProductsTyped DEF GoodsInit
<1> QED
  BY <1>1, <1>2, <1>3, <1>4, <1>5, <1>6, <1>7 DEF Init, StoreFits

LEMMA NextStoreFits ==
  ASSUME StoreInv, StoreInv', StoreFits, [Next]_storeVars
  PROVE  StoreFits'
<1>0. part' = part
  BY Steps
<1>1. ASSUME Carts!CartsInv, Carts!CartsFit, CartsNext \/ UNCHANGED storeVars
      PROVE  Carts!CartsFit'
  <2>1. CASE Carts!CartNext
    BY <1>1, <2>1, Hypotheses, Carts!CartNextFits
  <2>2. CASE StockMoves \/ UNCHANGED storeVars
    <3>1. UNCHANGED <<x1, x2, x3>>
      BY <2>2 DEF StockMoves, storeVars
    <3> QED
      BY <1>1, <3>1 DEF Carts!CartsFit, Carts!LinesFit, Carts!ClaimsTyped, Carts!ViewsTyped
  <2> QED
    BY <1>1, <2>1, <2>2 DEF CartsNext
<1>2. ASSUME Checkouts!IInv, Checkouts!CheckoutFits, CheckoutsNext \/ UNCHANGED storeVars
      PROVE  Checkouts!CheckoutFits'
  <2>1. [Checkouts!Next]_(Checkouts!vars)
    BY <1>2 DEF CheckoutsNext, storeVars, Checkouts!vars, Checkouts!cartVars, Checkouts!checkoutVars
  <2> QED
    BY <1>2, <2>1, Hypotheses, Checkouts!NextCheckoutFits
<1>3. ASSUME Pages!IInv, Pages!PageInv, Pages!CheckoutFits, Pages!MissedTyped,
             Pages!PageNext \/ UNCHANGED storeVars
      PROVE  (Pages!CheckoutFits /\ Pages!MissedTyped)'
  <2>1. [Pages!PageNext]_<<Pages!vars, Pages!pageVars>>
    BY <1>3 DEF storeVars, From9, From11, Pages!vars, Pages!cartVars, Pages!checkoutVars, Pages!pageVars
  <2> QED
    BY <1>3, <2>1, Hypotheses, Pages!NextPageFits
<1>4. ASSUME BackOffice!MediaInv, BackOffice!MediaInv', BackOffice!MediaTypeOK,
             UploadingNext \/ UNCHANGED storeVars
      PROVE  BackOffice!MediaTypeOK'
  <2>1. [BackOffice!MediaNext]_(BackOffice!mediaVars)
    BY <1>4 DEF UploadingNext, storeVars, BackOffice!mediaVars
  <2> QED
    BY <1>4, <2>1, Hypotheses, BackOffice!NextMediaTypes
<1>5. ASSUME FrontOffice!IInv, FrontOffice!IInv', FrontOffice!StaffTypes,
             StaffNext \/ UNCHANGED storeVars
      PROVE  FrontOffice!StaffTypes'
  <2>1. [FrontOffice!Next]_(FrontOffice!vars)
    BY <1>5 DEF StaffNext, storeVars, FrontOffice!vars, From9, From11
  <2> QED
    BY <1>5, <2>1, Hypotheses, FrontOffice!NextStaffTypes
<1>6. ASSUME FrontOffice!PricingInv', FrontOffice!PricingTypeOK, PricesNext \/ UNCHANGED storeVars
      PROVE  FrontOffice!PricingTypeOK'
  <2>1. [FrontOffice!PricingNext]_(FrontOffice!pricingVars)
    BY <1>6 DEF PricesNext, storeVars, FrontOffice!pricingVars
  <2> QED
    BY <1>6, <2>1, Hypotheses, FrontOffice!NextPricingTypes
<1>7. ASSUME BackOffice!ProductInv, BackOffice!ProductInv', BackOffice!ProductsTyped,
             GoodsNext \/ UNCHANGED storeVars
      PROVE  BackOffice!ProductsTyped'
  <2>1. [BackOffice!ProductsNext]_(BackOffice!productVars)
    BY <1>7 DEF GoodsNext, storeVars, BackOffice!productVars
  <2> QED
    BY <1>7, <2>1, Hypotheses, BackOffice!NextProductsTyped
<1> QED
  BY Steps, <1>0, <1>1, <1>2, <1>3, <1>4, <1>5, <1>6, <1>7 DEF StoreInv, StoreFits

\* The rows of carts, sessions, orders, media, staff, products and the rest are what
\* their columns and checks allow, in every part.
THEOREM TypesAreCorrect == Spec => []TypeOK
<1>1. Spec => [](StoreInv /\ StoreFits)
  BY InitStoreInv, NextStoreInv, InitStoreFits, NextStoreFits, PTL DEF Spec
<1> QED
  BY <1>1, FitsAreTypes, PTL

-----------------------------------------------------------------------------
\* CartService, CheckoutService.confirm: an owner has one active cart, and a cart
\* becomes one order, which says what the cart says.
THEOREM OneOrderPerCart == Spec => []CartOrderedOnce
<1>1. StoreInv => CartOrderedOnce
  BY Carts!OneActive, Checkouts!OneActive, Checkouts!OrdersSound, Pages!OrdersSound
     DEF StoreInv, CartOrderedOnce, Checkouts!IInv
<1> QED
  BY <1>1, StoreInvariant, PTL

\* CheckoutService.confirm: an order is what its session showed last and held.
THEOREM OrdersAreShownAndHeld == Spec => []OrderedAsShownAndHeld
<1>1. StoreInv => OrderedAsShownAndHeld
  BY Checkouts!OrdersSound, Pages!OrdersSound DEF StoreInv, OrderedAsShownAndHeld
<1> QED
  BY <1>1, StoreInvariant, PTL

\* CheckoutFlow with its lost answers and reloads, CheckoutService.confirm: what
\* was ordered is what the page displayed when its button was pressed.
THEOREM DisplayedIsCharged == Spec => []ChargedAsDisplayed
<1>1. StoreInv => ChargedAsDisplayed
  BY DEF StoreInv, ChargedAsDisplayed, Pages!PageInv, Pages!Charges
<1> QED
  BY <1>1, StoreInvariant, PTL

\* CheckoutService, the sweep and InventoryService: every unit is available, held
\* by one session or set aside for an order.
THEOREM UnitsAreHeldOnce == Spec => []UnitsHeldOnce
<1>1. StoreInv => UnitsHeldOnce
  BY DEF StoreInv, UnitsHeldOnce, Checkouts!UnitsInv, Pages!UnitsInv
<1> QED
  BY <1>1, StoreInvariant, PTL

\* PricingService.priceCheckout and redeemCheckoutCoupon: a coupon is redeemed
\* within its limits, however confirmations overlap.
THEOREM CouponsStayWithinLimits == Spec => []CouponWithinLimits
<1>1. StoreInv => CouponWithinLimits
  BY DEF StoreInv, CouponWithinLimits, FrontOffice!PricingInv
<1> QED
  BY <1>1, StoreInvariant, PTL

\* calculateCouponEffect, allocateProportionalDiscount, calculateTax and
\* distributeTax: discount and tax reach the lines to the last unit.
THEOREM SalesAreExact == Spec => []SaleIsExact
<1>1. StoreInv => SaleIsExact
  BY DEF StoreInv, SaleIsExact, FrontOffice!PricingInv
<1> QED
  BY <1>1, StoreInvariant, PTL

\* MediaService.completeUpload and deleteAsset: an asset has the objects it names.
THEOREM AssetsHaveObjects == Spec => []AssetHasItsObjects
<1>1. StoreInv => AssetHasItsObjects
  BY DEF StoreInv, AssetHasItsObjects, BackOffice!MediaInv
<1> QED
  BY <1>1, StoreInvariant, PTL

\* IdentityService: a code of the authenticator lets one request pass.
THEOREM CodesAreUsedOnce == Spec => []EachCodeOnce
<1>1. StoreInv => EachCodeOnce
  BY FrontOffice!CodesHaveOneUse DEF StoreInv, EachCodeOnce
<1> QED
  BY <1>1, StoreInvariant, PTL

\* IdentityService.confirmPasswordReset: a reset ends what the old password opened.
THEOREM ResetsEndSessions == Spec => []ResetEndsSessions
<1>1. StoreInv => ResetEndsSessions
  BY DEF StoreInv, ResetEndsSessions, FrontOffice!IInv
<1> QED
  BY <1>1, StoreInvariant, PTL

\* NotificationsService: a link of the newsletter works for the consent it was
\* minted for, and the mail that counts as sent carries the link that works.
THEOREM LinksFollowTheirConsent == Spec => []LinksFollowConsent
<1>1. StoreInv => LinksFollowConsent
  BY DEF StoreInv, LinksFollowConsent, FrontOffice!LettersInv
<1> QED
  BY <1>1, StoreInvariant, PTL

\* CatalogService and its repository: an address that was public leads to its
\* entity, but for the slugs of upserts that acted on what was not true any more
\* and of archived entities that a late publication revived.
THEOREM AddressesNeverBreak == Spec => []LinksNeverBreak
<1>1. StoreInv => LinksNeverBreak
  BY Hypotheses, FrontOffice!AddressesLead DEF StoreInv, LinksNeverBreak
<1> QED
  BY <1>1, StoreInvariant, PTL

\* CatalogService, its repository and triggers: a product keeps one default variant
\* and its primary category.
THEOREM ProductsAreWhole == Spec => []ProductsStayWhole
<1>1. StoreInv => ProductsStayWhole
  BY Hypotheses, BackOffice!ProductIsWhole DEF StoreInv, ProductsStayWhole
<1> QED
  BY <1>1, StoreInvariant, PTL

\* CatalogService.moveCategory: the path of a category is the chain of its parents,
\* within the maximum depth, as long as no two edits of the tree are interleaved.
THEOREM PathsAreSpelt == Spec => []PathsSpellTheTree
<1>1. StoreInv => PathsSpellTheTree
  BY FrontOffice!PathsAreChains DEF StoreInv, PathsSpellTheTree
<1> QED
  BY <1>1, StoreInvariant, PTL

\* FulfilmentService, InventoryService: the units of an order leave once.
THEOREM UnitsLeaveOneWay == Spec => []UnitsLeaveOnce
<1>1. StoreInv => UnitsLeaveOnce
  BY BackOffice!UnitsLeave DEF StoreInv, UnitsLeaveOnce
<1> QED
  BY <1>1, StoreInvariant, PTL

\* FulfilmentService: the order says what its shipments do.
THEOREM OrdersFollowShipments == Spec => []FulfilmentFollowsShipments
<1>1. StoreInv => FulfilmentFollowsShipments
  BY DEF StoreInv, FulfilmentFollowsShipments, BackOffice!SalesInv, BackOffice!ShipmentsInv
<1> QED
  BY <1>1, StoreInvariant, PTL

\* ReviewsService: a review is of an order that was paid for and arrived.
THEOREM ReviewsAreOfPurchases == Spec => []OnlyVerifiedPurchases
<1>1. StoreInv => OnlyVerifiedPurchases
  BY DEF StoreInv, OnlyVerifiedPurchases, BackOffice!SalesInv
<1> QED
  BY <1>1, StoreInvariant, PTL

\* ProcurementService.receiveGoods: receipts stay within what was ordered.
THEOREM ReceiptsFitOrders == Spec => []ReceivedWithinOrder
<1>1. StoreInv => ReceivedWithinOrder
  BY DEF StoreInv, ReceivedWithinOrder, BackOffice!PurchaseInv
<1> QED
  BY <1>1, StoreInvariant, PTL

\* ProcurementService: the units on their way are those the orders still bring.
THEOREM IncomingAddsUp == Spec => []IncomingIsOutstanding
<1>1. StoreInv => IncomingIsOutstanding
  BY DEF StoreInv, IncomingIsOutstanding, BackOffice!PurchaseInv
<1> QED
  BY <1>1, StoreInvariant, PTL
=============================================================================
