# Honey shop: a formal model

TLA+ modules, TLC runs and TLAPS proofs for the backend of the Honey shop
(`src/packages/backend`, with the worker in `src/apps/worker`). The definitions are
translated from the source at the lines `PROJECT.json` ("map") names for each.

## The system

A web shop: a Next.js storefront and a NestJS API over application services, each with
its own tables in PostgreSQL; a worker that dispatches the transactional outbox and runs
scheduled jobs (BullMQ on Redis); an external payment provider. Services keep no state
between requests: what persists is rows, and a request is one or several transactions
(READ COMMITTED, rows locked with `FOR UPDATE`), possibly with a call to another system
between them. The interesting interleavings are therefore those of whole transactions,
with whatever a process carries in memory from one to the next.

| Component | State | Operations | Hard behaviour | What makes it correct |
|---|---|---|---|---|
| Inventory | counters per variant and location, ledger, reservations, low-stock latch | adjust, receive, movements of other services, acquire, release, extend, consume, sweep, planning, locations | sweep's stale list and clock, operations on the same rows, latch over a history | counters = ledger = rows; no unit promised twice; a hold ends once and in the end |
| Inventory reconciliation | none of its own | compare and repair | three reads that are no snapshot | a repair makes item and ledger agree |
| Payments and refunds | payments, attempts, transactions, provider events, refunds, idempotency keys, order's payment status and refunded total | start, verify return, webhook, reconcile, sweep, refund | crash between claim, call and record; duplicate, late, reordered and mismatching outcomes; a sweep that gives up; racing refunds | only captured money is recognised, once, for good, and eventually; never refunded above what was paid |
| Outbox and worker | outbox rows with leases, jobs in Redis, job failures | claim, enqueue, mark, release, quarantine; run, retry, give up | lost leases, crash after enqueue, refused calls | one job for a committed event, before its mark; everything settles |
| Notifications | delivery rows with leases, newsletter subscriptions and links | claim, send, finish; consent, confirm, unsubscribe | a claim outlived by its holder; a mail prepared twice | duplicates only in known windows; the mail that counts carries the link that works |
| Cart | carts, lines, add keys, coupon | add, set, clear, coupon, merge, render, abandon | merge at sign-in, repeated keys, stale clamps | one active cart, ordered once |
| Checkout | sessions with holds, quotes, confirmation keys | start, look, select, confirm, expire | stale prices, expiry racing confirmation, keys | the order is what was shown, for units held for it |
| Web storefront | the checkout page and its session storage | open, submit, confirm, reload | lost and late answers | the customer pays what the page displayed |
| Orders, fulfilment, reviews | orders, shipments, allocated units, reviews | create, dispatch, deliver, cancel; submit, moderate | cancel against dispatch, refunds in between | each consumed unit leaves once; reviews come from deliveries |
| Pricing | prices, tax rates, coupons and their uses | price, allocate, tax, redeem | rounding, racing for the last use | parts sum to the whole; limits hold |
| Procurement | purchase orders, receipts | edit, submit, confirm, cancel, receive | partial and repeated receipts | stock and incoming units follow the orders |
| Media | upload intents (Redis), objects, asset rows | intent, complete, delete | failure at any step, three stores | an asset has its objects |
| Identity | credentials, challenges and step-ups (Redis), sessions, reset tokens | sign in, step up, sign out, reset | two requests with one code, reset against sign-in | a code counts once; a reset ends what came before |
| Catalog | translations, slug history, category tree, products | upsert, publish, move, default variant, categories | reads outside the transaction, triggers that see committed rows | links last; paths spell the tree; products stay whole |
| Content, sourcing, shipping settings, admin payments | their own rows, or none | edits and views | - | - |

Interactions: checkout calls the cart (lock), pricing, inventory (acquire, extend,
assert, consume) and orders in its own transaction; fulfilment and procurement call the
inventory's movement operations in theirs; payments write the order's statuses; reviews
look up delivered shipments; every service appends outbox rows in its transaction; the
worker dispatches them and schedules the reservation sweep, the payment reconciliation and
the inventory's dry run; the storefront reaches the API through its BFF.

`PROJECT.json` lists, under "hazards", what in this code is hard to test, each at its
line, with the properties that cover it or the reason none does.

## Modules

| Module | Contents |
|---|---|
| `Inventory` | the inventory service: one action per transaction |
| `StockPromise` | abstract specification: what the inventory promises sessions and orders |
| `MCInventory` | instances for TLC: `Holds`, `Stock`, `Expiry`, `LowStock` |
| `InventoryProofs` | the inductive invariants of `Inventory` (its books; the life of a hold), their theorems, and that it implements `StockPromise` |
| `SumTheorems` | what sums over finite sets are and how they change, for the proofs about amounts |
| `InventoryReconciliation`, `MCInventoryReconciliation` | the repairing reconciliation next to movements, for one item |
| `Payments` | payments, their sources of outcomes, the sweep, refunds |
| `MCPayments`, `MCPaymentsParts` | instances for TLC: liveness of the sweep (`Sweep`, `Stranded`), and two safety instances in one run |
| `PaymentsProofs` | the inductive invariants of `Payments` (outcomes; refunds) and its theorems |
| `Outbox` | dispatchers, the outbox table, the queue and the dead letters |
| `OutboxPromise` | abstract specification: what the outbox promises its writers |
| `Delivery` (extends `Outbox`), `MCDelivery` | the mail and cache processors, the whole system and its fairness |
| `DeliveryProofs` | `Delivery` implements `OutboxPromise`, and copies of mails need windows, for every instance |
| `Cart` | carts of one customer, as guest and as user |
| `Checkout` (extends `Cart`) | checkout sessions, their holds, confirmation and orders |
| `CheckoutProofs` | the inductive invariants of carts, sessions, units and the page, and their theorems |
| `CheckoutPage` (extends `Checkout`), `MCCheckoutPage` | the page of the storefront over the sessions, with lost and late answers |
| `Fulfilment` | one order from payment to delivery or cancellation |
| `Reviews` (extends `Fulfilment`) | reviews of what was delivered |
| `Pricing` | prices in force, coupons, and the arithmetic of discount and tax |
| `Procurement` | purchase orders and goods receipts |
| `Media` | uploads over Redis, object storage and the database |
| `Identity` | staff sign-in, step-up, sessions, password reset |
| `Newsletter` | double opt-in of one address and the mails that carry its links |
| `CatalogLinks`, `CategoryTree`, `Products` | three protocols of the catalog |
| `BackOfficeProofs` (extends `Media`, `Products`, `Reviews`, `Procurement`) | the inductive invariants of uploads, products, shipments with reviews, and purchases |
| `FrontOfficeProofs` (extends `Identity`, `Newsletter`, `CatalogLinks`, `CategoryTree`, `Pricing`) | the inductive invariants of sign-ins, letters, addresses, the tree and prices |
| `Store` | twelve instances of the modules from `Cart` on, side by side |
| `StoreProofs` | what is proved of the parts, for `Store` |
| `MCStore` (extends `Store`) | the values of `Store`'s constants for TLC |

Every property has a mutant ("mutants" in `PROJECT.json`): an operator in front of the one
it stands in for, with a plausible bug; TLC finds the property violated when it does.

### Inventory

The state is what the rows say: `onHand`, `reserved`, `allocated` and `incoming` per key
(variant and location), `reorderPoint`, `sellable` and `defaultLocation`, the latch
(`alert`), the reservations (`status`, `quantity`, `createdAt`, `expiresAt` of each row: a
session, a key and a generation, since a session may acquire again) and `ledger`; `now` is
the time, `listed` and `listedAt` what each sweep carries in memory. An action is
one transaction: its guard is the conjunction of the conditions the service checks before
it writes (every failed check rolls the transaction back, so it is a step that does not
happen), its effect is every write, the latch's evaluation included. The ledger is kept
as its sums by reason: `Post` appends a movement, `Projection` is the reduction the code
compares the counters with. The expiry sweep is two actions, `SweepList` outside the transaction
and `SweepExpire` inside it, with whatever happens between; it may be abandoned and run
again. Clocks are read before locks are taken, so an operation may use a `RecentTimes`
value older than the present.

The latch is evaluated at the end of a transaction, from every item of its variants, while
a movement has locked only the items it moves and the database shows each query what is
committed when it runs. `EvaluateLowStock` is therefore of two kinds. `EvaluateAtOnce` is a
transaction nobody commits anything beside. `EvaluateAsRead` is one others overtake: before
its commit come `ReadAvailability` (the items it has locked from then on, the units,
reorder points and sellable locations it sees) and `ReadLatches` (the latches and sellable
locations its second query sees), kept in `views`, with any steps of others between them
that the locks let through (`Unlocked`); of its own items the evaluation sees what it wrote
itself. It may also fail (`RollBack`). Every operation that evaluates the latch has both
kinds, as one of `Evaluations`. So two movements of one variant at two locations, each
evaluated on the other's old units, leave the variant low with its latch off; an old view
can clear the latch as well. `LowStockNoticed` excepts exactly that (`Overtaken`): an item
read without a lock, or a location, that changed before the commit. Without the exception
TLC finds this race, although `docs/inventory-development.md:143-144` promises the event
without one; it is listed as a hazard.

Abstractions: every item row exists from the start (the code inserts it when it first
locks it); an acquisition that is overtaken allocates by the location settings at its
commit, and its writes before the evaluation's reads are part of the commit, since the locks
taken with the first read keep what they depend on; the optimistic `version` is left out, an edit with a stale version being a step
that does not happen; audit and outbox rows are left out, and with them the oversell
event that the code loses by rolling it back; `createLocation` is the first
`UpdateLocation`; both callers of the sweep use one `BatchSize`. The database's CHECK
constraints on the counters are not assumed, except in `Repair`: the properties follow
from the application's guards.

### Payments

The state is the payment's row (`status`, `orderOf`, `createdWith`, `ref`: whether the
provider's reference has been stored), its transactions (`captures`, `txnRefs`), the
order's statuses and refunded total, idempotency claims, provider events, refunds; what
each process holds in memory between transactions (`requests`, `held`, `todo`, `work`,
`seen`); and the provider's own truth (`money`, `sessions`). The program never reads the
latter except through an answer, and that is what the properties compare it with.

`start` is `ReplayStart`, `ResumePayment` or `CreatePayment`, then `ClaimCreate`, the
provider's call and `SetProviderRef` or `MarkCreateFailed`; `RequestStops` is a crash (or
a failing transaction) at any of these points. `ApplyPaymentOutcome` is the one entry
point of outcomes: a reference that is not stored is an error, a mismatch leaves the
payment, `DecideTransition` is the transition table, a transaction reference seen before
is ignored. Returns and single reconciliations (`Verify`, `ApplyVerified`), webhooks
(`ReceiveWebhook`, `ProcessEvent`, `MarkEventProcessed`) and the sweep (`SweepList`,
`SweepAsk`, `SweepApply`, `SweepFails`) obtain an answer in one step and apply it in
another, so that answers are late, repeated and reordered. A refund claims its amount,
calls the provider and records the outcome; a completed one is two steps, as the
order's refunds are summed from committed rows before the order is written, while the
payment's row is locked by the trigger `refund_remaining_cap`. That the same trigger also
refuses a sum above the payment is not assumed; `order_refund_cap`, which rolls a sum
above the order's total back, is.

The provider is external: it may authorize before it captures, it may decline, and it
answers what is the case. Two things its adapters do matter: a return that nobody has
paid for yet is answered FAILED (`EarlyFailures`: Zarinpal's verify answers so, its
inquiry does not), and an answer may not match the payment's amount or currency
(`Matching`). A reversal of captured money is not modelled.

Abstractions: FAILED stands for FAILED, CANCELLED and EXPIRED; attempts, alerts, audit and
outbox rows are left out; a replayed refund key changes nothing and is left out; every
payment is old enough for the sweep; all orders have one total; of the order only the
statuses that payments write are kept.

### Outbox and delivery

`event` is the outbox row with its claim token and lease, `batch` and `step` what a
dispatcher holds in memory and where in its loop it is, `job` the BullMQ job (its
identifier is derived from the event, so adding it twice does nothing), `failures` the rows
of `job_failure`, `run` a processor with its job, `delivery` the row of
`notification_delivery`, `mails` what the SMTP server accepted. Every await of
`OutboxDispatcher` and of `NotificationsService.deliver` ends an action: the call succeeds,
or is refused with its effect done or not (`EnqueueThrows`, `MarkThrows`, `SendThrows`,
`FinishThrows`, ...), or the process dies (`DispatchStops`, `ProcessorDies`). A fault costs
one of `MaxFaults`. Time is left out: a lease is a flag that the clock clears at any
moment; cleared while its holder lives it is a fault too.

Abstractions: routing is a choice of kind per event instead of payload shapes; back-off may
be of any length; finished jobs are kept, so a deterministic identifier is never used
again; the dead-letter record has one class.

### Cart, Checkout, CheckoutPage

`Cart` has the rows of carts with their lines, the claims of add keys and the views being
rendered (`renders`: a view reads, then clamps in a transaction of its own). A request that
carries both identities merges first; the merge is an action of its own, since what
follows is what the user's request alone does. `Checkout` adds sessions (a session is
named by its initiation key), confirmation keys, orders and the units held: `Start`
reserves, `Expire`, `SweepHold` and `ExpireOnAccess` give back, `ConfirmOrdered` consumes
and converts the cart, `ConfirmRepriced` answers PRICE_CHANGED. A price is a version, the
shipping charge included. Holds come due at any moment, so their one extension is no step.

`CheckoutPage` adds one tab: what the page shows, its storage (a session, the key of the
start, the key of the confirmation, each possibly refused by the browser), the request
under way and what the API has not served yet. The BFF gives up after a timeout
(`AnswerLost`), and the request may be served afterwards or never (`RequestLost`).
`ChargedAsDisplayed` excepts sessions priced again by a request nobody got the answer of
(`missed`): the API compares with what it stored, not with what was displayed. Two more
things can be seen in the module: a start whose answer is lost keeps its key, and the form
edited afterwards is refused in this tab for ever; a resumption that fails for a moment
forgets an open session, whose units stay held until it expires.

### Fulfilment, Reviews

One order with its consumed reservations (`alloc` of a shipment says how many units of
each), the units its items have allocated for it and for others, and the refunds that may
interfere. Every operation locks the order first, so it is one step. `Requests` are the
quantities staff may ask for, `Allocation` draws them from the reservations in order.
`Reviews` adds a customer who looks a purchase up and submits later.

### Pricing

`SaleIsExact` is about functions, checked over bounded inputs at each `PriceCheckout`:
`CouponEffect`, `Allocation` (the rest goes to the paying lines in their order) and
`TaxShares` (largest remainders) against what they must sum to and how far a share may be from the exact one (`WithinOneUnit`). Percentages are in
tenths instead of basis points of ten thousand, with the same rounding; a coupon without a
cap has one above every price; a region without a tax rate is an error of the checkout.
Redemption happens inside a confirmation that locks the coupon.

### Procurement, Media, Identity, Newsletter

`Procurement`: orders of one variant at one location with two lines, one of which may be
untracked. `ReceivedWithinOrder` and `IncomingIsOutstanding` except orders one of whose
receipts names a line twice (`NamedTwice`): each entry is compared with what was missing
before the receipt, so such a receipt passes above what was ordered.

`Media`: a completion is a row of steps over three stores, each of which may fail, with the
compensation the code does (`TakeBack`); a process may die between any two. `unsure` are
uploads whose insert was committed and its answer lost: the compensation takes the objects
of a row that exists, so they are excepted. Objects nobody refers to are not a violation.

`Identity`: a code is the time step it is valid for; requests read, compare and write in
separate steps. A sign-in whose password was compared before a reset and whose session is
created after it survives the reset (`overtaken`): the property excepts it.

`Newsletter`: the number of a run is its token and its lease, both of which the code mints
per run.

### Catalog

`CatalogLinks` (one locale, one kind of entity per behaviour) and `CategoryTree` model edits
that read before they write and lock nothing; `Products` edits that check outside their
transaction. The triggers and unique indexes of the database are part of the models and see
what is committed. In `CatalogLinks` an upsert reads the status of its entity, checks the
history and writes in three steps, and a publication or an archiving checks ARCHIVED in one
step and writes its status in another, so that a late publication can undo an archiving.

`LinksNeverBreak` excepts single slugs (`disputed`): those an upsert wrote about, replaced or
remembered when what it had read of them was not true any more (`UpsertMistaken`: the slug was
remembered for another entity since, the slug to remember is not the present one, or the
entity became public), and those of an archived entity that is published again (`Revives`),
since renaming it while it was archived remembered nothing. Without either exception the
property fails, and docs/seo-strategy.md:21, 51-53 knows none. All other slugs, of the same
entity too, stay covered. `PathsSpellTheTree` and `ProductsStayWhole` except behaviours in
which an edit wrote after what it had read changed (`interleaved`, `overtaken`): without the
exception each fails. Of a publication's completeness only the translation is kept. Nothing
returns to DRAFT: the services' types and routes offer PUBLISHED and ARCHIVED only
(`catalog.service.ts:554`).

## Runs

| Run | Bounds | Shows |
|---|---|---|
| `inventory_holds` | 1 variant at 2 locations of one unit each, 2 sessions of up to 2 units, a sweep with batches of one, times 0 to 3, clocks late by up to 1 | counters, ledger and rows agree; a hold ends once; `KeepsPromise` |
| `inventory_stock` | 1 variant at 2 locations with one unit each at most, adjustments by 1, one unit on order, 1 session, 2 edits of one location, 1 evaluation that others overtake, no time passing (`MaxTime = 0`: a hold ends by release, consumption or extension only) | `NoOversell`, `LowStockNoticed` |
| `inventory_expiry` | 2 locations, 1 session that acquires twice (2 generations), batches of one, times 0 to 2, fair sweep | one hold at a time; `ExpiredHoldsAreReleased` |
| `inventory_low_stock` | 1 location, up to 3 units, reorder points 0 and 2 | violation of `StockLowOnCrossing` |
| `inventory_reconciliation` | one item, one repair, movements | violation of `RepairKeepsItemsOnLedger` |
| `payments` | "starts": 1 order, 2 payments, 2 keys, 2 requests, 1 verifier, sweep of one, two-stage provider, early failures, mismatches; "refunds": 1 payment of 3 units, 3 refunds of 1 to 3, 1 verifier, 1 webhook, outcomes without references | the safety of outcomes, of starting and of refunds; `RecognitionIsFinal` |
| `payments_sweep` | 2 orders with a payment each, batch of 2, failing sweeps | `SettledIsRecognised` |
| `payments_stranded` | 1 payment, early failures, fair sweep | violation of `NoPaymentStranded` |
| `delivery` | 2 events, 2 dispatchers, 2 processors, batch of 2, 2 tries, 1 stall, 2 faults | the refinement, alerts, duplicates, `EventsSettle` |
| `mail_lost` | the instance of `delivery` | violation of `CompletedIsSent` |
| `checkout_retry` | 1 session, a price change, 1 fault | violation of `InProgressIsInProgress` |
| `store` | twelve parts, below | the safety of all the other components |

The parts of `store` share no variables, and `Store` is their disjoint sum: the variables
`x1` to `x14` stand for those of the part the behaviour began in (`part`), and a property
speaks of its part alone. A part is an instance of the module of its proofs where there is
one, so that its theorems can be cited of the part; uploads, goods, sales and purchases are four
parts over one such instance, and the names of their modules (`MediaInit`, `ProductsInit`, ...) are
told apart for it. `MCPaymentsParts` chooses between two instances of `Payments` over the
same variables and properties.

| Part | Bounds |
|---|---|
| carts | 1 variant, lines up to 2, 2 carts, 1 repeated key, 1 view at once, stock that moves between 0 and 2 |
| checkouts | 2 sessions, 1 confirmation key, 2 units, 2 price versions |
| pages | 2 start keys, 2 confirmation keys, 2 forms, 1 fault, storage open or blocked |
| sales | 2 lines from 3 reservations, 3 shipments, 2 refunds, 1 product |
| prices | 2 orders of a user and one of a guest, a coupon of each kind, 3 lines, limits 2 and 1 |
| purchases | 2 orders, 2 lines, one untracked, 2 receipt keys |
| uploading | 1 upload, 2 completions, 2 objects, 2 faults |
| staff | 2 sign-ins, 2 completions, 1 step-up, 1 reset token, 2 time steps, 2 attempts, no drift |
| letters | 2 consents, 3 runs |
| links | 2 entities, 2 slugs, 2 edits |
| goods | 2 variants, 2 categories, 2 edits |
| tree | 4 categories, depth 3, 2 edits |

The names a part does not tell apart (sessions, keys, forms, entities, slugs, edits, orders,
...) are interchangeable in `MCStore`: only invariants are checked there, and no
definition chooses among them.

Why these bounds are enough to be interesting: a property that fails for want of a guard
here fails with two actors on one row, one of them stale, and every run has at least that.
Two keys and two requests are what it takes to race for one payment; a third refund is
what it takes for two claims to be outstanding while another completes; two payments and a
batch of two let a stuck payment stand before a settled one; two faults let a compensation
or a retry fail as well; a third mail run is late for both others; four categories let two
moves form a cycle. Bounds of units, quantities and times (`MaxUnits`, `MaxIncoming`,
`MaxQty`, `MaxTime`, `MaxHold`, `MaxPrice`, `MaxFaults`, ...) stand in guards of the modules
and only cap what grows. `CHECK_DEADLOCK FALSE` stands where a bounded instance may run out
of things to do. The type invariants of `Payments` and `Outbox`/`Delivery` hold on the
instances of `payments` and `delivery` too; what the proofs need of them is proved.

### What the violations say

- `StockLowOnCrossing`: the guide says crossing into `LOW_STOCK` emits `stock.low` once
  until the variant returns to `IN_STOCK`. An edit of the reorder point is not evaluated, so
  the latch may stay on while the variant is in stock, and the next crossing is silent.
- `RepairKeepsItemsOnLedger`: the repair writes what three separate reads added up to;
  a movement between them is written out of the item.
- `NoPaymentStranded`: a payment marked FAILED by an early return leaves the list of the
  reconciliation, and what the provider captures afterwards is found only by another
  return. The transition table would recover it; nothing asks. With a provider
  that authorizes and captures under one transaction reference, the property fails in a
  second way: the capture is taken for a duplicate of the authorization.
- `CompletedIsSent`: after a mail that failed and a release that failed too, the retries find
  the delivery leased, complete without sending, and nothing looks for the delivery again.
- `InProgressIsInProgress`: PRICE_CHANGED commits the claim of the confirmation key without
  completing it; when its answer is lost, repeating the key is answered "in progress" until
  the key expires.

Seen while modelling, and not properties: two payments of an order can both be paid
(the first recovers after the second succeeded); then the completed refund of the second
breaks `order_refund_cap` after the provider has paid it back, and a late recovery sets a
refunded order to PAID. This is why `RefundBooks` speaks of orders with one paid payment.
The page never shows that its cart is blocked, as the API answers VALIDATION_FAILED where
the page expects CHECKOUT_CART_EMPTY. An order nobody pays for keeps its units.

### Fairness

`SweepFairness` of the inventory and of the payments: the worker registers both sweeps as
repeating jobs with retries (`runtime.ts`, `#registerSchedules`), so a listing always
happens again (weak fairness), and its steps, which crashes interrupt, are taken if
possible again and again (strong fairness). For payments it is assumed per payment: the
provider does not refuse the same payment whenever its turn comes. The code needs that,
since a call that throws gives up the rest of the batch. Customers and requests have no
fairness. Liveness also needs a batch with room for a payment of every order: with a
smaller one `SettledIsRecognised` fails, payments without a reference staying at its
head for ever.

`Fairness` of `Delivery`: each dispatcher goes on with its batch and claims the next
(`outbox.dispatch` is a repeating job), each processor goes on with its job and takes the
next, and what takes its turn by the clock (leases of the dead, the check for lost locks,
the reconciliation of dead letters) does. All of it is weak fairness; faults are finite and
never forced, and `EventsSettle` says that again and again nothing is left to do. The
remaining modules state safety only and have no fairness.

## Refinement

`OutboxPromise` is what a service that appends to the outbox relies on: two variables per
event, its mark and its work. `Delivery!RefinesPromise` is `OutboxPromise!Spec` under
`mark <- phase of the row` and `work <- WorkOf(state of the job)`: claims, leases, batches,
tries, stalls and deliveries disappear. TLC checks it on the instance of `delivery`, and
`DeliveryKeepsPromise` proves it for every instance.

`StockPromise` is what a checkout relies on: per key the units on the shelves, held by each session
and allocated to orders. `Inventory!KeepsPromise` is `StockPromise!Spec` under `units <- onHand`,
`ordered <- allocated` and `held <- HeldUnits`, the units of each session's ACTIVE rows: `reserved`,
the ledger, generations, deadlines, lists and the latch disappear. A hold may be taken only from
what is free before anything of the session is given back, an order takes all its session held at
that moment, and a sweep only gives back. TLC checks it on the instance of `inventory_holds`, and
`PromiseIsKept` proves it for every instance.

## Proofs

Each proof module extends the module it is about and assumes nothing but that module's
named ASSUME, which TLC evaluates on the instances. Modules that a run only instantiates have
none; what their proofs need of the constants is a hypothesis of the theorems: in
`FrontOfficeProofs` `Separate` (requests of different kinds are different, steps are numbers),
`Numbered` (the bounds on requests and runs are numbers), `Addressed` (what stands for no entity
and no slug is neither), `Rooted` (the root is no category, the maximum depth is a number) and
`Payable` (lines and confirmations are finitely many, lines are numbered, quantities, amounts, rates, limits and
the coupons' values are numbers, there is a basis point) with, for the types, `Dated` (windows
lie within the time there is) and `Staffed` (tokens are finitely many, there are steps and
attempts); `Numbers`, `Names` and, for the types, `Sized` in `CheckoutProofs` (bounds and stock
are numbers, there may be a cart and a unit of a line, sessions are
finitely many, and what stands for no key and no form is neither), and in
`BackOfficeProofs` `Named` (the name for no variant and no category is neither), `Sold`
(reservations and shipments are finitely many, reservations are numbered, units are numbers) and
`Stocked` (orders, lines and receipts are finitely many, units are numbers, the name for no order
is none, receipts are sequences of entries for lines). `StoreAssumption` of
`Store` is the conjunction of these for the parts (`Hypotheses` in `StoreProofs`), and TLC
evaluates it in the run `store`.

`StoreProofs`, for every value of the constants of the parts: `Spec => []` of `TypeOK`,
`CartOrderedOnce`, `OrderedAsShownAndHeld`, `ChargedAsDisplayed`, `UnitsHeldOnce`,
`UnitsLeaveOnce`, `FulfilmentFollowsShipments`, `OnlyVerifiedPurchases`, `ReceivedWithinOrder`,
`IncomingIsOutstanding`, `CouponWithinLimits`, `SaleIsExact`, `AssetHasItsObjects`, `EachCodeOnce`, `ResetEndsSessions`,
`LinksFollowConsent`, `LinksNeverBreak`, `ProductsStayWhole` and `PathsSpellTheTree` as the run
checks them. A behaviour stays in the part it began in (`Steps`), and `StoreInv` says that the
invariant of that part holds; the lemmas that a step of a part keeps its invariant are cited from
the instance. `TypeOK` takes a second invariant (`StoreFits`) of what the types say and nothing else
needs: a line never exceeds `CART_MAXIMUM_LINE_QUANTITY`, whichever way it got there (added to,
clamped by a view, merged with a guest's); a challenge that is open has an attempt left; a session
that counts as missed exists.

`InventoryProofs`, for every finite set of variants, locations and sessions, every
quantity bound and batch size: `InventoryTypeCorrect`, `LedgerCorrect`, `NeverOversold`,
`ReservedCorrect`, `AllocatedCorrect`, `Spec => []` of `TypeOK`, `LedgerProjectsCounters`,
`NoOversell`, `ReservedAreActiveHolds`, `AllocatedAreConsumedHolds`. They follow from
`InventoryInvariant`, `Spec => []IInv` with `IInv == TypeOK /\ Books`. None is inductive
alone: a release is safe for `NoOversell` only because what it takes out of `reserved` is
what the rows put in, and consumption moves units between counters that two of the
properties tie to the rows. `Books` is their conjunction. The sums over rows are counted as
cardinalities of sets of unit tokens, one token per unit of a row: what an operation adds to
or takes out of the rows is a set difference, and the theorems about finite sets give the
arithmetic. Actions that post twice on one key (the expiry of a session's old rows followed
by new ones) use a lemma about two successive postings.

Of the same constants: `OneHold` and `EndsOnce`, `Spec => []OneHoldPerSession`
and `Spec => HoldsEndOnce`. The first is inductive with `TypeOK`. Every action either only
ends rows (`OnlyEnds`), dates the rows of one session together, or begins a generation of a
session whose older rows it ends first. That nothing expires early needs one more conjunct, for
the sweep reads the clock long before it writes: the time a sweep works with has passed
(`ListedInThePast`).
`DropsAreNoticed`, `Spec => LowStockNoticed`, compares two sums of one variant over its
locations: an action that lowers the sum has written one of the variant's items, and whoever writes an
item evaluates the latch of its variant. Alone, it evaluates what it leaves. Overtaken, it may have
read something else; the invariant `LockedAsRead` says that at least of its own items the reorder
points and the latches are still what it read, since every step of another keeps off
locked items (`StepKeepsLocks`), and their units are those it leaves itself. If what it read without a lock is still true as well, then what it
saw is what it leaves (`EvaluationIsNoticed`), and otherwise the exception of the property holds.
`PromiseIsKept`, `Spec => KeepsPromise`, maps every step to one of `StockPromise` or a stutter. What
is free there is what the counters say, because `reserved` counts the units of the ACTIVE rows and
these split by session (`UnitsBySession`, `FreeIsAvailable`). That an order takes all its session held needs
`OneHoldPerSession`: with two generations of rows, one could be due and given back in the
transaction that consumes the other.

`PaymentsProofs`, for every set of orders, payments, keys, requests, verifiers, provider
events and refunds, every provider of either kind, matching or not: `PaidCaptured`,
`CapturedOnce`, `OrderFollows`, `OneUnderWay`, `Spec => []` of `PaidIsCaptured`,
`OneCapture`, `OrderFollowsPayments`, `OnePaymentUnderWay`. They follow from
`PaymentsInvariant`. What has to be added to them: a matching PAID answer that is held or
stored was once true, and captured money stays so, which makes late and reordered answers
harmless (`AnswersAreTrue`); a request that has claimed a creation is alone with a PENDING
payment without a reference, whose session has not been opened before the call (`OneCreates`,
`OneSession`); an outcome applies only to payments with a reference (`CreatedForOrder`);
two payments under way of one order are the same (`OneActive`); a refund under way is of a
recognised payment (`RefundsOfPaid`). The application of an outcome is one lemma, whichever
of the four sources it comes from.

`RefundsWithin`, `RefundBooksBalance` and `RecognitionFinal`, `Spec => []` of
`RefundsWithinPayment` and `RefundBooks` and `Spec => RecognitionIsFinal`, need a second invariant
(`RefundsInvariant`): a completed refund holds its payment's row until the order is written
(`OneWriter`), so that of an order with one paid payment no other refund completes between the
sum and the write, and what was summed is what will be written (`SumInHand`); a payment is REFUNDED
only when its completed refunds are the whole of it (`RefundedIsWhole`), which is why a later
synchronisation can not find less.

`SumTheorems` is about `SumFunctionOnSet`, which picks the elements of a finite set one by one:
the sum does not depend on the order, an element can be taken out, put in or exchanged
(`SumExchange`), a function that is nowhere greater has no greater sum, sums add up (`SumPlus`), and
a sum is that of the sums of its groups (`SumOfGroups`). The statements about every finite set are proved by a least
counterexample: among the sets on which one fails there is one with no other within it
(the library's well-founded orders), and taking one element out of it gives a smaller one.
`PortionsSum` is about dividing: whole parts, and one unit more for as many as are missing in
a total order of the receivers, sum to the whole, and each is within one unit of its exact part. It needs that the elements before an element count from 0 up
without a gap (`Ranks`) and that the fractions that were cut off sum to less than the number of
elements that have one (`SumSupport`).

`DeliveryProofs`, for every finite set of events, any dispatchers and processors, batch
sizes and bounds: `DeliveryKeepsPromise`, the refinement, and `UnsupportedAlerted`. The
invariant says that a token proves its row is pending, that a batch holds committed events,
that a job is of a committed event of a kind that has one and exists before the mark,
that a dispatcher about to confirm has its job in the queue and one about to quarantine its
record in `job_failure`. Each action is then shown to map to a step of `OutboxPromise` or
to leave mark and work alone. Fairness plays no part in it.
`CopiesNeedWindows`, `Spec => []DuplicatesOnlyInWindows`, is about a debt: the mails of an event
beyond those its delivery row accounts for, at present and at most one in the hand of each
processor. Only who holds the newest claim token can record an outcome (`Fenced`), a step that adds to
the debt of an event counts a window, and the debts of all events sum to at most the windows
(`DebtsAreWindows`).

`CheckoutProofs`, for every number of carts, sessions, keys, variants and units: `OneCart`,
`OrderedOnce`, `ShownAndHeld`, `Spec => []` of `OneActiveCart`, `CartOrderedOnce`,
`OrderedAsShownAndHeld`. Active carts of one owner are equal (`OneEach`), and every operation of a
cart yields rows that are `Sound`: still one active cart each, and converted carts are not
written. With that an order can be compared with its cart for good, and it stands
because its session waits for payment with its hold consumed, which nothing expires or gives
back (`OrdersStand`). The new cart is the least free row; that a set of numbers has a least
element comes from the library's well-founded orders.

`UnitsHeld`, `Spec => []UnitsHeldOnce`, is about a sum over the sessions: a step changes what at
most one of them holds, by as much as it changes what is available (`UnitsMove`, from
`SumChange` in `SumTheorems`). Besides `CheckoutInvariant` it needs that a session which does not
exist holds nothing.

`Charged`, `PageSpec => []ChargedAsDisplayed`, is about a customer who sees a total in one
step, presses in another, and is charged in a third. `PageInv` follows what the session shows
through each of them: a request to confirm on its way carries what was displayed, and that is
what the session shows (`Asked`, `Tells`) unless the session was priced again by a request nobody
got the answer of (`missed`); an answer on its way tells the same (`Answers`); and the page displays
what its session shows (`Displays`) except while it waits for what was shown anew (`Stale`), when
it has no request to confirm under way. That only one request is waited for (`Requests`) is what
keeps a late answer from being taken for another's. A step of the page is a step of the sessions
or none (`PageSteps`), so the invariant of the sessions holds under the page.

`BackOfficeProofs`, for every number of uploads, calls, objects and failures: `AssetsWhole`,
`MediaSpec => []AssetHasItsObjects`. One call builds an upload, the one that claimed its intent
(`OneBuilder`); the row is created after the last object and before anything else
(`RowsComeLast`, `NothingMissing`); what is taken back has no row, unless the answer to its
insert was lost (`TakenBackUnseen`).

Of products, for every number of variants, categories and edits: `ProductsWhole`,
`ProductsSpec => []ProductsStayWhole`. An archiving that was not overtaken is not of the default variant
(`ArchivingsHold`), and a publication that was not overtaken is not of a product archived
before (`PublicationsHold`).

Of one order, for every finite set of reservations and shipments with any units: `UnitsLeft` and
`PurchasesVerified`, `ReviewsSpec => []` of `UnitsLeaveOnce`, `OnlyVerifiedPurchases` and
`FulfilmentFollowsShipments`. A shipment takes its units with it from status to status
(`RowWritten`: all three sums over shipments change by one exchanged element); what a
shipment is given of a reservation is free there (`AllocationFits`); and the order waits for what
was not sent, or was cancelled while nothing was drafted (`Waits`): a cancellation looks at
the drafts under the lock, so no dispatch of one follows it.

Of purchases, for every finite set of orders, lines and keys: `PurchasesAddUp`,
`ProcurementSpec => []` of `ReceivedWithinOrder` and `IncomingIsOutstanding`. Both need each other
and that only an order that was received from has receipts (`ReceivedLast`): an order is edited,
confirmed and cancelled before. What a receipt takes in all is what it takes of each tracked line
(`UnitsOfLines`), and what it takes of a line is what the order no longer brings
(`BringsLess`) only if it fits, which it does when no line is named twice (`EntriesFit`).

`FrontOfficeProofs`, for every number of sign-ins, completions, step-ups, tokens and steps and
every drift: `CodesUsedOnce` and `ResetEnds`, `Spec => []` of `EachCodeOnce` and
`ResetEndsSessions`. The invariant says that steps are accepted in their order, so that no
step after the last accepted one was used (`CodesInOrder`); that a challenge is consumed for
one session and not created again (`ChallengesAreConsumed`, `OneHolder`,
`ChallengesFollowLogins`); and that a sign-in which has no session yet compared the
password of today or was overtaken by a reset (`PasswordsAreKnown`), without which a session
it creates after the reset would not be accounted for.

Of the newsletter, for every number of requests and runs: `LettersInvariant`, `LettersSpec => []` of
the invariant `LinksFollowConsent` is a part of. A link that confirms was minted by a run for the
present request (`ConfirmationIsOwn`); of the runs that prepare one mail, only the one whose link
the row knows holds its lease (`LeaseHolderHasLink`), so only it can record the mail as sent; and
there is no row of a request that was not made yet (`NoMailBeforeRequest`).

Of addresses, for every number of entities, slugs, upserts and transitions that overlap: `AddressesNeverBreak`,
`LinksSpec => []LinksNeverBreak`. A slug has one owner (`OneOwner`), one in use redirects nowhere
else unless it is disputed (`NoDiversion`), and an entity that was ever shown is no draft and, while
it is published, has or is remembered for every slug it was shown under that is not disputed
(`StillLeads`). Nothing is assumed of the edits in hand but that they are about entities and slugs:
an upsert is compared with what is true when it writes.

Of the tree, for categories of any number and depth: `TreeInvariant`. `PathsSpellTheTree` says of
each path that it is its parent's and the category (`Spelt`) and names none twice; the second
is not inductive, and follows from what is: the category at place n of a path has the path up to n
(`Ancestral`), so that the length of its own path is its place. A move keeps both because the
paths below the category are rewritten with the same tail (`Shifted`, `MovedPaths`), and no
ancestor is below it. An edit in hand read the tree as it is, unless two were interleaved.

Of prices, for every finite set of lines and confirmations, all amounts, rates, coupons and limits:
`PricingInvariant`, `PricingSpec => []PricingInv`. One confirmation at a time is past the coupon's
lock, so what it read of the limits still holds when it commits (`LockHeld`). A sale is exact when it
is priced, for the rows are numbers (`RowsPayable`): the discount is at most what its lines cost
and the portions of it sum to it (`AllocationIsExact`), the tax is the
nearest unit, and so are its shares (`TaxSharesAreExact`).

Only model-checked: the reconciliation. Liveness under fairness
and ENABLED are out of the prover's reach and stay with TLC. Theorems with an operator as a
parameter (the library's induction) cannot be applied, which is why induction over finite sets
takes the form above; no module declares a RECURSIVE operator.

## Not modelled

- Content (pages with the slug history of the catalog), sourcing (batches and their
  allocation) and shipping settings: single transactions on rows of their own that no
  other component's state is compared with.
- Admin payments: views, and entry points of operations `Payments` has.
- The HTTP API, DTOs, generated clients and shared packages, which hold no state; of the web
  applications, everything but the checkout page: pages that show what they read, or send
  one request and show its answer. These, with the seeds, are most of the
  repository's lines, which is why the map covers about a tenth of them.
- Of the checkout page: the button shown where there is no session to show, which leads to
  the form as well.
- In modelled components: image processing, templates, listings and searches, audit rows,
  registration and throttling, currencies, wish lists, carriers.

## Plan

What is left, in order of worth:

1. Registration and enrolment of the authenticator in `Identity`.
2. Batches of `Sourcing`.
