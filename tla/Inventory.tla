----------------------------- MODULE Inventory -----------------------------
(***************************************************************************)
(* Stock counters, the append-only stock ledger, reservations and the      *)
(* low-stock latch of                                                      *)
(*   packages/backend/src/modules/inventory.                               *)
(*                                                                         *)
(* Every action is the commit of a database transaction of the service.    *)
(* What it reads under locks belongs to the step: session operations and   *)
(* sweeps lock (FOR UPDATE) every item of their variants and the rows of   *)
(* the session, movements of stock the items they move.  What it reads     *)
(* without holding a lock on it comes in a step of its own: the time `t'   *)
(* an operation works with, the rows an expiry sweep listed, and the items *)
(* of other locations the low-stock evaluation looks at (`views').         *)
(* A transaction that throws is rolled back and changes nothing.           *)
(***************************************************************************)
EXTENDS Integers, FiniteSets, Functions

CONSTANTS
  Variants,       \* product variants
  Locations,      \* stock locations; their numbers are the order of their ids
  Sessions,       \* checkout sessions
  Sweepers,       \* processes that list expired holds and later expire them
  Evaluations,    \* transactions whose low-stock evaluation others may overtake
  Generations,    \* 1..n: the n-th time a session acquires a hold
  MaxQty,         \* bound: units of one line, of one reservation row
  MaxUnits,       \* bound: units ever taken in at one key
  MaxIncoming,    \* bound: units on order at all keys together
  MaxTime,        \* bound: last instant of the clock
  Skew,           \* bound: how old the time of an operation is when it holds its locks
  Ttl,            \* RESERVATION_TTL_MS
  MaxHold,        \* RESERVATION_MAX_HOLD_MS
  BatchSize,      \* rows one sweep lists
  Deltas,         \* bound: deltas of a manual adjustment
  StockChanges,   \* bound: <<onHand, incoming>> deltas of one procurement movement
  ReorderPoints,  \* bound: reorder points an administrator sets
  LocationEdits   \* bound: <<location, isSellable, isDefault>> of an edit

NoLocation == 0

ASSUME InventoryAssumption ==
  /\ IsFiniteSet(Variants) /\ IsFiniteSet(Locations) /\ IsFiniteSet(Sessions)
  /\ Locations \subseteq Nat \ {NoLocation}
  /\ IsFiniteSet(Generations) /\ Generations \subseteq Nat
  /\ MaxQty \in Nat /\ MaxUnits \in Nat /\ MaxIncoming \in Nat
  /\ MaxTime \in Nat /\ Skew \in Nat /\ BatchSize \in Nat \ {0}
  /\ Ttl \in Nat /\ MaxHold \in Nat /\ Ttl <= MaxHold
  /\ Deltas \subseteq Int \ {0}
  /\ StockChanges \subseteq Int \X Int
  /\ ReorderPoints \subseteq Nat

ASSUME LocationEditsAssumption == LocationEdits \subseteq Locations \X BOOLEAN \X BOOLEAN

Keys == Variants \X Locations
Rows == Sessions \X Keys \X Generations
Statuses == {"NONE", "ACTIVE", "CONSUMED", "RELEASED", "EXPIRED"}
\* "PHYSICAL" stands for RECEIPT, ADJUSTMENT, WRITE_OFF and CORRECTION, which the
\* ledger reducer treats alike.
Reasons == {"PHYSICAL", "RESERVATION", "RESERVATION_RELEASE",
            "ALLOCATION", "FULFILMENT", "ALLOCATION_RELEASE"}

VARIABLES
  onHand, reserved, allocated, incoming,  \* inventory_item, per key
  ledger,           \* per key, the sum of the ledger's deltas per reason
  alert,            \* inventory_item.low_stock_alert_active
  views,            \* per evaluation: the items it locked, and what it read
  reorderPoint, sellable, defaultLocation, \* planning and locations
  status, quantity, createdAt, expiresAt, \* stock_reservation, per row
  now,
  listed, listedAt  \* per sweeper: the ids it listed, the time it listed with

counters == <<onHand, reserved, allocated, incoming, ledger>>
latch    == <<alert, views>>
holds    == <<status, quantity, createdAt, expiresAt>>
settings == <<reorderPoint, sellable, defaultLocation>>
sweeps   == <<listed, listedAt>>
vars     == <<counters, latch, settings, holds, now, sweeps>>

\* The two reads of an evaluation: availability first, the latches later.
View == [at : {"idle", "available", "latched"}, keys : SUBSET Keys,
         units : [Keys -> Int], points : [Keys -> Nat], sellable : SUBSET Locations,
         alerted : [Keys -> BOOLEAN], rows : SUBSET Locations]

NoView == [at |-> "idle", keys |-> {}, units |-> [k \in Keys |-> 0],
           points |-> [k \in Keys |-> 0], sellable |-> {},
           alerted |-> [k \in Keys |-> FALSE], rows |-> {}]

(***************************************************************************)
(* The type invariant: what the columns and the listed ids can hold.       *)
(***************************************************************************)
TypeOK ==
  /\ onHand \in [Keys -> Int] /\ reserved \in [Keys -> Int]
  /\ allocated \in [Keys -> Int] /\ incoming \in [Keys -> Int]
  /\ ledger \in [Keys -> [Reasons -> Int]]
  /\ alert \in [Keys -> BOOLEAN] /\ views \in [Evaluations -> View]
  /\ reorderPoint \in [Keys -> ReorderPoints \cup {0}]
  /\ sellable \subseteq Locations
  /\ defaultLocation \in Locations \cup {NoLocation}
  /\ status \in [Rows -> Statuses] /\ quantity \in [Rows -> 0..MaxQty]
  /\ createdAt \in [Rows -> 0..MaxTime]
  /\ expiresAt \in [Rows -> 0..(MaxTime + MaxHold)]
  /\ now \in 0..MaxTime
  /\ listed \in [Sweepers -> SUBSET Rows] /\ listedAt \in [Sweepers -> 0..MaxTime]

Init ==
  /\ onHand = [k \in Keys |-> 0] /\ reserved = [k \in Keys |-> 0]
  /\ allocated = [k \in Keys |-> 0] /\ incoming = [k \in Keys |-> 0]
  /\ ledger = [k \in Keys |-> [reason \in Reasons |-> 0]]
  /\ alert = [k \in Keys |-> FALSE] /\ views = [e \in Evaluations |-> NoView]
  /\ reorderPoint = [k \in Keys |-> 0]
  /\ sellable = Locations /\ defaultLocation = NoLocation
  /\ status = [r \in Rows |-> "NONE"] /\ quantity = [r \in Rows |-> 0]
  /\ createdAt = [r \in Rows |-> 0] /\ expiresAt = [r \in Rows |-> 0]
  /\ now = 0
  /\ listed = [w \in Sweepers |-> {}] /\ listedAt = [w \in Sweepers |-> 0]

-----------------------------------------------------------------------------
(***************************************************************************)
(* The ledger and what it says the counters should be.                     *)
(***************************************************************************)

\* One ledger entry of `reason' per key, of delta e[k] (0: no entry).
Post(lg, reason, e) ==
  [k \in Keys |-> [lg[k] EXCEPT ![reason] = @ + e[k]]]

\* Mutant: an allocation does not take its units out of the reservation.
ProjectionWithoutAllocation(entries) ==
  [onHand    |-> entries["PHYSICAL"] + entries["FULFILMENT"],
   reserved  |-> entries["RESERVATION"] + entries["RESERVATION_RELEASE"],
   allocated |-> entries["ALLOCATION"] + entries["FULFILMENT"] + entries["ALLOCATION_RELEASE"]]

Projection(entries) ==
  [onHand    |-> entries["PHYSICAL"] + entries["FULFILMENT"],
   reserved  |-> entries["RESERVATION"] + entries["RESERVATION_RELEASE"] - entries["ALLOCATION"],
   allocated |-> entries["ALLOCATION"] + entries["FULFILMENT"] + entries["ALLOCATION_RELEASE"]]

(***************************************************************************)
(* Availability and the low-stock latch.                                   *)
(***************************************************************************)
AvailableUnits(k) == onHand[k] - reserved[k] - allocated[k]

NonNegative(i) == IF i > 0 THEN i ELSE 0

UnitsAt(v) == [l \in Locations |-> NonNegative(AvailableUnits(<<v, l>>))]

AvailableToSell(v) == SumFunctionOnSet(UnitsAt(v), sellable)

\* LOW_STOCK or OUT_OF_STOCK; the threshold is the largest sellable reorder point.
LowStock(v) ==
  \/ AvailableToSell(v) = 0
  \/ \E l \in sellable : AvailableToSell(v) <= reorderPoint[<<v, l>>]

Alerted(v) == \E l \in sellable : alert[<<v, l>>]

\* No transaction but those in own has locked one of the items.
Unlocked(own, items) == \A e \in Evaluations \ own : views[e].keys \cap items = {}

\* An operation has locked its items and moved them, unseen by others, and the
\* evaluation reads every item of its variants, those it did not lock as well.
ReadAvailability(e, keys) ==
  /\ views[e].at = "idle"
  /\ keys # {} /\ Unlocked({}, keys)
  /\ views' = [views EXCEPT ![e] =
                 [NoView EXCEPT !.at = "available", !.keys = keys,
                                !.units = [k \in Keys |-> AvailableUnits(k)],
                                !.points = reorderPoint, !.sellable = sellable]]
  /\ UNCHANGED <<counters, alert, settings, holds, now, sweeps>>

\* The second read: the latches of the items at the locations that are sellable now.
ReadLatches(e) ==
  /\ views[e].at = "available"
  /\ views' = [views EXCEPT ![e].at = "latched", ![e].alerted = alert, ![e].rows = sellable]
  /\ UNCHANGED <<counters, alert, settings, holds, now, sweeps>>

\* The transaction fails, or is the victim of a deadlock.
RollBack(e) ==
  /\ views[e].at # "idle"
  /\ views' = [views EXCEPT ![e] = NoView]
  /\ UNCHANGED <<counters, alert, settings, holds, now, sweeps>>

\* What the evaluation makes of its view: of its own items it sees what it wrote.
SeenAt(view, v) ==
  [l \in Locations |-> NonNegative(IF <<v, l>> \in view.keys THEN AvailableUnits(<<v, l>>)'
                                   ELSE view.units[<<v, l>>])]

SeenToSell(view, v) == SumFunctionOnSet(SeenAt(view, v), view.sellable)

SeenLow(view, v) ==
  \/ SeenToSell(view, v) = 0
  \/ \E l \in view.sellable : SeenToSell(view, v) <= view.points[<<v, l>>]

SeenAlerted(view, v) == \E l \in view.rows : view.alerted[<<v, l>>]

\* Nothing is committed between the reads of the evaluation and its own commit.
\* The update of the latches waits for whoever locked the rows it writes.
EvaluateAtOnce(vs, keys) ==
  LET rows == {k \in Keys : /\ k[1] \in vs /\ k[2] \in sellable
                            /\ LowStock(k[1])' # Alerted(k[1])}
  IN /\ Unlocked({}, keys \cup rows)
     /\ alert' = [k \in Keys |-> IF k \in rows THEN LowStock(k[1])' ELSE alert[k]]
     /\ UNCHANGED views

EvaluateAsRead(e, vs, keys) ==
  LET view == views[e]
      rows == {k \in Keys : /\ k[1] \in vs /\ k[2] \in view.rows
                            /\ SeenLow(view, k[1]) # SeenAlerted(view, k[1])}
  IN /\ view.at = "latched" /\ view.keys = keys
     /\ Unlocked({e}, rows)
     /\ alert' = [k \in Keys |-> IF k \in rows THEN SeenLow(view, k[1]) ELSE alert[k]]
     /\ views' = [views EXCEPT ![e] = NoView]

\* Mutant: the latch is evaluated on the availability read before the movement.
EvaluateStaleLowStock(vs, keys) ==
  /\ alert' = [k \in Keys |->
                 IF k[1] \in vs /\ k[2] \in sellable /\ LowStock(k[1]) # Alerted(k[1])
                 THEN LowStock(k[1]) ELSE alert[k]]
  /\ UNCHANGED views

\* The latch of the variants in vs, evaluated at the end of an operation that has
\* locked the items `keys'.  stock.low is written to the outbox exactly when the
\* evaluation switches a latch on that it found off.
EvaluateLowStock(vs, keys) ==
  \/ EvaluateAtOnce(vs, keys)
  \/ \E e \in Evaluations : EvaluateAsRead(e, vs, keys)

-----------------------------------------------------------------------------
(***************************************************************************)
(* Reservation rows.                                                       *)
(***************************************************************************)
ActiveRows == {r \in Rows : status[r] = "ACTIVE"}
ConsumedRows == {r \in Rows : status[r] = "CONSUMED"}
RowsOf(s)  == {r \in Rows : r[1] = s}
VariantsOf(R) == {r[2][1] : r \in R}

\* The items an operation on variants locks: those at every location.
ItemsOf(vs) == vs \X Locations

\* #prepareCheckoutReservations: the items of every variant the session ever held.
SessionItems(s, vs) ==
  ItemsOf(vs \cup VariantsOf({r \in RowsOf(s) : status[r] # "NONE"}))

\* The units the rows R hold at key k: one token per unit, counted.
UnitTokens(R, k) ==
  {token \in R \X (1..MaxQty) : token[1][2] = k /\ token[2] <= quantity[token[1]]}
UnitsIn(R, k) == Cardinality(UnitTokens(R, k))

\* The time an operation works with is read before it waits for its locks.
RecentTimes == {t \in 0..now : now - t <= Skew}

\* Mutant: an operation forgets to expire its session's own due rows.
NoDueRows(s, t) == {r \in ActiveRows \cap RowsOf(s) : expiresAt[r] < 0}

DueRows(s, t)  == {r \in ActiveRows \cap RowsOf(s) : expiresAt[r] <= t}

HeldRows(s, t) == {r \in ActiveRows \cap RowsOf(s) : expiresAt[r] > t}

\* The latest deadline a payment page can be given.
ExtendedExpiry(r) == createdAt[r] + MaxHold

\* New rows get ids never used before: the first generation without rows.
NextGeneration(s, g) ==
  /\ \A k \in Keys : status[<<s, k, g>>] = "NONE"
  /\ \A h \in Generations : h < g => \E k \in Keys : status[<<s, k, h>>] # "NONE"

\* Mutant: the units of an expired row are given back and the row stays ACTIVE.
GivenBackOnly(R) == status

Expired(R) == [r \in Rows |-> IF r \in R THEN "EXPIRED" ELSE status[r]]

\* applyReservationAccounting: per-key changes of reserved and allocated, with
\* its guard against drift (no counter below zero, no unit promised twice).
ReservationAccounting(dReserved, dAllocated) ==
  /\ reserved'  = [k \in Keys |-> reserved[k] + dReserved[k]]
  /\ allocated' = [k \in Keys |-> allocated[k] + dAllocated[k]]
  /\ \A k \in Keys : /\ reserved'[k] >= 0 /\ allocated'[k] >= 0
                     /\ onHand[k] - reserved'[k] - allocated'[k] >= 0

\* The RESERVATION_RELEASE entries of the rows R.
ReleaseEntries(R) == [k \in Keys |-> 0 - UnitsIn(R, k)]

\* The accounting of rows that leave ACTIVE without being consumed.
ReleaseAccounting(R) ==
  /\ ReservationAccounting(ReleaseEntries(R), [k \in Keys |-> 0])
  /\ ledger' = Post(ledger, "RESERVATION_RELEASE", ReleaseEntries(R))

-----------------------------------------------------------------------------
(***************************************************************************)
(* The allocation order: the default location first, then by id; greedy,   *)
(* all or nothing, from the counters as they were locked.                  *)
(***************************************************************************)
Requests == UNION {[vs -> 1..MaxQty] : vs \in SUBSET Variants \ {{}}}

Precedes(l, m) ==
  \/ l = defaultLocation /\ m # defaultLocation
  \/ (l = defaultLocation <=> m = defaultLocation) /\ l < m

Allocates(alloc, lines) ==
  /\ \A k \in Keys : alloc[k] > 0 => /\ k[1] \in DOMAIN lines /\ k[2] \in sellable
                                     /\ alloc[k] <= AvailableUnits(k)
  /\ \A v \in DOMAIN lines :
       SumFunctionOnSet([l \in Locations |-> alloc[<<v, l>>]], Locations) = lines[v]
  /\ \A k \in Keys, l \in sellable :
       alloc[k] > 0 /\ Precedes(l, k[2])
         => alloc[<<k[1], l>>] = NonNegative(AvailableUnits(<<k[1], l>>))

-----------------------------------------------------------------------------
(***************************************************************************)
(* Physical stock.                                                         *)
(***************************************************************************)

\* Mutant: units allocated to orders are forgotten in the availability guard.
StockSufficesForReservations(k, dOnHand, dIncoming) ==
  /\ onHand[k] + dOnHand >= 0
  /\ incoming[k] + dIncoming >= 0
  /\ onHand[k] + dOnHand - reserved[k] >= 0

\* Neither a physical count nor an availability below zero.
StockSuffices(k, dOnHand, dIncoming) ==
  /\ onHand[k] + dOnHand >= 0
  /\ incoming[k] + dIncoming >= 0
  /\ onHand[k] + dOnHand - reserved[k] - allocated[k] >= 0

\* Bounds of the model, not of the code.
IntakeBounded(k, dOnHand) == ledger[k]["PHYSICAL"] + dOnHand <= MaxUnits

OrdersBounded == SumFunctionOnSet(incoming', Keys) <= MaxIncoming

\* ApplyStockChanges: procurement's movements, at most one net movement per key.
ApplyStockChanges(movements) ==
  LET dOnHand(k)   == IF k \in DOMAIN movements THEN movements[k][1] ELSE 0
      dIncoming(k) == IF k \in DOMAIN movements THEN movements[k][2] ELSE 0
  IN
  /\ \A k \in DOMAIN movements : /\ StockSuffices(k, dOnHand(k), dIncoming(k))
                                 /\ IntakeBounded(k, dOnHand(k))
  /\ onHand'   = [k \in Keys |-> onHand[k] + dOnHand(k)]
  /\ incoming' = [k \in Keys |-> incoming[k] + dIncoming(k)] /\ OrdersBounded
  /\ ledger'   = Post(ledger, "PHYSICAL", [k \in Keys |-> dOnHand(k)])
  /\ UNCHANGED <<reserved, allocated, settings, holds, now, sweeps>>
  /\ EvaluateLowStock({k[1] : k \in DOMAIN movements}, DOMAIN movements)

\* A manual adjustment of one key.
Adjust(k, delta) ==
  /\ StockSuffices(k, delta, 0) /\ IntakeBounded(k, delta)
  /\ onHand' = [onHand EXCEPT ![k] = @ + delta]
  /\ ledger' = Post(ledger, "PHYSICAL", [j \in Keys |-> IF j = k THEN delta ELSE 0])
  /\ UNCHANGED <<reserved, allocated, incoming, settings, holds, now, sweeps>>
  /\ EvaluateLowStock({k[1]}, {k})

\* receiveProduction: an intake of own production through applyStockChanges.
ReceiveProduction(k, q) == ApplyStockChanges([j \in {k} |-> <<q, 0>>])

-----------------------------------------------------------------------------
(***************************************************************************)
(* Reservations of a checkout session.                                     *)
(***************************************************************************)

\* A new all-or-nothing hold.  The session's own expired rows are expired first,
\* but the allocation sees the counters as they were locked, before that.  A
\* session that still has a hold gets it back (or a mismatch): nothing changes.
AcquireReservations(s, t, lines, g, alloc) ==
  LET due == DueRows(s, t)
      new == {<<s, k, g>> : k \in {j \in Keys : alloc[j] > 0}}
  IN
  /\ HeldRows(s, t) = {}
  /\ NextGeneration(s, g)
  /\ Allocates(alloc, lines)
  /\ \A k \in Keys : reserved[k] >= UnitsIn(due, k)
  /\ ReservationAccounting([k \in Keys |-> alloc[k] - UnitsIn(due, k)], [k \in Keys |-> 0])
  /\ ledger' = Post(Post(ledger, "RESERVATION_RELEASE", ReleaseEntries(due)),
                    "RESERVATION", alloc)
  /\ status' = [r \in Rows |-> IF r \in new THEN "ACTIVE" ELSE Expired(due)[r]]
  /\ quantity'  = [r \in Rows |-> IF r \in new THEN alloc[r[2]] ELSE quantity[r]]
  /\ createdAt' = [r \in Rows |-> IF r \in new THEN t ELSE createdAt[r]]
  /\ expiresAt' = [r \in Rows |-> IF r \in new THEN t + Ttl ELSE expiresAt[r]]
  /\ UNCHANGED <<onHand, incoming, settings, now, sweeps>>
  /\ EvaluateLowStock(DOMAIN lines, SessionItems(s, DOMAIN lines))

ReleaseReservations(s, t) ==
  LET due == DueRows(s, t)
      rest == HeldRows(s, t)
  IN
  /\ due \cup rest # {}
  /\ ReleaseAccounting(due \cup rest)
  /\ status' = [r \in Rows |-> IF r \in rest THEN "RELEASED" ELSE Expired(due)[r]]
  /\ UNCHANGED <<onHand, incoming, quantity, createdAt, expiresAt, settings, now, sweeps>>
  /\ EvaluateLowStock(VariantsOf(due \cup rest), SessionItems(s, {}))

\* The payment page's extension: up to the absolute maximum, so at most once.
ExtendReservationsOnce(s, t) ==
  LET due == DueRows(s, t)
      extended == {r \in HeldRows(s, t) : expiresAt[r] < ExtendedExpiry(r)}
  IN
  /\ due \cup extended # {}
  /\ ReleaseAccounting(due)
  /\ status' = Expired(due)
  /\ expiresAt' = [r \in Rows |-> IF r \in extended THEN ExtendedExpiry(r) ELSE expiresAt[r]]
  /\ UNCHANGED <<onHand, incoming, quantity, createdAt, settings, now, sweeps>>
  /\ EvaluateLowStock(VariantsOf(due), SessionItems(s, {}))

\* The order takes the session's hold: reserved units become allocated ones.
ConsumeReservations(s, t) ==
  LET due == DueRows(s, t)
      held == HeldRows(s, t)
  IN
  /\ held # {}
  /\ \A k \in Keys : reserved[k] >= UnitsIn(due, k)
  /\ ReservationAccounting([k \in Keys |-> 0 - UnitsIn(due \cup held, k)],
                           [k \in Keys |-> UnitsIn(held, k)])
  /\ ledger' = Post(Post(ledger, "RESERVATION_RELEASE", ReleaseEntries(due)),
                    "ALLOCATION", [k \in Keys |-> UnitsIn(held, k)])
  /\ status' = [r \in Rows |-> IF r \in held THEN "CONSUMED" ELSE Expired(due)[r]]
  /\ UNCHANGED <<onHand, incoming, quantity, createdAt, expiresAt, settings, now, sweeps>>
  /\ EvaluateLowStock(VariantsOf(held), SessionItems(s, {}))

\* The replay of a consumption: it returns the consumed rows, and commits the
\* expiry of later rows of the session without looking at the low-stock latch.
ReplayConsumption(s, t) ==
  LET due == DueRows(s, t) IN
  /\ due # {} /\ HeldRows(s, t) = {}
  /\ RowsOf(s) \cap ConsumedRows # {}
  /\ Unlocked({}, SessionItems(s, {}))
  /\ ReleaseAccounting(due)
  /\ status' = Expired(due)
  /\ UNCHANGED <<onHand, incoming, quantity, createdAt, expiresAt, latch, settings, now, sweeps>>

-----------------------------------------------------------------------------
(***************************************************************************)
(* The expiry sweep: the worker's scheduled one (every variant) and the    *)
(* lazy one of an availability read (some variants).  The ids are listed   *)
(* by a plain query; the transaction that expires them comes later.        *)
(***************************************************************************)
\* Mutant: the list is not restricted to ACTIVE rows.
ListOverdue(vs) ==
  {r \in Rows : status[r] # "NONE" /\ expiresAt[r] <= now /\ r[2][1] \in vs}

ListExpired(vs) ==
  {r \in ActiveRows : expiresAt[r] <= now /\ r[2][1] \in vs}

\* A batch of the oldest deadlines; equal deadlines are ordered by random ids.
IsBatch(batch, due) ==
  /\ batch \subseteq due
  /\ \A r \in batch, q \in due \ batch : expiresAt[r] <= expiresAt[q]
  /\ Cardinality(batch) <= BatchSize
  /\ batch # due => Cardinality(batch) = BatchSize

SweepList(w, vs) ==
  /\ listed[w] = {}
  /\ \E batch \in SUBSET ListExpired(vs) :
       /\ batch # {} /\ IsBatch(batch, ListExpired(vs))
       /\ listed' = [listed EXCEPT ![w] = batch]
       /\ listedAt' = [listedAt EXCEPT ![w] = now]
  /\ UNCHANGED <<counters, latch, settings, holds, now>>

\* Mutant: the listed rows are not read again under their locks.
StillListed(w) == listed[w]

\* The rows of the list that are still to be expired, re-read under their locks.
StillDue(w) == {r \in listed[w] : status[r] = "ACTIVE" /\ expiresAt[r] <= listedAt[w]}

SweepEnds(w) ==
  /\ listed' = [listed EXCEPT ![w] = {}]
  /\ listedAt' = [listedAt EXCEPT ![w] = 0]

SweepExpire(w) ==
  /\ listed[w] # {}
  /\ ReleaseAccounting(StillDue(w))
  /\ status' = Expired(StillDue(w))
  /\ SweepEnds(w)
  /\ UNCHANGED <<onHand, incoming, quantity, createdAt, expiresAt, settings, now>>
  /\ EvaluateLowStock(VariantsOf(StillDue(w)), ItemsOf(VariantsOf(listed[w])))

\* The process stops, or its transaction fails, between the list and the expiry.
SweepAbandon(w) ==
  /\ listed[w] # {}
  /\ SweepEnds(w)
  /\ UNCHANGED <<counters, latch, settings, holds, now>>

-----------------------------------------------------------------------------
(***************************************************************************)
(* Allocated units leave: dispatched (FULFILMENT) or released by the       *)
(* cancellation of the order (ALLOCATION_RELEASE).                         *)
(***************************************************************************)
ApplyAllocatedStockMovements(reason, movements) ==
  LET units(k) == IF k \in DOMAIN movements THEN movements[k] ELSE 0
      leaves(k) == IF reason = "FULFILMENT" THEN units(k) ELSE 0
  IN
  /\ \A k \in DOMAIN movements : allocated[k] >= units(k) /\ onHand[k] >= units(k)
  /\ allocated' = [k \in Keys |-> allocated[k] - units(k)]
  /\ onHand'    = [k \in Keys |-> onHand[k] - leaves(k)]
  /\ ledger'    = Post(ledger, reason, [k \in Keys |-> 0 - units(k)])
  /\ UNCHANGED <<reserved, incoming, settings, holds, now, sweeps>>
  /\ EvaluateLowStock({k[1] : k \in DOMAIN movements}, DOMAIN movements)

(***************************************************************************)
(* Planning and locations: they change what availability means, and do not *)
(* evaluate the latch.                                                     *)
(***************************************************************************)
SetPlanning(k, point) ==
  /\ Unlocked({}, {k})
  /\ reorderPoint' = [reorderPoint EXCEPT ![k] = point]
  /\ UNCHANGED <<counters, latch, sellable, defaultLocation, holds, now, sweeps>>

\* A location has one default flag among all; a new location is one whose first
\* edit makes it sellable.
UpdateLocation(l, isSellable, isDefault) ==
  /\ sellable' = IF isSellable THEN sellable \cup {l} ELSE sellable \ {l}
  /\ defaultLocation' = IF isDefault THEN l
                        ELSE IF defaultLocation = l THEN NoLocation ELSE defaultLocation
  /\ UNCHANGED <<counters, latch, reorderPoint, holds, now, sweeps>>

Tick ==
  /\ now < MaxTime
  /\ now' = now + 1
  /\ UNCHANGED <<counters, latch, settings, holds, sweeps>>

-----------------------------------------------------------------------------
Movements(S) == UNION {[ks -> S] : ks \in SUBSET Keys \ {{}}}

StockNext ==
  \/ \E k \in Keys, delta \in Deltas : Adjust(k, delta)
  \/ \E m \in Movements(StockChanges) : ApplyStockChanges(m)
  \/ \E k \in Keys, q \in 1..MaxQty : ReceiveProduction(k, q)
  \/ \E reason \in {"FULFILMENT", "ALLOCATION_RELEASE"}, m \in Movements(1..MaxQty) :
       ApplyAllocatedStockMovements(reason, m)

SessionNext(s) ==
  \E t \in RecentTimes :
    \/ \E lines \in Requests, g \in Generations, alloc \in [Keys -> 0..MaxQty] :
         AcquireReservations(s, t, lines, g, alloc)
    \/ ReleaseReservations(s, t)
    \/ ExtendReservationsOnce(s, t)
    \/ ConsumeReservations(s, t)
    \/ ReplayConsumption(s, t)

SweepNext(w) ==
  \/ \E vs \in SUBSET Variants : SweepList(w, vs)
  \/ SweepExpire(w)
  \/ SweepAbandon(w)

EvaluationNext(e) ==
  \/ \E keys \in SUBSET Keys : ReadAvailability(e, keys)
  \/ ReadLatches(e)
  \/ RollBack(e)

AdminNext ==
  \/ \E k \in Keys, point \in ReorderPoints : SetPlanning(k, point)
  \/ \E edit \in LocationEdits : UpdateLocation(edit[1], edit[2], edit[3])

Next ==
  \/ StockNext
  \/ \E s \in Sessions : SessionNext(s)
  \/ \E w \in Sweepers : SweepNext(w)
  \/ \E e \in Evaluations : EvaluationNext(e)
  \/ AdminNext
  \/ Tick

Spec == Init /\ [][Next]_vars

\* The worker runs the sweep every minute over all variants, and BullMQ retries a
\* sweep that failed: listing never stops, and a sweep that is tried again and
\* again does not fail for ever.  Customers and administrators owe nothing.
SweepFairness ==
  \A w \in Sweepers : /\ WF_vars(SweepList(w, Variants))
                      /\ SF_vars(SweepExpire(w))

FairSpec == Spec /\ SweepFairness /\ WF_vars(Tick)

-----------------------------------------------------------------------------
(***************************************************************************)
(* Properties.                                                             *)
(***************************************************************************)

\* The ledger is never rewritten, and at every key its reason-aware reduction is
\* exactly what the counters say (docs: the item is a projection of the ledger).
LedgerProjectsCounters ==
  \A k \in Keys :
    Projection(ledger[k]) =
      [onHand |-> onHand[k], reserved |-> reserved[k], allocated |-> allocated[k]]

\* No unit is promised twice: the application alone, without the database's CHECK
\* constraints, keeps promised units within the units on hand.
NoOversell ==
  \A k \in Keys : /\ reserved[k] >= 0 /\ allocated[k] >= 0 /\ incoming[k] >= 0
                  /\ onHand[k] >= reserved[k] + allocated[k]

\* `reserved' counts exactly the units of the ACTIVE rows, whatever mixture of
\* expiries by session operations, sweeps, releases and consumptions ended the others.
ReservedAreActiveHolds ==
  \A k \in Keys : reserved[k] = UnitsIn(ActiveRows, k)

\* `allocated' counts the units orders consumed and that have neither been
\* dispatched nor released.
AllocatedAreConsumedHolds ==
  \A k \in Keys :
    allocated[k] = UnitsIn(ConsumedRows, k)
                     + ledger[k]["FULFILMENT"] + ledger[k]["ALLOCATION_RELEASE"]

\* A session holds one hold at a time: its ACTIVE rows were created together, end
\* together, and never later than the absolute maximum.
OneHoldPerSession ==
  \A r, q \in ActiveRows :
    r[1] = q[1] => /\ r[3] = q[3] /\ createdAt[r] = createdAt[q]
                   /\ expiresAt[r] = expiresAt[q]
                   /\ expiresAt[r] <= createdAt[r] + MaxHold

\* A row ends once: no retry, sweep or session operation revives, re-ends or
\* re-dates a row that has ended, and none expires a row before its deadline.
HoldsEndOnce ==
  [][\A r \in Rows :
       /\ status[r] \notin {"NONE", "ACTIVE"} =>
            status'[r] = status[r] /\ expiresAt'[r] = expiresAt[r]
       /\ status[r] = "ACTIVE" /\ status'[r] = "EXPIRED" => expiresAt[r] <= now]_vars

\* What e read of variant v without holding a lock on it is not true any more.
Overtaken(e, v) ==
  \/ views[e].sellable # sellable \/ views[e].rows # sellable
  \/ \E l \in Locations :
       LET k == <<v, l>> IN
       /\ k \notin views[e].keys
       /\ \/ views[e].units[k] # AvailableUnits(k) \/ views[e].points[k] # reorderPoint[k]
          \/ views[e].alerted[k] # alert[k]

\* An operation that lowers the availability of a variant to a low level leaves its
\* low-stock latch on, unless an item it had not locked, or a location, changed
\* between its evaluation's reads and its commit (InventoryService.#evaluateLowStock).
LowStockNoticed ==
  [][\A v \in Variants :
       UNCHANGED sellable /\ AvailableToSell(v)' < AvailableToSell(v) /\ LowStock(v)'
         => \/ Alerted(v)'
            \/ \E e \in Evaluations : views'[e] # views[e] /\ Overtaken(e, v)]_vars

\* The detailed inventory keeps the abstract promise (StockPromise): what each
\* session's ACTIVE rows hold of each key.
HeldUnits ==
  [s \in Sessions |-> [k \in Keys |-> UnitsIn(ActiveRows \cap RowsOf(s), k)]]

Promise == INSTANCE StockPromise WITH
  units <- onHand, held <- HeldUnits, ordered <- allocated

\* A unit is free, held for one session or an order's: a session takes its hold in
\* one step from what is free, nothing but an order takes what it holds, and an order
\* takes all of it, whatever sweeps, retries and late clocks do to the rows.
KeepsPromise == Promise!Spec

\* The documentation's promise of a stock.low event: crossing into a low level by a
\* movement of stock switches the variant's latch on, which is what emits the event.
StockLowOnCrossing ==
  [][\A v \in Variants :
       UNCHANGED settings /\ ~LowStock(v) /\ LowStock(v)'
         => ~Alerted(v) /\ Alerted(v)']_vars

\* A hold whose deadline has passed is given back although its customer never
\* returns, sweeps crash and batches are smaller than the backlog.
ExpiredHoldsAreReleased ==
  \A r \in Rows :
    (status[r] = "ACTIVE" /\ expiresAt[r] <= now)
      ~> (status[r] # "ACTIVE" \/ expiresAt[r] > now)

=============================================================================
