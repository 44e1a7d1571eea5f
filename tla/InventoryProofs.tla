-------------------------- MODULE InventoryProofs --------------------------
(***************************************************************************)
(* For every set of variants, locations and sessions and every bound:      *)
(* the ledger accounts for the counters, no unit is promised twice, and    *)
(* the counters agree with the reservation rows; a session has one hold   *)
(* at a time, which keeps its dates together, and what has ended stays so. *)
(***************************************************************************)
EXTENDS Inventory, SumTheorems, FiniteSetTheorems, TLAPS

-----------------------------------------------------------------------------
(***************************************************************************)
(* Counting units.  UnitsIn(R, k) as a function of the quantities q, so    *)
(* that both sides of a step can be spoken of.                             *)
(***************************************************************************)
Tokens(q, R, k) == {token \in R \X (1..MaxQty) : token[1][2] = k /\ token[2] <= q[token[1]]}
Units(q, R, k) == Cardinality(Tokens(q, R, k))

\* There are finitely many rows.
LEMMA RowsFinite == IsFiniteSet(Rows)
<1> DEFINE Nested == (Sessions \X Keys) \X Generations
           nest == [r \in Rows |-> <<<<r[1], r[2]>>, r[3]>>]
<1>1. IsFiniteSet(Keys)
  BY InventoryAssumption, FS_Product DEF Keys
<1>2. IsFiniteSet(Sessions \X Keys)
  BY InventoryAssumption, <1>1, FS_Product
<1>3. IsFiniteSet(Nested)
  BY InventoryAssumption, <1>2, FS_Product
<1>4. nest \in [Rows -> Nested]
  BY DEF Rows
<1>5. \A r, q \in Rows : nest[r] = nest[q] => r = q
  BY DEF Rows
<1>6. nest \in Injection(Rows, Nested)
  BY <1>4, <1>5 DEF Injection, IsInjective
<1> QED
  BY <1>3, <1>6, FS_Injection

\* A set of rows holds a natural number of units.
LEMMA UnitsAreNatural ==
  ASSUME NEW q, NEW R \in SUBSET Rows, NEW k
  PROVE  IsFiniteSet(Tokens(q, R, k)) /\ Units(q, R, k) \in Nat
<1>1. IsFiniteSet(R)
  BY RowsFinite, FS_Subset
<1>2. IsFiniteSet(1..MaxQty)
  BY InventoryAssumption, FS_Interval
<1>3. IsFiniteSet(R \X (1..MaxQty))
  BY <1>1, <1>2, FS_Product
<1>4. Tokens(q, R, k) \in SUBSET (R \X (1..MaxQty))
  BY DEF Tokens
<1> QED
  BY <1>3, <1>4, FS_Subset, FS_CardinalityType DEF Units

\* No rows, no units.
LEMMA NoRowsNoUnits ==
  ASSUME NEW q, NEW k
  PROVE  Units(q, {}, k) = 0
<1>1. Tokens(q, {}, k) = {}
  BY DEF Tokens
<1> QED
  BY <1>1, FS_EmptySet DEF Units

\* Units of disjoint sets of rows add up.
LEMMA UnitsAddUp ==
  ASSUME NEW q, NEW R \in SUBSET Rows, NEW S \in SUBSET Rows, NEW k, R \cap S = {}
  PROVE  Units(q, R \cup S, k) = Units(q, R, k) + Units(q, S, k)
<1>1. Tokens(q, R \cup S, k) = Tokens(q, R, k) \cup Tokens(q, S, k)
  BY DEF Tokens
<1>2. Tokens(q, R, k) \cap Tokens(q, S, k) = {}
  BY DEF Tokens
<1>3. IsFiniteSet(Tokens(q, R, k)) /\ IsFiniteSet(Tokens(q, S, k))
  BY UnitsAreNatural
<1>4. Units(q, R, k) \in Nat /\ Units(q, S, k) \in Nat
  BY UnitsAreNatural
<1>5. Cardinality(Tokens(q, R, k) \cup Tokens(q, S, k))
        = Cardinality(Tokens(q, R, k)) + Cardinality(Tokens(q, S, k))
            - Cardinality(Tokens(q, R, k) \cap Tokens(q, S, k))
  BY <1>3, FS_Union
<1>6. Cardinality(Tokens(q, R, k) \cap Tokens(q, S, k)) = 0
  BY <1>2, FS_EmptySet, Zenon
<1>7. Units(q, R \cup S, k) = Cardinality(Tokens(q, R, k) \cup Tokens(q, S, k))
  BY <1>1, Zenon DEF Units
<1> QED
  BY <1>4, <1>5, <1>6, <1>7 DEF Units

\* Taking rows out of a set takes their units out of its count.
LEMMA UnitsTakenOut ==
  ASSUME NEW q, NEW R \in SUBSET Rows, NEW S \in SUBSET R, NEW k
  PROVE  Units(q, R \ S, k) = Units(q, R, k) - Units(q, S, k)
<1>1. R = (R \ S) \cup S /\ (R \ S) \cap S = {}
  OBVIOUS
<1>2. Units(q, (R \ S) \cup S, k) = Units(q, R \ S, k) + Units(q, S, k)
  BY <1>1, UnitsAddUp
<1>3. Units(q, R \ S, k) \in Nat /\ Units(q, S, k) \in Nat
  BY UnitsAreNatural
<1>4. Units(q, R, k) = Units(q, (R \ S) \cup S, k)
  BY <1>1, Zenon
<1> QED
  BY <1>2, <1>3, <1>4

\* Only the quantities of the rows counted matter.
LEMMA UnitsOfUnchangedRows ==
  ASSUME NEW p, NEW q, NEW R, NEW k, \A r \in R : p[r] = q[r]
  PROVE  Units(p, R, k) = Units(q, R, k)
<1>1. Tokens(p, R, k) = Tokens(q, R, k)
  BY DEF Tokens
<1> QED
  BY <1>1 DEF Units

\* The rows of a new hold, one per key with units.
NewRows(s, g, alloc) == {<<s, j, g>> : j \in {i \in Keys : alloc[i] > 0}}

\* The rows of a new hold hold what was allocated.
LEMMA UnitsOfNewHold ==
  ASSUME NEW q, NEW s, NEW g, NEW alloc \in [Keys -> 0..MaxQty], NEW k \in Keys,
         \A r \in NewRows(s, g, alloc) : q[r] = alloc[r[2]]
  PROVE  Units(q, NewRows(s, g, alloc), k) = alloc[k]
<1> DEFINE N == NewRows(s, g, alloc)
<1>0. ASSUME NEW j \in Keys, alloc[j] > 0
      PROVE  <<s, j, g>> \in N /\ q[<<s, j, g>>] = alloc[j]
  <2>1. <<s, j, g>> \in N /\ <<s, j, g>>[2] = j
    BY <1>0 DEF NewRows
  <2> QED
    BY <2>1
<1>1. CASE alloc[k] > 0
  <2>1. Tokens(q, N, k) = {<<s, k, g>>} \X (1..alloc[k])
    <3>1. alloc[k] <= MaxQty /\ alloc[k] \in Nat /\ MaxQty \in Nat
      BY InventoryAssumption
    <3>2. ASSUME NEW token \in Tokens(q, N, k)
          PROVE  token \in {<<s, k, g>>} \X (1..alloc[k])
      <4>1. token \in N \X (1..MaxQty) /\ token[1][2] = k /\ token[2] <= q[token[1]]
        BY <3>2 DEF Tokens
      <4>2. PICK j \in Keys : token[1] = <<s, j, g>>
        BY <4>1 DEF NewRows
      <4>3. j = k
        BY <4>1, <4>2
      <4>4. token[2] \in 1..MaxQty /\ token[2] <= alloc[k]
        BY <4>1, <4>2, <4>3, <1>0, <1>1
      <4> QED
        BY <4>1, <4>2, <4>3, <4>4, <3>1
    <3>3. ASSUME NEW token \in {<<s, k, g>>} \X (1..alloc[k])
          PROVE  token \in Tokens(q, N, k)
      <4>1. token[1] = <<s, k, g>> /\ token[2] \in 1..alloc[k] /\ token = <<token[1], token[2]>>
        BY <3>3
      <4>2. <<s, k, g>> \in N
        BY <1>0, <1>1
      <4>3. token[2] \in 1..MaxQty /\ token[2] <= q[<<s, k, g>>]
        BY <4>1, <3>1, <1>0, <1>1
      <4> QED
        BY <4>1, <4>2, <4>3 DEF Tokens
    <3> QED
      BY <3>2, <3>3
  <2>2. IsFiniteSet(1..alloc[k]) /\ Cardinality(1..alloc[k]) = alloc[k]
    BY <1>1, FS_Interval, InventoryAssumption
  <2>3. IsFiniteSet({<<s, k, g>>}) /\ Cardinality({<<s, k, g>>}) = 1
    BY FS_Singleton
  <2>4. Cardinality({<<s, k, g>>} \X (1..alloc[k])) = 1 * alloc[k]
    <3>1. Cardinality({<<s, k, g>>} \X (1..alloc[k]))
            = Cardinality({<<s, k, g>>}) * Cardinality(1..alloc[k])
      BY <2>2, <2>3, FS_Product, Zenon
    <3> QED
      BY <3>1, <2>2, <2>3, Zenon
  <2>5. 1 * alloc[k] = alloc[k]
    BY <1>1, InventoryAssumption
  <2>6. Units(q, N, k) = Cardinality({<<s, k, g>>} \X (1..alloc[k]))
    BY <2>1, Zenon DEF Units
  <2> QED
    BY <2>4, <2>5, <2>6
<1>2. CASE ~(alloc[k] > 0)
  <2>1. alloc[k] = 0
    BY <1>2, InventoryAssumption
  <2>2. Tokens(q, N, k) = {}
    BY <1>2 DEF Tokens, NewRows
  <2> QED
    BY <2>1, <2>2, FS_EmptySet DEF Units
<1> QED
  BY <1>1, <1>2

-----------------------------------------------------------------------------
(***************************************************************************)
(* Types.                                                                  *)
(***************************************************************************)

\* The units at every key make an integer function, so entries are integers.
LEMMA UnitsInNatural ==
  ASSUME NEW R \in SUBSET Rows, NEW k
  PROVE  UnitsIn(R, k) \in Nat
<1>1. UnitsIn(R, k) = Units(quantity, R, k)
  BY DEF UnitsIn, UnitTokens, Units, Tokens
<1> QED
  BY <1>1, UnitsAreNatural

\* The ledger's reasons, one by one.
LEMMA ReasonsListed ==
  /\ "PHYSICAL" \in Reasons /\ "RESERVATION" \in Reasons
  /\ "RESERVATION_RELEASE" \in Reasons /\ "ALLOCATION" \in Reasons
  /\ "FULFILMENT" \in Reasons /\ "ALLOCATION_RELEASE" \in Reasons
  BY DEF Reasons

\* Posting integer deltas keeps the ledger's sums integers.
LEMMA PostTyped ==
  ASSUME NEW lg \in [Keys -> [Reasons -> Int]], NEW reason \in Reasons,
         NEW e \in [Keys -> Int]
  PROVE  Post(lg, reason, e) \in [Keys -> [Reasons -> Int]]
  BY DEF Post

\* Entries of released rows are integers.
LEMMA ReleaseEntriesTyped ==
  ASSUME NEW R \in SUBSET Rows
  PROVE  ReleaseEntries(R) \in [Keys -> Int]
  BY UnitsInNatural DEF ReleaseEntries

\* The latch stays Boolean, and what evaluations read keeps its types.
LEMMA LatchTyped ==
  ASSUME TypeOK, NEW vs, NEW keys, EvaluateLowStock(vs, keys)
  PROVE  alert' \in [Keys -> BOOLEAN] /\ views' \in [Evaluations -> View]
<1>1. alert \in [Keys -> BOOLEAN] /\ views \in [Evaluations -> View]
  BY DEF TypeOK
<1>2. CASE EvaluateAtOnce(vs, keys)
  <2>1. \A k \in Keys : LowStock(k[1])' \in BOOLEAN
    BY DEF LowStock
  <2> QED
    BY <1>1, <1>2, <2>1 DEF EvaluateAtOnce
<1>3. ASSUME NEW e \in Evaluations, EvaluateAsRead(e, vs, keys)
      PROVE  alert' \in [Keys -> BOOLEAN] /\ views' \in [Evaluations -> View]
  <2>1. \A k \in Keys : SeenLow(views[e], k[1]) \in BOOLEAN
    BY DEF SeenLow
  <2>2. NoView \in View
    BY DEF NoView, View
  <2> QED
    BY <1>1, <1>3, <2>1, <2>2 DEF EvaluateAsRead
<1> QED
  BY <1>2, <1>3 DEF EvaluateLowStock

\* The reads of an evaluation change nothing others can see.
LEMMA EvaluationsOnlyRead ==
  ASSUME NEW e, EvaluationNext(e)
  PROVE  UNCHANGED <<counters, alert, settings, holds, now, sweeps>>
BY DEF EvaluationNext, ReadAvailability, ReadLatches, RollBack

\* The reads of an evaluation keep the types.
LEMMA EvaluationTyped ==
  ASSUME TypeOK, NEW e \in Evaluations, EvaluationNext(e)
  PROVE  TypeOK'
<1>1. views' \in [Evaluations -> View]
  <2>1. views \in [Evaluations -> View] /\ NoView \in View
    BY DEF TypeOK, NoView, View
  <2>2. ASSUME NEW keys \in SUBSET Keys, ReadAvailability(e, keys) PROVE views' \in [Evaluations -> View]
    <3> DEFINE view == [NoView EXCEPT !.at = "available", !.keys = keys,
                                      !.units = [k \in Keys |-> AvailableUnits(k)],
                                      !.points = reorderPoint, !.sellable = sellable]
    <3>1. [k \in Keys |-> AvailableUnits(k)] \in [Keys -> Int]
      BY DEF AvailableUnits, TypeOK
    <3>2. reorderPoint \in [Keys -> Nat] /\ sellable \in SUBSET Locations
      <4>1. ReorderPoints \cup {0} \subseteq Nat
        BY InventoryAssumption
      <4>2. reorderPoint \in [Keys -> ReorderPoints \cup {0}] /\ sellable \subseteq Locations
        BY DEF TypeOK
      <4> QED
        BY <4>1, <4>2
    <3>3. view \in View
      BY <3>1, <3>2 DEF NoView, View
    <3>4. views' = [views EXCEPT ![e] = view]
      BY <2>2 DEF ReadAvailability
    <3> HIDE DEF view
    <3> QED
      BY <2>1, <3>3, <3>4
  <2>3. CASE ReadLatches(e)
    <3> DEFINE view == [views[e] EXCEPT !.at = "latched", !.alerted = alert, !.rows = sellable]
    <3>1. view \in View
      BY <2>1 DEF View, TypeOK
    <3>2. views' = [views EXCEPT ![e] = view]
      BY <2>1, <2>3 DEF ReadLatches
    <3> HIDE DEF view
    <3> QED
      BY <2>1, <3>1, <3>2
  <2>4. CASE RollBack(e)
    BY <2>1, <2>4 DEF RollBack
  <2> QED
    BY <2>2, <2>3, <2>4 DEF EvaluationNext
<1> QED
  BY <1>1, EvaluationsOnlyRead DEF TypeOK, counters, settings, holds, sweeps

\* Accounting by integers leaves integers.
LEMMA ReservationAccountingTyped ==
  ASSUME TypeOK, NEW dr \in [Keys -> Int], NEW da \in [Keys -> Int],
         ReservationAccounting(dr, da)
  PROVE  reserved' \in [Keys -> Int] /\ allocated' \in [Keys -> Int]
  BY DEF TypeOK, ReservationAccounting

\* The accounting of released rows keeps the types of the counters and the ledger.
LEMMA ReleaseAccountingTyped ==
  ASSUME TypeOK, NEW R \in SUBSET Rows, ReleaseAccounting(R)
  PROVE  /\ reserved' \in [Keys -> Int] /\ allocated' \in [Keys -> Int]
         /\ ledger' \in [Keys -> [Reasons -> Int]]
<1>1. ReleaseEntries(R) \in [Keys -> Int]
  BY ReleaseEntriesTyped
<1>2. [k \in Keys |-> 0] \in [Keys -> Int]
  OBVIOUS
<1>3. ledger \in [Keys -> [Reasons -> Int]]
  BY DEF TypeOK
<1>4. ledger' = Post(ledger, "RESERVATION_RELEASE", ReleaseEntries(R))
  BY DEF ReleaseAccounting
<1>5. ledger' \in [Keys -> [Reasons -> Int]]
  BY <1>1, <1>3, <1>4, PostTyped, ReasonsListed
<1>6. reserved' \in [Keys -> Int] /\ allocated' \in [Keys -> Int]
  BY <1>1, <1>2, ReservationAccountingTyped DEF ReleaseAccounting
<1> QED
  BY <1>5, <1>6

(* The initial state, then one lemma per action. *)
\* The types hold initially.
LEMMA InitTyped == Init => TypeOK
<1>1. NoView \in View
  BY DEF NoView, View
<1> QED
  BY <1>1, InventoryAssumption, ReasonsListed DEF Init, TypeOK, Statuses

\* The types survive a procurement movement.
LEMMA ApplyStockChangesTyped ==
  ASSUME TypeOK, NEW m, DOMAIN m \subseteq Keys, \A k \in DOMAIN m : m[k] \in Int \X Int,
         ApplyStockChanges(m)
  PROVE  TypeOK'
<1> DEFINE dOnHand   == [k \in Keys |-> IF k \in DOMAIN m THEN m[k][1] ELSE 0]
           dIncoming == [k \in Keys |-> IF k \in DOMAIN m THEN m[k][2] ELSE 0]
<1>1. dOnHand \in [Keys -> Int] /\ dIncoming \in [Keys -> Int]
  OBVIOUS
<1>2. /\ onHand' = [k \in Keys |-> onHand[k] + dOnHand[k]]
      /\ incoming' = [k \in Keys |-> incoming[k] + dIncoming[k]]
      /\ ledger' = Post(ledger, "PHYSICAL", dOnHand)
      /\ UNCHANGED <<reserved, allocated, settings, holds, now, sweeps>>
  BY DEF ApplyStockChanges
<1>3. onHand' \in [Keys -> Int] /\ incoming' \in [Keys -> Int]
  BY <1>1, <1>2 DEF TypeOK
<1>4. ledger' \in [Keys -> [Reasons -> Int]]
  BY <1>1, <1>2, PostTyped, ReasonsListed DEF TypeOK
<1>5. alert' \in [Keys -> BOOLEAN] /\ views' \in [Evaluations -> View]
  BY LatchTyped DEF ApplyStockChanges
<1> QED
  BY <1>2, <1>3, <1>4, <1>5 DEF TypeOK, settings, holds, sweeps

\* The types survive a manual adjustment.
LEMMA AdjustTyped ==
  ASSUME TypeOK, NEW k \in Keys, NEW delta \in Deltas, Adjust(k, delta)
  PROVE  TypeOK'
<1> DEFINE entries == [j \in Keys |-> IF j = k THEN delta ELSE 0]
<1>1. delta \in Int /\ entries \in [Keys -> Int]
  BY InventoryAssumption
<1>2. /\ onHand' = [onHand EXCEPT ![k] = @ + delta]
      /\ ledger' = Post(ledger, "PHYSICAL", entries)
      /\ UNCHANGED <<reserved, allocated, incoming, settings, holds, now, sweeps>>
  BY DEF Adjust
<1>3. onHand' \in [Keys -> Int]
  BY <1>1, <1>2 DEF TypeOK
<1>4. ledger' \in [Keys -> [Reasons -> Int]]
  BY <1>1, <1>2, PostTyped, ReasonsListed DEF TypeOK
<1>5. alert' \in [Keys -> BOOLEAN] /\ views' \in [Evaluations -> View]
  BY LatchTyped DEF Adjust
<1> QED
  BY <1>2, <1>3, <1>4, <1>5 DEF TypeOK, settings, holds, sweeps

\* The types survive a dispatch or a cancelled allocation.
LEMMA ApplyAllocatedTyped ==
  ASSUME TypeOK, NEW reason \in {"FULFILMENT", "ALLOCATION_RELEASE"},
         NEW m, DOMAIN m \subseteq Keys, \A k \in DOMAIN m : m[k] \in Int,
         ApplyAllocatedStockMovements(reason, m)
  PROVE  TypeOK'
<1> DEFINE units   == [k \in Keys |-> IF k \in DOMAIN m THEN m[k] ELSE 0]
           leaves  == [k \in Keys |-> IF reason = "FULFILMENT" THEN units[k] ELSE 0]
           entries == [k \in Keys |-> 0 - units[k]]
<1>1. units \in [Keys -> Int] /\ leaves \in [Keys -> Int] /\ entries \in [Keys -> Int]
  OBVIOUS
<1>2. /\ allocated' = [k \in Keys |-> allocated[k] - units[k]]
      /\ onHand' = [k \in Keys |-> onHand[k] - leaves[k]]
      /\ ledger' = Post(ledger, reason, entries)
      /\ UNCHANGED <<reserved, incoming, settings, holds, now, sweeps>>
  BY DEF ApplyAllocatedStockMovements
<1>3. onHand' \in [Keys -> Int] /\ allocated' \in [Keys -> Int]
  BY <1>1, <1>2 DEF TypeOK
<1>4. ledger' \in [Keys -> [Reasons -> Int]]
  BY <1>1, <1>2, PostTyped, ReasonsListed DEF TypeOK
<1>5. alert' \in [Keys -> BOOLEAN] /\ views' \in [Evaluations -> View]
  BY LatchTyped DEF ApplyAllocatedStockMovements
<1> QED
  BY <1>2, <1>3, <1>4, <1>5 DEF TypeOK, settings, holds, sweeps

\* The rows an operation of a session works on are rows, and so are ACTIVE ones.
LEMMA SessionRows ==
  ASSUME NEW s, NEW t
  PROVE  /\ DueRows(s, t) \subseteq ActiveRows /\ HeldRows(s, t) \subseteq ActiveRows
         /\ ActiveRows \subseteq Rows /\ ConsumedRows \subseteq Rows
  BY DEF DueRows, HeldRows, ActiveRows, ConsumedRows

\* Expiring rows leaves every row a status.
LEMMA ExpiredTyped ==
  ASSUME TypeOK, NEW R
  PROVE  Expired(R) \in [Rows -> Statuses]
  BY DEF TypeOK, Expired, Statuses

\* The types survive a new hold.
LEMMA AcquireTyped ==
  ASSUME TypeOK, NEW s \in Sessions, NEW t \in RecentTimes, NEW lines \in Requests,
         NEW g \in Generations, NEW alloc \in [Keys -> 0..MaxQty],
         AcquireReservations(s, t, lines, g, alloc)
  PROVE  TypeOK'
<1> DEFINE due == DueRows(s, t)
           new == {<<s, k, g>> : k \in {j \in Keys : alloc[j] > 0}}
           dReserved == [k \in Keys |-> alloc[k] - UnitsIn(due, k)]
           dAllocated == [k \in Keys |-> 0]
<1>1. t \in 0..MaxTime /\ t + Ttl \in 0..(MaxTime + MaxHold)
  BY InventoryAssumption DEF RecentTimes, TypeOK
<1>2. due \in SUBSET Rows
  BY SessionRows
<1>3. /\ ReservationAccounting(dReserved, dAllocated)
      /\ ledger' = Post(Post(ledger, "RESERVATION_RELEASE", ReleaseEntries(due)),
                        "RESERVATION", alloc)
      /\ status' = [r \in Rows |-> IF r \in new THEN "ACTIVE" ELSE Expired(due)[r]]
      /\ quantity'  = [r \in Rows |-> IF r \in new THEN alloc[r[2]] ELSE quantity[r]]
      /\ createdAt' = [r \in Rows |-> IF r \in new THEN t ELSE createdAt[r]]
      /\ expiresAt' = [r \in Rows |-> IF r \in new THEN t + Ttl ELSE expiresAt[r]]
      /\ UNCHANGED <<onHand, incoming, settings, now, sweeps>>
  BY DEF AcquireReservations
<1>4. alloc \in [Keys -> Int] /\ dReserved \in [Keys -> Int] /\ dAllocated \in [Keys -> Int]
  BY <1>2, UnitsInNatural, InventoryAssumption
<1>5. reserved' \in [Keys -> Int] /\ allocated' \in [Keys -> Int]
  BY <1>3, <1>4, ReservationAccountingTyped
<1>6. ledger' \in [Keys -> [Reasons -> Int]]
  <2>1. Post(ledger, "RESERVATION_RELEASE", ReleaseEntries(due)) \in [Keys -> [Reasons -> Int]]
    BY <1>2, ReleaseEntriesTyped, PostTyped, ReasonsListed DEF TypeOK
  <2> QED
    BY <1>3, <1>4, <2>1, PostTyped, ReasonsListed
<1>7. status' \in [Rows -> Statuses]
  BY <1>3, ExpiredTyped DEF Statuses
<1>8. quantity' \in [Rows -> 0..MaxQty]
  <2>1. \A r \in Rows : r[2] \in Keys
    BY DEF Rows
  <2> QED
    BY <1>3, <2>1 DEF TypeOK
<1>9. createdAt' \in [Rows -> 0..MaxTime] /\ expiresAt' \in [Rows -> 0..(MaxTime + MaxHold)]
  BY <1>1, <1>3 DEF TypeOK
<1>10. alert' \in [Keys -> BOOLEAN] /\ views' \in [Evaluations -> View]
  BY LatchTyped DEF AcquireReservations
<1> QED
  BY <1>3, <1>5, <1>6, <1>7, <1>8, <1>9, <1>10 DEF TypeOK, settings, sweeps

\* The types survive a release.
LEMMA ReleaseTyped ==
  ASSUME TypeOK, NEW s, NEW t, ReleaseReservations(s, t)
  PROVE  TypeOK'
<1>1. DueRows(s, t) \cup HeldRows(s, t) \in SUBSET Rows
  BY SessionRows
<1>2. /\ reserved' \in [Keys -> Int] /\ allocated' \in [Keys -> Int]
      /\ ledger' \in [Keys -> [Reasons -> Int]]
  BY <1>1, ReleaseAccountingTyped DEF ReleaseReservations
<1>3. status' \in [Rows -> Statuses]
  BY ExpiredTyped DEF ReleaseReservations, Statuses
<1>4. alert' \in [Keys -> BOOLEAN] /\ views' \in [Evaluations -> View]
  BY LatchTyped DEF ReleaseReservations
<1> QED
  BY <1>2, <1>3, <1>4 DEF ReleaseReservations, TypeOK, settings, sweeps

\* The types survive an extension.
LEMMA ExtendTyped ==
  ASSUME TypeOK, NEW s, NEW t, ExtendReservationsOnce(s, t)
  PROVE  TypeOK'
<1> DEFINE extended == {r \in HeldRows(s, t) : expiresAt[r] < ExtendedExpiry(r)}
<1>1. DueRows(s, t) \in SUBSET Rows
  BY SessionRows
<1>2. /\ reserved' \in [Keys -> Int] /\ allocated' \in [Keys -> Int]
      /\ ledger' \in [Keys -> [Reasons -> Int]]
  BY <1>1, ReleaseAccountingTyped DEF ExtendReservationsOnce
<1>3. status' \in [Rows -> Statuses]
  BY ExpiredTyped DEF ExtendReservationsOnce
<1>4. alert' \in [Keys -> BOOLEAN] /\ views' \in [Evaluations -> View]
  BY LatchTyped DEF ExtendReservationsOnce
<1>5. expiresAt' = [r \in Rows |-> IF r \in extended THEN ExtendedExpiry(r) ELSE expiresAt[r]]
  BY DEF ExtendReservationsOnce
<1>6. \A r \in Rows : ExtendedExpiry(r) \in 0..(MaxTime + MaxHold)
  BY InventoryAssumption DEF ExtendedExpiry, TypeOK
<1>7. expiresAt' \in [Rows -> 0..(MaxTime + MaxHold)]
  BY <1>5, <1>6 DEF TypeOK
<1> QED
  BY <1>2, <1>3, <1>4, <1>7 DEF ExtendReservationsOnce, TypeOK, settings, sweeps

\* The types survive a consumption.
LEMMA ConsumeTyped ==
  ASSUME TypeOK, NEW s, NEW t, ConsumeReservations(s, t)
  PROVE  TypeOK'
<1> DEFINE due == DueRows(s, t)
           held == HeldRows(s, t)
           dReserved == [k \in Keys |-> 0 - UnitsIn(due \cup held, k)]
           dAllocated == [k \in Keys |-> UnitsIn(held, k)]
<1>1. due \in SUBSET Rows /\ held \in SUBSET Rows /\ due \cup held \in SUBSET Rows
  BY SessionRows
<1>2. dReserved \in [Keys -> Int] /\ dAllocated \in [Keys -> Int]
  BY <1>1, UnitsInNatural
<1>3. /\ ReservationAccounting(dReserved, dAllocated)
      /\ ledger' = Post(Post(ledger, "RESERVATION_RELEASE", ReleaseEntries(due)),
                        "ALLOCATION", dAllocated)
  BY DEF ConsumeReservations
<1>4. reserved' \in [Keys -> Int] /\ allocated' \in [Keys -> Int]
  BY <1>2, <1>3, ReservationAccountingTyped
<1>5. ledger' \in [Keys -> [Reasons -> Int]]
  <2>1. Post(ledger, "RESERVATION_RELEASE", ReleaseEntries(due)) \in [Keys -> [Reasons -> Int]]
    BY <1>1, ReleaseEntriesTyped, PostTyped, ReasonsListed DEF TypeOK
  <2> QED
    BY <1>2, <1>3, <2>1, PostTyped, ReasonsListed
<1>6. status' \in [Rows -> Statuses]
  BY ExpiredTyped DEF ConsumeReservations, Statuses
<1>7. alert' \in [Keys -> BOOLEAN] /\ views' \in [Evaluations -> View]
  BY LatchTyped DEF ConsumeReservations
<1> QED
  BY <1>4, <1>5, <1>6, <1>7 DEF ConsumeReservations, TypeOK, settings, sweeps

\* The types survive a replayed consumption.
LEMMA ReplayTyped ==
  ASSUME TypeOK, NEW s, NEW t, ReplayConsumption(s, t)
  PROVE  TypeOK'
<1>1. DueRows(s, t) \in SUBSET Rows
  BY SessionRows
<1>2. /\ reserved' \in [Keys -> Int] /\ allocated' \in [Keys -> Int]
      /\ ledger' \in [Keys -> [Reasons -> Int]]
  BY <1>1, ReleaseAccountingTyped DEF ReplayConsumption
<1>3. status' \in [Rows -> Statuses]
  BY ExpiredTyped DEF ReplayConsumption
<1> QED
  BY <1>2, <1>3 DEF ReplayConsumption, TypeOK, latch, settings, sweeps

\* The types survive the steps of a sweep.
LEMMA SweepTyped ==
  ASSUME TypeOK, NEW w \in Sweepers, SweepNext(w)
  PROVE  TypeOK'
<1>1. ASSUME NEW vs, SweepList(w, vs) PROVE TypeOK'
  BY <1>1 DEF SweepList, ListExpired, ActiveRows, TypeOK, counters, latch, settings, holds
<1>2. ASSUME SweepExpire(w) PROVE TypeOK'
  <2>1. StillDue(w) \in SUBSET Rows
    BY DEF StillDue, TypeOK
  <2>2. /\ reserved' \in [Keys -> Int] /\ allocated' \in [Keys -> Int]
        /\ ledger' \in [Keys -> [Reasons -> Int]]
    BY <1>2, <2>1, ReleaseAccountingTyped DEF SweepExpire
  <2>3. status' \in [Rows -> Statuses]
    BY <1>2, ExpiredTyped DEF SweepExpire
  <2>4. alert' \in [Keys -> BOOLEAN] /\ views' \in [Evaluations -> View]
    BY <1>2, LatchTyped DEF SweepExpire
  <2>5. listed' \in [Sweepers -> SUBSET Rows] /\ listedAt' \in [Sweepers -> 0..MaxTime]
    BY <1>2, InventoryAssumption DEF SweepExpire, SweepEnds, TypeOK
  <2> QED
    BY <1>2, <2>2, <2>3, <2>4, <2>5 DEF SweepExpire, TypeOK, settings
<1>3. ASSUME SweepAbandon(w) PROVE TypeOK'
  BY <1>3, InventoryAssumption DEF SweepAbandon, SweepEnds, TypeOK, counters, latch, settings, holds
<1> QED
  BY <1>1, <1>2, <1>3 DEF SweepNext

\* The types survive planning and location edits.
LEMMA AdminTyped ==
  ASSUME TypeOK, AdminNext
  PROVE  TypeOK'
<1>1. ASSUME NEW k \in Keys, NEW point \in ReorderPoints, SetPlanning(k, point) PROVE TypeOK'
  BY <1>1 DEF SetPlanning, TypeOK, counters, latch, holds, sweeps
<1>2. ASSUME NEW l \in Locations, NEW isSellable \in BOOLEAN, NEW isDefault \in BOOLEAN,
             UpdateLocation(l, isSellable, isDefault)
      PROVE  TypeOK'
  BY <1>2, InventoryAssumption DEF UpdateLocation, TypeOK, counters, latch, holds, sweeps
<1>3. \A edit \in LocationEdits : edit[1] \in Locations /\ edit[2] \in BOOLEAN /\ edit[3] \in BOOLEAN
  BY LocationEditsAssumption
<1> QED
  BY <1>1, <1>2, <1>3 DEF AdminNext

\* The types survive every step.
LEMMA StepTyped ==
  ASSUME TypeOK, [Next]_vars
  PROVE  TypeOK'
<1>1. ASSUME StockNext PROVE TypeOK'
  <2>1. ASSUME NEW k \in Keys, NEW delta \in Deltas, Adjust(k, delta) PROVE TypeOK'
    BY <2>1, AdjustTyped
  <2>2. ASSUME NEW m \in Movements(StockChanges), ApplyStockChanges(m) PROVE TypeOK'
    <3>1. DOMAIN m \subseteq Keys /\ \A k \in DOMAIN m : m[k] \in Int \X Int
      BY InventoryAssumption DEF Movements
    <3> QED
      BY <2>2, <3>1, ApplyStockChangesTyped
  <2>3. ASSUME NEW k \in Keys, NEW q \in 1..MaxQty, ReceiveProduction(k, q) PROVE TypeOK'
    <3> DEFINE m == [j \in {k} |-> <<q, 0>>]
    <3>1. DOMAIN m \subseteq Keys /\ \A j \in DOMAIN m : m[j] \in Int \X Int
      BY InventoryAssumption
    <3>2. ApplyStockChanges(m)
      BY <2>3 DEF ReceiveProduction
    <3> QED
      BY <3>1, <3>2, ApplyStockChangesTyped
  <2>4. ASSUME NEW reason \in {"FULFILMENT", "ALLOCATION_RELEASE"},
               NEW m \in Movements(1..MaxQty), ApplyAllocatedStockMovements(reason, m)
        PROVE  TypeOK'
    <3>1. DOMAIN m \subseteq Keys /\ \A k \in DOMAIN m : m[k] \in Int
      BY InventoryAssumption DEF Movements
    <3> QED
      BY <2>4, <3>1, ApplyAllocatedTyped
  <2> QED
    BY <1>1, <2>1, <2>2, <2>3, <2>4 DEF StockNext
<1>2. ASSUME NEW s \in Sessions, SessionNext(s) PROVE TypeOK'
  BY <1>2, AcquireTyped, ReleaseTyped, ExtendTyped, ConsumeTyped, ReplayTyped DEF SessionNext
<1>3. ASSUME NEW w \in Sweepers, SweepNext(w) PROVE TypeOK'
  BY <1>3, SweepTyped
<1>4. ASSUME AdminNext PROVE TypeOK'
  BY <1>4, AdminTyped
<1>5. ASSUME Tick PROVE TypeOK'
  BY <1>5, InventoryAssumption DEF Tick, TypeOK, counters, latch, settings, holds, sweeps
<1>6. ASSUME UNCHANGED vars PROVE TypeOK'
  BY <1>6 DEF vars, TypeOK, counters, latch, settings, holds, sweeps
<1>7. ASSUME NEW e \in Evaluations, EvaluationNext(e) PROVE TypeOK'
  BY <1>7, EvaluationTyped
<1> QED
  BY <1>1, <1>2, <1>3, <1>4, <1>5, <1>6, <1>7 DEF Next

\* Every behaviour of the inventory keeps its columns within their types.
THEOREM InventoryTypeCorrect == Spec => []TypeOK
<1>1. Init => TypeOK
  BY InitTyped
<1>2. TypeOK /\ [Next]_vars => TypeOK'
  BY StepTyped
<1> QED
  BY <1>1, <1>2, PTL DEF Spec

-----------------------------------------------------------------------------
(***************************************************************************)
(* The books: ledger, counters and reservation rows agree.                 *)
(***************************************************************************)
Books == /\ LedgerProjectsCounters
         /\ NoOversell
         /\ ReservedAreActiveHolds
         /\ AllocatedAreConsumedHolds

\* The inductive invariant.
IInv == TypeOK /\ Books

\* What an entry of delta d adds to each counter, reason by reason.
OnHandEffect(reason, d) == IF reason \in {"PHYSICAL", "FULFILMENT"} THEN d ELSE 0
ReservedEffect(reason, d) ==
  IF reason \in {"RESERVATION", "RESERVATION_RELEASE"} THEN d
  ELSE IF reason = "ALLOCATION" THEN 0 - d ELSE 0
AllocatedEffect(reason, d) ==
  IF reason \in {"ALLOCATION", "FULFILMENT", "ALLOCATION_RELEASE"} THEN d ELSE 0

\* What one posting does to the reading of the ledger.
LEMMA ProjectionOfPost ==
  ASSUME NEW lg \in [Keys -> [Reasons -> Int]], NEW reason \in Reasons,
         NEW e \in [Keys -> Int], NEW k \in Keys
  PROVE  /\ Projection(Post(lg, reason, e)[k]).onHand
              = Projection(lg[k]).onHand + OnHandEffect(reason, e[k])
         /\ Projection(Post(lg, reason, e)[k]).reserved
              = Projection(lg[k]).reserved + ReservedEffect(reason, e[k])
         /\ Projection(Post(lg, reason, e)[k]).allocated
              = Projection(lg[k]).allocated + AllocatedEffect(reason, e[k])
<1>1. Post(lg, reason, e)[k] = [lg[k] EXCEPT ![reason] = @ + e[k]]
  BY DEF Post
<1>2. lg[k] \in [Reasons -> Int] /\ e[k] \in Int
  OBVIOUS
<1>3. \A r \in Reasons : Post(lg, reason, e)[k][r] = lg[k][r] + (IF r = reason THEN e[k] ELSE 0)
  BY <1>1, <1>2
<1>4. \A r \in Reasons : lg[k][r] \in Int
  BY <1>2
<1> QED
  BY <1>2, <1>3, <1>4, ReasonsListed
     DEF Projection, Reasons, OnHandEffect, ReservedEffect, AllocatedEffect

\* What one posting does to the sums themselves.
LEMMA PostEntries ==
  ASSUME NEW lg \in [Keys -> [Reasons -> Int]], NEW reason \in Reasons,
         NEW e \in [Keys -> Int], NEW k \in Keys
  PROVE  /\ \A other \in Reasons \ {reason} : Post(lg, reason, e)[k][other] = lg[k][other]
         /\ Post(lg, reason, e)[k][reason] = lg[k][reason] + e[k]
  BY DEF Post

\* A posting leaves the sums of the other reasons alone.
LEMMA PostedElsewhere ==
  ASSUME NEW lg \in [Keys -> [Reasons -> Int]], NEW reason \in Reasons,
         NEW e \in [Keys -> Int], NEW k \in Keys,
         NEW other \in Reasons, other # reason
  PROVE  Post(lg, reason, e)[k][other] = lg[k][other]
<1>1. Post(lg, reason, e)[k] = [lg[k] EXCEPT ![reason] = @ + e[k]]
  BY DEF Post
<1> QED
  BY <1>1

\* A ledger lg accounts for the counters oh, rs and al.
Accounts(lg, oh, rs, al) ==
  \A k \in Keys : /\ Projection(lg[k]).onHand = oh[k]
                  /\ Projection(lg[k]).reserved = rs[k]
                  /\ Projection(lg[k]).allocated = al[k]

\* The invariant on the ledger, before and after a step, in these terms.
LEMMA LedgerAccounts ==
  /\ LedgerProjectsCounters <=> Accounts(ledger, onHand, reserved, allocated)
  /\ LedgerProjectsCounters' <=> Accounts(ledger', onHand', reserved', allocated')
  BY DEF LedgerProjectsCounters, Accounts, Projection

\* The counters oh2, rs2 and al2 are oh, rs and al after a posting.
Follows(reason, e, oh, rs, al, oh2, rs2, al2) ==
  \A k \in Keys : /\ oh2[k] = oh[k] + OnHandEffect(reason, e[k])
                  /\ rs2[k] = rs[k] + ReservedEffect(reason, e[k])
                  /\ al2[k] = al[k] + AllocatedEffect(reason, e[k])

\* Counters that follow a posting stay accounted for.
LEMMA PostAccounts ==
  ASSUME NEW lg \in [Keys -> [Reasons -> Int]], NEW reason \in Reasons,
         NEW e \in [Keys -> Int],
         NEW oh, NEW rs, NEW al, Accounts(lg, oh, rs, al),
         NEW oh2, NEW rs2, NEW al2, Follows(reason, e, oh, rs, al, oh2, rs2, al2)
  PROVE  Accounts(Post(lg, reason, e), oh2, rs2, al2)
<1>1. ASSUME NEW k \in Keys
      PROVE  /\ Projection(Post(lg, reason, e)[k]).onHand = oh2[k]
             /\ Projection(Post(lg, reason, e)[k]).reserved = rs2[k]
             /\ Projection(Post(lg, reason, e)[k]).allocated = al2[k]
  <2>1. /\ Projection(Post(lg, reason, e)[k]).onHand
             = Projection(lg[k]).onHand + OnHandEffect(reason, e[k])
        /\ Projection(Post(lg, reason, e)[k]).reserved
             = Projection(lg[k]).reserved + ReservedEffect(reason, e[k])
        /\ Projection(Post(lg, reason, e)[k]).allocated
             = Projection(lg[k]).allocated + AllocatedEffect(reason, e[k])
    BY ProjectionOfPost, Zenon
  <2>2. /\ Projection(lg[k]).onHand = oh[k] /\ Projection(lg[k]).reserved = rs[k]
        /\ Projection(lg[k]).allocated = al[k]
    BY DEF Accounts
  <2> QED
    BY <2>1, <2>2, Zenon DEF Follows
<1> QED
  BY <1>1, Zenon DEF Accounts

\* Both sides of a step, in terms of Units.
LEMMA UnitsBeforeAndAfter ==
  ASSUME NEW k
  PROVE  /\ UnitsIn(ActiveRows, k) = Units(quantity, ActiveRows, k)
         /\ UnitsIn(ConsumedRows, k) = Units(quantity, ConsumedRows, k)
         /\ UnitsIn(ActiveRows, k)' = Units(quantity', ActiveRows', k)
         /\ UnitsIn(ConsumedRows, k)' = Units(quantity', ConsumedRows', k)
         /\ \A R : UnitsIn(R, k) = Units(quantity, R, k)
  BY DEF UnitsIn, UnitTokens, Units, Tokens

\* ACTIVE rows that leave by a release or an expiry take their units with them.
LEMMA ReleaseKeepsBooks ==
  ASSUME IInv, NEW R \in SUBSET ActiveRows, ReleaseAccounting(R),
         UNCHANGED <<onHand, incoming, quantity>>,
         ActiveRows' = ActiveRows \ R, ConsumedRows' = ConsumedRows
  PROVE  Books'
<1> DEFINE e == ReleaseEntries(R)
<1>1. TypeOK /\ Books
  BY DEF IInv
<1>2. R \in SUBSET Rows /\ ActiveRows \in SUBSET Rows
  BY DEF ActiveRows
<1>3. e \in [Keys -> Int] /\ \A k \in Keys : e[k] = 0 - UnitsIn(R, k)
  BY <1>2, ReleaseEntriesTyped DEF ReleaseEntries
<1>4. /\ ledger' = Post(ledger, "RESERVATION_RELEASE", e)
      /\ \A k \in Keys : /\ reserved'[k] = reserved[k] + e[k]
                         /\ allocated'[k] = allocated[k] + 0
                         /\ reserved'[k] >= 0 /\ allocated'[k] >= 0
                         /\ onHand[k] - reserved'[k] - allocated'[k] >= 0
  BY DEF ReleaseAccounting, ReservationAccounting
<1>5. reserved' \in [Keys -> Int] /\ allocated' \in [Keys -> Int]
  BY <1>1, <1>2, ReleaseAccountingTyped
<1>6. /\ onHand \in [Keys -> Int] /\ reserved \in [Keys -> Int] /\ allocated \in [Keys -> Int]
      /\ incoming \in [Keys -> Int] /\ ledger \in [Keys -> [Reasons -> Int]]
  BY <1>1 DEF TypeOK
<1>7. LedgerProjectsCounters'
  <2>1. Accounts(ledger, onHand, reserved, allocated)
    BY <1>1, LedgerAccounts DEF Books
  <2>2. Follows("RESERVATION_RELEASE", e, onHand, reserved, allocated,
                onHand', reserved', allocated')
    BY <1>4, <1>6 DEF Follows, OnHandEffect, ReservedEffect, AllocatedEffect
  <2>3. /\ ledger \in [Keys -> [Reasons -> Int]] /\ e \in [Keys -> Int]
        /\ "RESERVATION_RELEASE" \in Reasons
    BY <1>3, <1>6, ReasonsListed
  <2>4. Accounts(Post(ledger, "RESERVATION_RELEASE", e), onHand', reserved', allocated')
    BY <2>1, <2>2, <2>3, PostAccounts, Zenon
  <2> QED
    BY <1>4, <2>4, LedgerAccounts, Zenon
<1>8. NoOversell'
  BY <1>1, <1>4, <1>5, <1>6 DEF Books, NoOversell
<1>9. ReservedAreActiveHolds'
  <2>1. ASSUME NEW k \in Keys PROVE reserved'[k] = UnitsIn(ActiveRows, k)'
    <3>1. Units(quantity, ActiveRows \ R, k) = Units(quantity, ActiveRows, k) - Units(quantity, R, k)
      BY <1>2, UnitsTakenOut
    <3>2. UnitsIn(ActiveRows, k)' = Units(quantity, ActiveRows \ R, k)
      BY UnitsBeforeAndAfter, Zenon
    <3>3. reserved[k] = Units(quantity, ActiveRows, k) /\ UnitsIn(R, k) = Units(quantity, R, k)
      BY <1>1, UnitsBeforeAndAfter DEF Books, ReservedAreActiveHolds
    <3>4. Units(quantity, ActiveRows, k) \in Nat /\ Units(quantity, R, k) \in Nat
      BY <1>2, UnitsAreNatural
    <3>5. reserved'[k] = Units(quantity, ActiveRows, k) - Units(quantity, R, k)
      BY <1>3, <1>4, <3>3, <3>4
    <3> QED
      BY <3>1, <3>2, <3>5
  <2> QED
    BY <2>1 DEF ReservedAreActiveHolds
<1>10. AllocatedAreConsumedHolds'
  <2>1. ASSUME NEW k \in Keys
        PROVE  allocated'[k] = UnitsIn(ConsumedRows, k)'
                 + ledger'[k]["FULFILMENT"] + ledger'[k]["ALLOCATION_RELEASE"]
    <3>1. /\ ledger'[k]["FULFILMENT"] = ledger[k]["FULFILMENT"]
          /\ ledger'[k]["ALLOCATION_RELEASE"] = ledger[k]["ALLOCATION_RELEASE"]
      BY <1>3, <1>4, <1>6, PostEntries DEF Reasons
    <3>2. UnitsIn(ConsumedRows, k)' = UnitsIn(ConsumedRows, k)
      BY UnitsBeforeAndAfter, Zenon
    <3>3. allocated[k] = UnitsIn(ConsumedRows, k)
                           + ledger[k]["FULFILMENT"] + ledger[k]["ALLOCATION_RELEASE"]
      BY <1>1 DEF Books, AllocatedAreConsumedHolds
    <3>4. allocated'[k] = allocated[k]
      BY <1>4, <1>6
    <3> QED
      BY <3>1, <3>2, <3>3, <3>4
  <2> QED
    BY <2>1 DEF AllocatedAreConsumedHolds
<1> QED
  BY <1>7, <1>8, <1>9, <1>10 DEF Books

\* When no reservation row changes, neither do the units of the rows.
LEMMA RowsUnchanged ==
  ASSUME UNCHANGED <<status, quantity>>, NEW k
  PROVE  /\ UnitsIn(ActiveRows, k)' = UnitsIn(ActiveRows, k)
         /\ UnitsIn(ConsumedRows, k)' = UnitsIn(ConsumedRows, k)
  BY DEF UnitsIn, UnitTokens, ActiveRows, ConsumedRows

\* A step that touches neither counters nor rows keeps the books.
LEMMA UnchangedKeepsBooks ==
  ASSUME Books, UNCHANGED <<counters, status, quantity>>
  PROVE  Books'
<1>1. LedgerProjectsCounters' /\ NoOversell'
  BY DEF Books, LedgerProjectsCounters, NoOversell, counters
<1>2. ReservedAreActiveHolds' /\ AllocatedAreConsumedHolds'
  BY RowsUnchanged DEF Books, ReservedAreActiveHolds, AllocatedAreConsumedHolds, counters
<1> QED
  BY <1>1, <1>2 DEF Books

\* What the operations on physical stock have in common.
MovesStock(dOnHand, dIncoming) ==
  /\ \A k \in Keys : dOnHand[k] # 0 \/ dIncoming[k] # 0
                       => StockSuffices(k, dOnHand[k], dIncoming[k])
  /\ onHand' = [k \in Keys |-> onHand[k] + dOnHand[k]]
  /\ incoming' = [k \in Keys |-> incoming[k] + dIncoming[k]]
  /\ ledger' = Post(ledger, "PHYSICAL", dOnHand)
  /\ UNCHANGED <<reserved, allocated, status, quantity>>

\* A physical movement that leaves enough stock keeps the books.
LEMMA StockKeepsBooks ==
  ASSUME IInv, NEW dOnHand \in [Keys -> Int], NEW dIncoming \in [Keys -> Int],
         MovesStock(dOnHand, dIncoming)
  PROVE  Books'
<1>1. TypeOK /\ Books
  BY DEF IInv
<1>2. /\ onHand \in [Keys -> Int] /\ reserved \in [Keys -> Int] /\ allocated \in [Keys -> Int]
      /\ incoming \in [Keys -> Int] /\ ledger \in [Keys -> [Reasons -> Int]]
  BY <1>1 DEF TypeOK
<1>3. LedgerProjectsCounters'
  <2>1. Accounts(ledger, onHand, reserved, allocated)
    BY <1>1, LedgerAccounts DEF Books
  <2>2. Follows("PHYSICAL", dOnHand, onHand, reserved, allocated,
                onHand', reserved', allocated')
    BY <1>2 DEF MovesStock, Follows, OnHandEffect, ReservedEffect, AllocatedEffect
  <2>3. ledger \in [Keys -> [Reasons -> Int]] /\ "PHYSICAL" \in Reasons
    BY <1>2, ReasonsListed
  <2>4. Accounts(Post(ledger, "PHYSICAL", dOnHand), onHand', reserved', allocated')
    BY <2>1, <2>2, <2>3, PostAccounts, Zenon
  <2> QED
    BY <2>4, LedgerAccounts, Zenon DEF MovesStock
<1>4. NoOversell'
  <2>1. ASSUME NEW k \in Keys
        PROVE  /\ reserved'[k] >= 0 /\ allocated'[k] >= 0 /\ incoming'[k] >= 0
               /\ onHand'[k] >= reserved'[k] + allocated'[k]
    <3>1. /\ reserved[k] >= 0 /\ allocated[k] >= 0 /\ incoming[k] >= 0
          /\ onHand[k] >= reserved[k] + allocated[k]
      BY <1>1 DEF Books, NoOversell
    <3>2. onHand'[k] = onHand[k] + dOnHand[k] /\ incoming'[k] = incoming[k] + dIncoming[k]
      BY DEF MovesStock
    <3> QED
      BY <1>2, <3>1, <3>2 DEF MovesStock, StockSuffices
  <2> QED
    BY <2>1 DEF NoOversell
<1>5. ReservedAreActiveHolds'
  BY <1>1, RowsUnchanged DEF MovesStock, Books, ReservedAreActiveHolds
<1>6. AllocatedAreConsumedHolds'
  <2>1. ASSUME NEW k \in Keys
        PROVE  /\ ledger'[k]["FULFILMENT"] = ledger[k]["FULFILMENT"]
               /\ ledger'[k]["ALLOCATION_RELEASE"] = ledger[k]["ALLOCATION_RELEASE"]
    <3>1. ledger'[k] = Post(ledger, "PHYSICAL", dOnHand)[k]
      BY DEF MovesStock
    <3> QED
      <4>1. /\ "PHYSICAL" \in Reasons
            /\ "FULFILMENT" \in Reasons /\ "FULFILMENT" # "PHYSICAL"
            /\ "ALLOCATION_RELEASE" \in Reasons /\ "ALLOCATION_RELEASE" # "PHYSICAL"
        BY ReasonsListed
      <4>2. ledger \in [Keys -> [Reasons -> Int]]
        BY <1>2
      <4>3. Post(ledger, "PHYSICAL", dOnHand)[k]["FULFILMENT"] = ledger[k]["FULFILMENT"]
        BY <4>1, <4>2, PostedElsewhere, Zenon
      <4>4. Post(ledger, "PHYSICAL", dOnHand)[k]["ALLOCATION_RELEASE"]
              = ledger[k]["ALLOCATION_RELEASE"]
        BY <4>1, <4>2, PostedElsewhere, Zenon
      <4> QED
        BY <3>1, <4>3, <4>4, Zenon
  <2> QED
    BY <1>1, <2>1, RowsUnchanged DEF MovesStock, Books, AllocatedAreConsumedHolds
<1> QED
  BY <1>3, <1>4, <1>5, <1>6 DEF Books

\* Allocated units that are dispatched or released keep the books.
LEMMA ApplyAllocatedKeepsBooks ==
  ASSUME IInv, NEW reason \in {"FULFILMENT", "ALLOCATION_RELEASE"},
         NEW m, DOMAIN m \subseteq Keys, \A k \in DOMAIN m : m[k] \in Nat,
         ApplyAllocatedStockMovements(reason, m)
  PROVE  Books'
<1> DEFINE units   == [k \in Keys |-> IF k \in DOMAIN m THEN m[k] ELSE 0]
           leaves  == [k \in Keys |-> IF reason = "FULFILMENT" THEN units[k] ELSE 0]
           e == [k \in Keys |-> 0 - units[k]]
<1>1. TypeOK /\ Books
  BY DEF IInv
<1>2. /\ onHand \in [Keys -> Int] /\ reserved \in [Keys -> Int] /\ allocated \in [Keys -> Int]
      /\ incoming \in [Keys -> Int] /\ ledger \in [Keys -> [Reasons -> Int]]
  BY <1>1 DEF TypeOK
<1>3. /\ units \in [Keys -> Nat] /\ leaves \in [Keys -> Nat] /\ e \in [Keys -> Int]
      /\ reason \in Reasons
  BY DEF Reasons
<1>4. /\ allocated' = [k \in Keys |-> allocated[k] - units[k]]
      /\ onHand' = [k \in Keys |-> onHand[k] - leaves[k]]
      /\ ledger' = Post(ledger, reason, e)
      /\ UNCHANGED <<reserved, incoming, status, quantity>>
  BY DEF ApplyAllocatedStockMovements, holds
<1>5. \A k \in Keys : allocated[k] >= units[k]
  <2>1. \A k \in DOMAIN m : allocated[k] >= m[k]
    BY DEF ApplyAllocatedStockMovements
  <2> QED
    BY <2>1, <1>1, <1>2 DEF Books, NoOversell
<1>6. LedgerProjectsCounters'
  <2>1. Accounts(ledger, onHand, reserved, allocated)
    BY <1>1, LedgerAccounts DEF Books
  <2>2. Follows(reason, e, onHand, reserved, allocated, onHand', reserved', allocated')
    BY <1>2, <1>3, <1>4 DEF Follows, OnHandEffect, ReservedEffect, AllocatedEffect
  <2>3. Accounts(Post(ledger, reason, e), onHand', reserved', allocated')
    <3> HIDE DEF e
    <3> QED
      BY <1>2, <1>3, <2>1, <2>2, PostAccounts, Zenon
  <2> QED
    BY <1>4, <2>3, LedgerAccounts, Zenon
<1>7. NoOversell'
  <2>1. ASSUME NEW k \in Keys
        PROVE  /\ reserved'[k] >= 0 /\ allocated'[k] >= 0 /\ incoming'[k] >= 0
               /\ onHand'[k] >= reserved'[k] + allocated'[k]
    <3>1. /\ reserved[k] >= 0 /\ allocated[k] >= 0 /\ incoming[k] >= 0
          /\ onHand[k] >= reserved[k] + allocated[k]
      BY <1>1 DEF Books, NoOversell
    <3>2. /\ allocated'[k] = allocated[k] - units[k] /\ onHand'[k] = onHand[k] - leaves[k]
          /\ reserved'[k] = reserved[k] /\ incoming'[k] = incoming[k]
          /\ leaves[k] <= units[k]
      BY <1>3, <1>4
    <3> HIDE DEF units, leaves
    <3> QED
      BY <1>2, <1>3, <1>5, <3>1, <3>2
  <2> QED
    BY <2>1 DEF NoOversell
<1>8. ReservedAreActiveHolds'
  BY <1>1, <1>4, RowsUnchanged DEF Books, ReservedAreActiveHolds
<1>9. AllocatedAreConsumedHolds'
  <2>1. ASSUME NEW k \in Keys
        PROVE  allocated'[k] = UnitsIn(ConsumedRows, k)'
                 + ledger'[k]["FULFILMENT"] + ledger'[k]["ALLOCATION_RELEASE"]
    <3>1. ledger'[k]["FULFILMENT"] + ledger'[k]["ALLOCATION_RELEASE"]
            = ledger[k]["FULFILMENT"] + ledger[k]["ALLOCATION_RELEASE"] + e[k]
      <4>1. ledger'[k] = Post(ledger, reason, e)[k]
        BY <1>4
      <4>2. /\ \A other \in Reasons \ {reason} : ledger'[k][other] = ledger[k][other]
            /\ ledger'[k][reason] = ledger[k][reason] + e[k]
        <5> HIDE DEF e
        <5>0. ledger \in [Keys -> [Reasons -> Int]] /\ reason \in Reasons /\ e \in [Keys -> Int]
          BY <1>2, <1>3
        <5>1. ASSUME NEW other \in Reasons, other # reason
              PROVE  Post(ledger, reason, e)[k][other] = ledger[k][other]
          BY <5>0, <5>1, PostedElsewhere, Zenon
        <5>2. Post(ledger, reason, e)[k][reason] = ledger[k][reason] + e[k]
          BY <5>0, PostEntries, Zenon
        <5>3. \A other \in Reasons \ {reason} : other \in Reasons /\ other # reason
          OBVIOUS
        <5> QED
          BY <4>1, <5>1, <5>2, <5>3, Zenon
      <4>3. ledger[k]["FULFILMENT"] \in Int /\ ledger[k]["ALLOCATION_RELEASE"] \in Int /\ e[k] \in Int
        BY <1>2, <1>3, ReasonsListed
      <4> HIDE DEF e
      <4>4. CASE reason = "FULFILMENT"
        <5>1. ledger'[k]["ALLOCATION_RELEASE"] = ledger[k]["ALLOCATION_RELEASE"]
          BY <4>2, <4>4, ReasonsListed
        <5> QED
          BY <4>2, <4>3, <4>4, <5>1
      <4>5. CASE reason = "ALLOCATION_RELEASE"
        <5>1. ledger'[k]["FULFILMENT"] = ledger[k]["FULFILMENT"]
          BY <4>2, <4>5, ReasonsListed
        <5> QED
          BY <4>2, <4>3, <4>5, <5>1
      <4> QED
        BY <4>4, <4>5
    <3>2. allocated[k] = UnitsIn(ConsumedRows, k)
                           + ledger[k]["FULFILMENT"] + ledger[k]["ALLOCATION_RELEASE"]
      BY <1>1 DEF Books, AllocatedAreConsumedHolds
    <3>3. UnitsIn(ConsumedRows, k)' = UnitsIn(ConsumedRows, k)
      BY <1>4, RowsUnchanged
    <3>4. UnitsIn(ConsumedRows, k) \in Nat
      BY UnitsInNatural, SessionRows
    <3>5. allocated'[k] = allocated[k] + e[k]
      BY <1>2, <1>3, <1>4
    <3>6. /\ ledger[k]["FULFILMENT"] \in Int /\ ledger[k]["ALLOCATION_RELEASE"] \in Int
          /\ ledger'[k]["FULFILMENT"] \in Int /\ ledger'[k]["ALLOCATION_RELEASE"] \in Int
      <4>1. ledger' \in [Keys -> [Reasons -> Int]]
        BY <1>2, <1>3, <1>4, PostTyped
      <4> QED
        BY <1>2, <4>1, ReasonsListed
    <3>7. e[k] \in Int
      BY <1>3
    <3> HIDE DEF e
    <3>8. allocated'[k] = UnitsIn(ConsumedRows, k)
                            + ledger[k]["FULFILMENT"] + ledger[k]["ALLOCATION_RELEASE"] + e[k]
      BY <3>2, <3>5
    <3>9. UnitsIn(ConsumedRows, k) + ledger[k]["FULFILMENT"] + ledger[k]["ALLOCATION_RELEASE"] + e[k]
            = UnitsIn(ConsumedRows, k) + ledger'[k]["FULFILMENT"] + ledger'[k]["ALLOCATION_RELEASE"]
      BY <3>1, <3>4, <3>6, <3>7, Z3T(30)
    <3> QED
      BY <3>3, <3>8, <3>9
  <2> QED
    BY <2>1 DEF AllocatedAreConsumedHolds
<1> QED
  BY <1>6, <1>7, <1>8, <1>9 DEF Books

\* The counters oh2, rs2 and al2 are oh, rs and al after two postings.
FollowsTwo(first, d, second, e, oh, rs, al, oh2, rs2, al2) ==
  \A k \in Keys :
    /\ oh2[k] = oh[k] + OnHandEffect(first, d[k]) + OnHandEffect(second, e[k])
    /\ rs2[k] = rs[k] + ReservedEffect(first, d[k]) + ReservedEffect(second, e[k])
    /\ al2[k] = al[k] + AllocatedEffect(first, d[k]) + AllocatedEffect(second, e[k])

\* Two postings, one after the other, stay accounted for.
LEMMA TwoPostingsAccount ==
  ASSUME NEW lg \in [Keys -> [Reasons -> Int]],
         NEW first \in Reasons, NEW second \in Reasons,
         NEW d \in [Keys -> Int], NEW e \in [Keys -> Int],
         NEW oh, NEW rs, NEW al, NEW oh2, NEW rs2, NEW al2,
         Accounts(lg, oh, rs, al), FollowsTwo(first, d, second, e, oh, rs, al, oh2, rs2, al2)
  PROVE  Accounts(Post(Post(lg, first, d), second, e), oh2, rs2, al2)
<1> DEFINE oh1 == [k \in Keys |-> oh[k] + OnHandEffect(first, d[k])]
           rs1 == [k \in Keys |-> rs[k] + ReservedEffect(first, d[k])]
           al1 == [k \in Keys |-> al[k] + AllocatedEffect(first, d[k])]
<1>1. Follows(first, d, oh, rs, al, oh1, rs1, al1)
  BY DEF Follows
<1>2. Follows(second, e, oh1, rs1, al1, oh2, rs2, al2)
  BY Zenon DEF Follows, FollowsTwo
<1>3. Post(lg, first, d) \in [Keys -> [Reasons -> Int]]
  BY PostTyped
<1> HIDE DEF oh1, rs1, al1
<1>4. Accounts(Post(lg, first, d), oh1, rs1, al1)
  BY <1>1, PostAccounts, Zenon
<1> QED
  BY <1>2, <1>3, <1>4, PostAccounts, Zenon

\* Which rows are ACTIVE and CONSUMED after a new hold, and that its rows are new.
LEMMA AcquireRows ==
  ASSUME TypeOK, NEW s \in Sessions, NEW t, NEW lines, NEW g \in Generations,
         NEW alloc \in [Keys -> 0..MaxQty], NEW new, NEW due,
         new = NewRows(s, g, alloc), due = DueRows(s, t),
         AcquireReservations(s, t, lines, g, alloc)
  PROVE  /\ new \in SUBSET Rows /\ due \in SUBSET ActiveRows
         /\ new \cap ActiveRows = {} /\ new \cap ConsumedRows = {}
         /\ ActiveRows' = (ActiveRows \ due) \cup new
         /\ ConsumedRows' = ConsumedRows
<1>1. new \in SUBSET Rows
  BY DEF Rows, NewRows
<1>2. due \in SUBSET ActiveRows
  BY SessionRows
<1>3. \A r \in new : status[r] = "NONE"
  BY DEF AcquireReservations, NextGeneration, NewRows
<1>4. \A r \in Rows : status'[r] = IF r \in new THEN "ACTIVE"
                                   ELSE IF r \in due THEN "EXPIRED" ELSE status[r]
  BY DEF AcquireReservations, Expired, NewRows
<1>5. new \cap ActiveRows = {} /\ new \cap ConsumedRows = {}
  BY <1>3 DEF ActiveRows, ConsumedRows
<1>6. ActiveRows' = (ActiveRows \ due) \cup new
  BY <1>1, <1>2, <1>4 DEF ActiveRows
<1>7. ConsumedRows' = ConsumedRows
  BY <1>1, <1>2, <1>3, <1>4 DEF ActiveRows, ConsumedRows
<1> QED
  BY <1>1, <1>2, <1>5, <1>6, <1>7

\* The units of the ACTIVE and the CONSUMED rows after a new hold.
LEMMA AcquireUnits ==
  ASSUME TypeOK, NEW s \in Sessions, NEW t, NEW lines, NEW g \in Generations,
         NEW alloc \in [Keys -> 0..MaxQty], NEW k \in Keys,
         AcquireReservations(s, t, lines, g, alloc)
  PROVE  /\ UnitsIn(ActiveRows, k)' = UnitsIn(ActiveRows, k) - UnitsIn(DueRows(s, t), k) + alloc[k]
         /\ UnitsIn(ConsumedRows, k)' = UnitsIn(ConsumedRows, k)
<1> DEFINE new == NewRows(s, g, alloc)
           due == DueRows(s, t)
           rest == ActiveRows \ due
<1>1. /\ new \in SUBSET Rows /\ due \in SUBSET ActiveRows
      /\ new \cap ActiveRows = {} /\ new \cap ConsumedRows = {}
      /\ ActiveRows' = rest \cup new
      /\ ConsumedRows' = ConsumedRows
  BY AcquireRows
<1>2. /\ rest \in SUBSET Rows /\ rest \cap new = {} /\ ActiveRows \in SUBSET Rows
      /\ ConsumedRows \in SUBSET Rows /\ due \in SUBSET Rows
  BY <1>1, SessionRows
<1>3. \A r \in Rows : quantity'[r] = IF r \in new THEN alloc[r[2]] ELSE quantity[r]
  BY DEF AcquireReservations, NewRows
<1>4. \A r \in NewRows(s, g, alloc) : quantity'[r] = alloc[r[2]]
  BY <1>1, <1>3
<1>5. Units(quantity', new, k) = alloc[k]
  BY <1>4, UnitsOfNewHold
<1>6. (\A r \in rest : quantity'[r] = quantity[r])
      /\ (\A r \in ConsumedRows : quantity'[r] = quantity[r])
  BY <1>1, <1>2, <1>3
<1> HIDE DEF new, due, rest
<1>7. Units(quantity', rest, k) = Units(quantity, rest, k)
  BY <1>6, UnitsOfUnchangedRows
<1>8. Units(quantity', ConsumedRows, k) = Units(quantity, ConsumedRows, k)
  BY <1>6, UnitsOfUnchangedRows
<1>9. Units(quantity', rest \cup new, k) = Units(quantity', rest, k) + Units(quantity', new, k)
  BY <1>1, <1>2, UnitsAddUp
<1>10. Units(quantity, rest, k) = Units(quantity, ActiveRows, k) - Units(quantity, due, k)
  BY <1>1, <1>2, UnitsTakenOut DEF rest
<1>11. UnitsIn(ActiveRows, k)' = Units(quantity', rest \cup new, k)
  BY <1>1, UnitsBeforeAndAfter, Zenon
<1>12. UnitsIn(ConsumedRows, k)' = Units(quantity', ConsumedRows, k)
  BY <1>1, UnitsBeforeAndAfter, Zenon
<1>13. /\ UnitsIn(ActiveRows, k) = Units(quantity, ActiveRows, k)
       /\ UnitsIn(ConsumedRows, k) = Units(quantity, ConsumedRows, k)
       /\ UnitsIn(DueRows(s, t), k) = Units(quantity, due, k)
  BY UnitsBeforeAndAfter, Zenon DEF due
<1>14. UnitsIn(ActiveRows, k)' = UnitsIn(ActiveRows, k) - UnitsIn(DueRows(s, t), k) + alloc[k]
  BY <1>5, <1>7, <1>9, <1>10, <1>11, <1>13, Zenon
<1> QED
  BY <1>8, <1>12, <1>13, <1>14, Zenon

\* A step keeps the books when its two postings, its accounting and the units of its
\* rows say the same: the rows `due' expire, `dr' and `da' are the changes of the
\* counters, and no unit is dispatched or deallocated.
LEMMA TwoPostingsKeepBooks ==
  ASSUME IInv, NEW second \in {"RESERVATION", "ALLOCATION"}, NEW due \in SUBSET Rows,
         NEW e \in [Keys -> Int], NEW dr \in [Keys -> Int], NEW da \in [Keys -> Int],
         ReservationAccounting(dr, da),
         ledger' = Post(Post(ledger, "RESERVATION_RELEASE", ReleaseEntries(due)), second, e),
         UNCHANGED <<onHand, incoming>>,
         \A k \in Keys :
           /\ dr[k] = ReservedEffect(second, e[k]) - UnitsIn(due, k)
           /\ da[k] = AllocatedEffect(second, e[k])
           /\ UnitsIn(ActiveRows, k)' = UnitsIn(ActiveRows, k) + dr[k]
           /\ UnitsIn(ConsumedRows, k)' = UnitsIn(ConsumedRows, k) + da[k]
  PROVE  Books'
<1> DEFINE d == ReleaseEntries(due)
<1>1. TypeOK /\ Books
  BY DEF IInv
<1>2. /\ onHand \in [Keys -> Int] /\ reserved \in [Keys -> Int] /\ allocated \in [Keys -> Int]
      /\ incoming \in [Keys -> Int] /\ ledger \in [Keys -> [Reasons -> Int]]
  BY <1>1 DEF TypeOK
<1>3. d \in [Keys -> Int] /\ \A k \in Keys : d[k] = 0 - UnitsIn(due, k)
  BY ReleaseEntriesTyped DEF ReleaseEntries
<1>4. \A k \in Keys : /\ reserved'[k] = reserved[k] + dr[k]
                      /\ allocated'[k] = allocated[k] + da[k]
                      /\ reserved'[k] >= 0 /\ allocated'[k] >= 0
                      /\ onHand[k] - reserved'[k] - allocated'[k] >= 0
  BY DEF ReservationAccounting
<1>5. "RESERVATION_RELEASE" \in Reasons /\ second \in Reasons
      /\ second # "RESERVATION_RELEASE"
  BY DEF Reasons
<1>6. \A k \in Keys : UnitsIn(due, k) \in Nat /\ e[k] \in Int
  BY UnitsInNatural
<1> HIDE DEF d
<1>7. LedgerProjectsCounters'
  <2>1. Accounts(ledger, onHand, reserved, allocated)
    BY <1>1, LedgerAccounts DEF Books
  <2>2. FollowsTwo("RESERVATION_RELEASE", d, second, e, onHand, reserved, allocated,
                   onHand', reserved', allocated')
    BY <1>2, <1>3, <1>4, <1>6 DEF FollowsTwo, OnHandEffect, ReservedEffect, AllocatedEffect
  <2>3. Accounts(Post(Post(ledger, "RESERVATION_RELEASE", d), second, e),
                 onHand', reserved', allocated')
    BY <1>2, <1>3, <1>5, <2>1, <2>2, TwoPostingsAccount, Zenon
  <2> QED
    BY <2>3, LedgerAccounts, Zenon DEF d
<1>8. NoOversell'
  <2>1. ASSUME NEW k \in Keys
        PROVE  /\ reserved'[k] >= 0 /\ allocated'[k] >= 0 /\ incoming'[k] >= 0
               /\ onHand'[k] >= reserved'[k] + allocated'[k]
    <3>1. incoming[k] >= 0
      BY <1>1 DEF Books, NoOversell
    <3>2. onHand[k] \in Int /\ reserved'[k] \in Int /\ allocated'[k] \in Int
      BY <1>2, <1>4
    <3> QED
      BY <1>4, <3>1, <3>2
  <2> QED
    BY <2>1 DEF NoOversell
<1>9. ReservedAreActiveHolds'
  BY <1>1, <1>4 DEF Books, ReservedAreActiveHolds
<1>10. AllocatedAreConsumedHolds'
  <2>1. ASSUME NEW k \in Keys
        PROVE  allocated'[k] = UnitsIn(ConsumedRows, k)'
                 + ledger'[k]["FULFILMENT"] + ledger'[k]["ALLOCATION_RELEASE"]
    <3>1. ASSUME NEW other \in Reasons, other # "RESERVATION_RELEASE", other # second
          PROVE  ledger'[k][other] = ledger[k][other]
      <4> DEFINE lg == Post(ledger, "RESERVATION_RELEASE", d)
      <4>1. lg \in [Keys -> [Reasons -> Int]]
        BY <1>2, <1>3, <1>5, PostTyped
      <4>2. lg[k][other] = ledger[k][other]
        <5>1. ledger \in [Keys -> [Reasons -> Int]] /\ d \in [Keys -> Int]
              /\ "RESERVATION_RELEASE" \in Reasons /\ other # "RESERVATION_RELEASE"
          BY <1>2, <1>3, <1>5, <3>1
        <5> QED
          BY <5>1, PostedElsewhere, Zenon
      <4>3. ledger' = Post(lg, second, e)
        BY Zenon DEF d
      <4> HIDE DEF lg
      <4>4. Post(lg, second, e)[k][other] = lg[k][other]
        BY <1>5, <3>1, <4>1, PostedElsewhere
      <4> QED
        BY <4>2, <4>3, <4>4, Zenon
    <3>2. /\ ledger'[k]["FULFILMENT"] = ledger[k]["FULFILMENT"]
          /\ ledger'[k]["ALLOCATION_RELEASE"] = ledger[k]["ALLOCATION_RELEASE"]
      BY <3>1, ReasonsListed
    <3>3. allocated[k] = UnitsIn(ConsumedRows, k)
                           + ledger[k]["FULFILMENT"] + ledger[k]["ALLOCATION_RELEASE"]
      BY <1>1 DEF Books, AllocatedAreConsumedHolds
    <3>4. /\ UnitsIn(ConsumedRows, k) \in Nat /\ da[k] \in Int
          /\ ledger[k]["FULFILMENT"] \in Int /\ ledger[k]["ALLOCATION_RELEASE"] \in Int
      BY <1>2, UnitsInNatural, SessionRows, ReasonsListed
    <3>5. allocated'[k] = allocated[k] + da[k]
          /\ UnitsIn(ConsumedRows, k)' = UnitsIn(ConsumedRows, k) + da[k]
      BY <1>4
    <3> QED
      BY <3>2, <3>3, <3>4, <3>5
  <2> QED
    BY <2>1 DEF AllocatedAreConsumedHolds
<1> QED
  BY <1>7, <1>8, <1>9, <1>10 DEF Books

\* A new hold keeps the books.
LEMMA AcquireKeepsBooks ==
  ASSUME IInv, NEW s \in Sessions, NEW t, NEW lines, NEW g \in Generations,
         NEW alloc \in [Keys -> 0..MaxQty], AcquireReservations(s, t, lines, g, alloc)
  PROVE  Books'
<1> DEFINE due == DueRows(s, t)
           dr == [k \in Keys |-> alloc[k] - UnitsIn(due, k)]
           da == [k \in Keys |-> 0]
<1>1. TypeOK /\ due \in SUBSET Rows
  BY SessionRows DEF IInv
<1>2. alloc \in [Keys -> Int] /\ \A k \in Keys : UnitsIn(due, k) \in Nat
  BY <1>1, UnitsInNatural, InventoryAssumption
<1>3. dr \in [Keys -> Int] /\ da \in [Keys -> Int]
  BY <1>2
<1>4. /\ ReservationAccounting(dr, da)
      /\ ledger' = Post(Post(ledger, "RESERVATION_RELEASE", ReleaseEntries(due)),
                        "RESERVATION", alloc)
      /\ UNCHANGED <<onHand, incoming>>
  BY DEF AcquireReservations
<1>5. ASSUME NEW k \in Keys
      PROVE  /\ dr[k] = ReservedEffect("RESERVATION", alloc[k]) - UnitsIn(due, k)
             /\ da[k] = AllocatedEffect("RESERVATION", alloc[k])
             /\ UnitsIn(ActiveRows, k)' = UnitsIn(ActiveRows, k) + dr[k]
             /\ UnitsIn(ConsumedRows, k)' = UnitsIn(ConsumedRows, k) + da[k]
  <2>1. dr[k] = ReservedEffect("RESERVATION", alloc[k]) - UnitsIn(due, k)
        /\ da[k] = AllocatedEffect("RESERVATION", alloc[k])
    BY DEF ReservedEffect, AllocatedEffect
  <2>2. /\ UnitsIn(ActiveRows, k)' = UnitsIn(ActiveRows, k) - UnitsIn(due, k) + alloc[k]
        /\ UnitsIn(ConsumedRows, k)' = UnitsIn(ConsumedRows, k)
    BY <1>1, AcquireUnits, Zenon
  <2>3. UnitsIn(ActiveRows, k) \in Nat /\ UnitsIn(ConsumedRows, k) \in Nat
        /\ UnitsIn(due, k) \in Nat /\ alloc[k] \in Int
    BY <1>2, UnitsInNatural, SessionRows
  <2>4. dr[k] = alloc[k] - UnitsIn(due, k) /\ da[k] = 0
    OBVIOUS
  <2> HIDE DEF dr, da, due
  <2> QED
    BY <2>1, <2>2, <2>3, <2>4
<1> HIDE DEF dr, da, due
<1> QED
  BY <1>1, <1>2, <1>3, <1>4, <1>5, TwoPostingsKeepBooks, SMTT(30)

\* Which rows are ACTIVE and CONSUMED after a consumption, and their units.
LEMMA ConsumeUnits ==
  ASSUME TypeOK, NEW s, NEW t \in Int, NEW k, ConsumeReservations(s, t)
  PROVE  /\ UnitsIn(ActiveRows, k)'
              = UnitsIn(ActiveRows, k) - UnitsIn(DueRows(s, t) \cup HeldRows(s, t), k)
         /\ UnitsIn(ConsumedRows, k)' = UnitsIn(ConsumedRows, k) + UnitsIn(HeldRows(s, t), k)
         /\ UnitsIn(DueRows(s, t) \cup HeldRows(s, t), k)
              = UnitsIn(DueRows(s, t), k) + UnitsIn(HeldRows(s, t), k)
<1> DEFINE due == DueRows(s, t)
           held == HeldRows(s, t)
<1>1. /\ due \in SUBSET ActiveRows /\ held \in SUBSET ActiveRows
      /\ due \in SUBSET Rows /\ held \in SUBSET Rows
      /\ due \cup held \in SUBSET ActiveRows
      /\ ActiveRows \in SUBSET Rows /\ ConsumedRows \in SUBSET Rows
  BY SessionRows
<1>2. due \cap held = {}
  <2>1. ASSUME NEW r \in due, r \in held PROVE FALSE
    <3>1. r \in Rows /\ expiresAt[r] <= t /\ expiresAt[r] > t
      BY <2>1, <1>1 DEF DueRows, HeldRows
    <3>2. expiresAt[r] \in Int
      BY <3>1, InventoryAssumption DEF TypeOK
    <3> QED
      BY <3>1, <3>2
  <2> QED
    BY <2>1
<1>3. ConsumedRows \cap held = {}
  BY <1>1 DEF ActiveRows, ConsumedRows
<1>4. \A r \in Rows : status'[r] = IF r \in held THEN "CONSUMED"
                                   ELSE IF r \in due THEN "EXPIRED" ELSE status[r]
  BY DEF ConsumeReservations, Expired
<1>5. quantity' = quantity
  BY DEF ConsumeReservations
<1> HIDE DEF due, held
<1>6. ActiveRows' = ActiveRows \ (due \cup held)
  BY <1>1, <1>4 DEF ActiveRows
<1>7. ConsumedRows' = ConsumedRows \cup held
  BY <1>1, <1>4 DEF ConsumedRows, ActiveRows
<1>8. Units(quantity, ActiveRows \ (due \cup held), k)
        = Units(quantity, ActiveRows, k) - Units(quantity, due \cup held, k)
  BY <1>1, UnitsTakenOut
<1>9. Units(quantity, ConsumedRows \cup held, k)
        = Units(quantity, ConsumedRows, k) + Units(quantity, held, k)
  BY <1>1, <1>3, UnitsAddUp
<1>10. Units(quantity, due \cup held, k) = Units(quantity, due, k) + Units(quantity, held, k)
  BY <1>1, <1>2, UnitsAddUp
<1>11. /\ UnitsIn(ActiveRows, k)' = Units(quantity, ActiveRows \ (due \cup held), k)
       /\ UnitsIn(ConsumedRows, k)' = Units(quantity, ConsumedRows \cup held, k)
  BY <1>5, <1>6, <1>7, UnitsBeforeAndAfter, Zenon
<1>12. /\ UnitsIn(ActiveRows, k) = Units(quantity, ActiveRows, k)
       /\ UnitsIn(ConsumedRows, k) = Units(quantity, ConsumedRows, k)
       /\ UnitsIn(due, k) = Units(quantity, due, k)
       /\ UnitsIn(held, k) = Units(quantity, held, k)
       /\ UnitsIn(due \cup held, k) = Units(quantity, due \cup held, k)
  BY UnitsBeforeAndAfter, Zenon
<1> QED
  BY <1>8, <1>9, <1>10, <1>11, <1>12, Zenon DEF due, held

\* A consumption keeps the books.
LEMMA ConsumeKeepsBooks ==
  ASSUME IInv, NEW s, NEW t \in Int, ConsumeReservations(s, t)
  PROVE  Books'
<1> DEFINE due == DueRows(s, t)
           held == HeldRows(s, t)
           dr == [k \in Keys |-> 0 - UnitsIn(due \cup held, k)]
           da == [k \in Keys |-> UnitsIn(held, k)]
<1>1. TypeOK /\ due \in SUBSET Rows /\ held \in SUBSET Rows /\ due \cup held \in SUBSET Rows
  BY SessionRows DEF IInv
<1>2. dr \in [Keys -> Int] /\ da \in [Keys -> Int]
  BY <1>1, UnitsInNatural
<1>3. /\ ReservationAccounting(dr, da)
      /\ ledger' = Post(Post(ledger, "RESERVATION_RELEASE", ReleaseEntries(due)),
                        "ALLOCATION", da)
      /\ UNCHANGED <<onHand, incoming>>
  BY DEF ConsumeReservations
<1>4. ASSUME NEW k \in Keys
      PROVE  /\ dr[k] = ReservedEffect("ALLOCATION", da[k]) - UnitsIn(due, k)
             /\ da[k] = AllocatedEffect("ALLOCATION", da[k])
             /\ UnitsIn(ActiveRows, k)' = UnitsIn(ActiveRows, k) + dr[k]
             /\ UnitsIn(ConsumedRows, k)' = UnitsIn(ConsumedRows, k) + da[k]
  <2>1. dr[k] = 0 - UnitsIn(due \cup held, k) /\ da[k] = UnitsIn(held, k)
    OBVIOUS
  <2>2. /\ UnitsIn(ActiveRows, k)' = UnitsIn(ActiveRows, k) - UnitsIn(due \cup held, k)
        /\ UnitsIn(ConsumedRows, k)' = UnitsIn(ConsumedRows, k) + UnitsIn(held, k)
        /\ UnitsIn(due \cup held, k) = UnitsIn(due, k) + UnitsIn(held, k)
    BY <1>1, ConsumeUnits, Zenon
  <2>3. /\ UnitsIn(ActiveRows, k) \in Nat /\ UnitsIn(ConsumedRows, k) \in Nat
        /\ UnitsIn(due, k) \in Nat /\ UnitsIn(held, k) \in Nat
        /\ UnitsIn(due \cup held, k) \in Nat
    BY <1>1, UnitsInNatural, SessionRows
  <2> HIDE DEF dr, da, due, held
  <2> QED
    BY <2>1, <2>2, <2>3 DEF ReservedEffect, AllocatedEffect
<1> HIDE DEF dr, da, due, held
<1> QED
  BY <1>1, <1>2, <1>3, <1>4, TwoPostingsKeepBooks, SMTT(30)

\* Rows that expire, and nothing else, leave ACTIVE; the CONSUMED ones stay.
LEMMA ExpiredRows ==
  ASSUME NEW R \in SUBSET ActiveRows, status' = Expired(R)
  PROVE  ActiveRows' = ActiveRows \ R /\ ConsumedRows' = ConsumedRows
<1>1. \A r \in Rows : status'[r] = IF r \in R THEN "EXPIRED" ELSE status[r]
  BY DEF Expired
<1> QED
  BY <1>1 DEF ActiveRows, ConsumedRows

\* A release keeps the books.
LEMMA ReleaseReservationsKeepsBooks ==
  ASSUME IInv, NEW s, NEW t, ReleaseReservations(s, t)
  PROVE  Books'
<1> DEFINE due == DueRows(s, t)
           rest == HeldRows(s, t)
<1>1. due \cup rest \in SUBSET ActiveRows
  BY SessionRows
<1>2. ReleaseAccounting(due \cup rest) /\ UNCHANGED <<onHand, incoming, quantity>>
  BY DEF ReleaseReservations
<1>3. \A r \in Rows : status'[r] = IF r \in rest THEN "RELEASED"
                                   ELSE IF r \in due THEN "EXPIRED" ELSE status[r]
  BY DEF ReleaseReservations, Expired
<1> HIDE DEF due, rest
<1>4. ActiveRows' = ActiveRows \ (due \cup rest) /\ ConsumedRows' = ConsumedRows
  BY <1>1, <1>3 DEF ActiveRows, ConsumedRows
<1> QED
  BY <1>1, <1>2, <1>4, ReleaseKeepsBooks

\* An extension keeps the books.
LEMMA ExtendKeepsBooks ==
  ASSUME IInv, NEW s, NEW t, ExtendReservationsOnce(s, t)
  PROVE  Books'
<1>1. DueRows(s, t) \in SUBSET ActiveRows
  BY SessionRows
<1>2. /\ ReleaseAccounting(DueRows(s, t)) /\ status' = Expired(DueRows(s, t))
      /\ UNCHANGED <<onHand, incoming, quantity>>
  BY DEF ExtendReservationsOnce
<1> QED
  BY <1>1, <1>2, ExpiredRows, ReleaseKeepsBooks

\* A replayed consumption keeps the books.
LEMMA ReplayKeepsBooks ==
  ASSUME IInv, NEW s, NEW t, ReplayConsumption(s, t)
  PROVE  Books'
<1>1. DueRows(s, t) \in SUBSET ActiveRows
  BY SessionRows
<1>2. /\ ReleaseAccounting(DueRows(s, t)) /\ status' = Expired(DueRows(s, t))
      /\ UNCHANGED <<onHand, incoming, quantity>>
  BY DEF ReplayConsumption
<1> QED
  BY <1>1, <1>2, ExpiredRows, ReleaseKeepsBooks

\* A sweep keeps the books, however old its list is: it re-reads what is still due.
LEMMA SweepKeepsBooks ==
  ASSUME IInv, NEW w \in Sweepers, SweepNext(w)
  PROVE  Books'
<1>1. ASSUME SweepExpire(w) PROVE Books'
  <2>1. StillDue(w) \in SUBSET ActiveRows
    BY DEF StillDue, ActiveRows, IInv, TypeOK
  <2>2. /\ ReleaseAccounting(StillDue(w)) /\ status' = Expired(StillDue(w))
        /\ UNCHANGED <<onHand, incoming, quantity>>
    BY <1>1 DEF SweepExpire
  <2> QED
    BY <2>1, <2>2, ExpiredRows, ReleaseKeepsBooks
<1>2. ASSUME NEW vs, SweepList(w, vs) PROVE Books'
  BY <1>2, UnchangedKeepsBooks DEF SweepList, IInv, holds
<1>3. ASSUME SweepAbandon(w) PROVE Books'
  BY <1>3, UnchangedKeepsBooks DEF SweepAbandon, IInv, holds
<1> QED
  BY <1>1, <1>2, <1>3 DEF SweepNext

\* Procurement's movements keep the books.
LEMMA ApplyStockChangesKeepsBooks ==
  ASSUME IInv, NEW m, DOMAIN m \subseteq Keys, \A k \in DOMAIN m : m[k] \in Int \X Int,
         ApplyStockChanges(m)
  PROVE  Books'
<1> DEFINE dOnHand   == [k \in Keys |-> IF k \in DOMAIN m THEN m[k][1] ELSE 0]
           dIncoming == [k \in Keys |-> IF k \in DOMAIN m THEN m[k][2] ELSE 0]
<1>1. dOnHand \in [Keys -> Int] /\ dIncoming \in [Keys -> Int]
  OBVIOUS
<1>2. /\ onHand' = [k \in Keys |-> onHand[k] + dOnHand[k]]
      /\ incoming' = [k \in Keys |-> incoming[k] + dIncoming[k]]
      /\ ledger' = Post(ledger, "PHYSICAL", dOnHand)
      /\ UNCHANGED <<reserved, allocated, status, quantity>>
  BY DEF ApplyStockChanges, holds
<1>3. \A k \in Keys : dOnHand[k] # 0 \/ dIncoming[k] # 0
                        => StockSuffices(k, dOnHand[k], dIncoming[k])
  <2>1. \A k \in DOMAIN m : StockSuffices(k, m[k][1], m[k][2])
    BY DEF ApplyStockChanges
  <2> QED
    BY <2>1
<1> HIDE DEF dOnHand, dIncoming
<1>4. MovesStock(dOnHand, dIncoming)
  BY <1>2, <1>3, Zenon DEF MovesStock
<1> QED
  BY <1>1, <1>4, StockKeepsBooks

\* A manual adjustment keeps the books.
LEMMA AdjustKeepsBooks ==
  ASSUME IInv, NEW k \in Keys, NEW delta \in Deltas, Adjust(k, delta)
  PROVE  Books'
<1> DEFINE dOnHand   == [j \in Keys |-> IF j = k THEN delta ELSE 0]
           dIncoming == [j \in Keys |-> 0]
<1>1. delta \in Int /\ dOnHand \in [Keys -> Int] /\ dIncoming \in [Keys -> Int]
  BY InventoryAssumption
<1>2. TypeOK
  BY DEF IInv
<1>3. onHand' = [j \in Keys |-> onHand[j] + dOnHand[j]]
  <2>1. onHand' = [onHand EXCEPT ![k] = onHand[k] + delta] /\ onHand \in [Keys -> Int]
    BY <1>2 DEF Adjust, TypeOK
  <2>2. \A j \in Keys : onHand[j] + 0 = onHand[j]
    BY <2>1
  <2> QED
    BY <2>1, <2>2, <1>1
<1>4. incoming' = [j \in Keys |-> incoming[j] + dIncoming[j]]
  BY <1>2 DEF Adjust, TypeOK
<1>5. ledger' = Post(ledger, "PHYSICAL", dOnHand) /\ UNCHANGED <<reserved, allocated, status, quantity>>
  BY DEF Adjust, holds
<1>6. \A j \in Keys : dOnHand[j] # 0 \/ dIncoming[j] # 0
                        => StockSuffices(j, dOnHand[j], dIncoming[j])
  <2>1. StockSuffices(k, delta, 0)
    BY DEF Adjust
  <2> QED
    BY <2>1
<1> HIDE DEF dOnHand, dIncoming
<1>7. MovesStock(dOnHand, dIncoming)
  BY <1>3, <1>4, <1>5, <1>6, Zenon DEF MovesStock
<1> QED
  BY <1>1, <1>7, StockKeepsBooks

\* The books balance initially: nothing is stocked and no row exists.
LEMMA InitBooks == Init => Books
<1> SUFFICES ASSUME Init PROVE Books
  OBVIOUS
<1>1. ActiveRows = {} /\ ConsumedRows = {}
  BY DEF Init, ActiveRows, ConsumedRows
<1>2. \A k : UnitsIn(ActiveRows, k) = 0 /\ UnitsIn(ConsumedRows, k) = 0
  BY <1>1, UnitsBeforeAndAfter, NoRowsNoUnits
<1>3. ReservedAreActiveHolds /\ AllocatedAreConsumedHolds
  BY <1>2, ReasonsListed DEF Init, ReservedAreActiveHolds, AllocatedAreConsumedHolds
<1>4. LedgerProjectsCounters /\ NoOversell
  BY ReasonsListed DEF Init, LedgerProjectsCounters, NoOversell, Projection
<1> QED
  BY <1>3, <1>4 DEF Books

\* Every step keeps the books.
LEMMA StepKeepsBooks ==
  ASSUME IInv, [Next]_vars
  PROVE  Books'
<1>0. TypeOK /\ Books
  BY DEF IInv
<1>1. ASSUME StockNext PROVE Books'
  <2>1. ASSUME NEW k \in Keys, NEW delta \in Deltas, Adjust(k, delta) PROVE Books'
    BY <2>1, AdjustKeepsBooks
  <2>2. ASSUME NEW m \in Movements(StockChanges), ApplyStockChanges(m) PROVE Books'
    <3>1. DOMAIN m \subseteq Keys /\ \A k \in DOMAIN m : m[k] \in Int \X Int
      BY InventoryAssumption DEF Movements
    <3> QED
      BY <2>2, <3>1, ApplyStockChangesKeepsBooks
  <2>3. ASSUME NEW k \in Keys, NEW q \in 1..MaxQty, ReceiveProduction(k, q) PROVE Books'
    <3> DEFINE m == [j \in {k} |-> <<q, 0>>]
    <3>1. DOMAIN m \subseteq Keys /\ \A j \in DOMAIN m : m[j] \in Int \X Int
      BY InventoryAssumption
    <3>2. ApplyStockChanges(m)
      BY <2>3 DEF ReceiveProduction
    <3> QED
      BY <3>1, <3>2, ApplyStockChangesKeepsBooks
  <2>4. ASSUME NEW reason \in {"FULFILMENT", "ALLOCATION_RELEASE"},
               NEW m \in Movements(1..MaxQty), ApplyAllocatedStockMovements(reason, m)
        PROVE  Books'
    <3>1. DOMAIN m \subseteq Keys /\ \A k \in DOMAIN m : m[k] \in Nat
      BY InventoryAssumption DEF Movements
    <3> QED
      BY <2>4, <3>1, ApplyAllocatedKeepsBooks
  <2> QED
    BY <1>1, <2>1, <2>2, <2>3, <2>4 DEF StockNext
<1>2. ASSUME NEW s \in Sessions, SessionNext(s) PROVE Books'
  <2>1. \A t \in RecentTimes : t \in Int
    BY <1>0 DEF RecentTimes, TypeOK
  <2> QED
    BY <1>2, <2>1, AcquireKeepsBooks, ReleaseReservationsKeepsBooks, ExtendKeepsBooks,
       ConsumeKeepsBooks, ReplayKeepsBooks DEF SessionNext
<1>3. ASSUME NEW w \in Sweepers, SweepNext(w) PROVE Books'
  BY <1>3, SweepKeepsBooks
<1>4. ASSUME AdminNext PROVE Books'
  <2>1. UNCHANGED <<counters, status, quantity>>
    BY <1>4 DEF AdminNext, SetPlanning, UpdateLocation, holds
  <2> QED
    BY <1>0, <2>1, UnchangedKeepsBooks
<1>5. ASSUME Tick PROVE Books'
  BY <1>0, <1>5, UnchangedKeepsBooks DEF Tick, holds
<1>6. ASSUME UNCHANGED vars PROVE Books'
  BY <1>0, <1>6, UnchangedKeepsBooks DEF vars, holds
<1>7. ASSUME NEW e \in Evaluations, EvaluationNext(e) PROVE Books'
  BY <1>0, <1>7, EvaluationsOnlyRead, UnchangedKeepsBooks DEF holds
<1> QED
  BY <1>1, <1>2, <1>3, <1>4, <1>5, <1>6, <1>7 DEF Next

\* IInv is an invariant: the strengthening all the theorems below rest on.
LEMMA InventoryInvariant == Spec => []IInv
<1>1. Init => IInv
  BY InitTyped, InitBooks DEF IInv
<1>2. IInv /\ [Next]_vars => IInv'
  BY StepTyped, StepKeepsBooks DEF IInv
<1> QED
  BY <1>1, <1>2, PTL DEF Spec

-----------------------------------------------------------------------------
\* At every key the reduction of the append-only ledger is what the counters say.
THEOREM LedgerCorrect == Spec => []LedgerProjectsCounters
<1>1. IInv => LedgerProjectsCounters
  BY DEF IInv, Books
<1> QED
  BY <1>1, InventoryInvariant, PTL

\* No unit is promised twice, and no counter falls below zero.
THEOREM NeverOversold == Spec => []NoOversell
<1>1. IInv => NoOversell
  BY DEF IInv, Books
<1> QED
  BY <1>1, InventoryInvariant, PTL

\* The reserved counter is the number of units in ACTIVE reservation rows.
THEOREM ReservedCorrect == Spec => []ReservedAreActiveHolds
<1>1. IInv => ReservedAreActiveHolds
  BY DEF IInv, Books
<1> QED
  BY <1>1, InventoryInvariant, PTL

\* The allocated counter is what orders consumed and have not yet got or given back.
THEOREM AllocatedCorrect == Spec => []AllocatedAreConsumedHolds
<1>1. IInv => AllocatedAreConsumedHolds
  BY DEF IInv, Books
<1> QED
  BY <1>1, InventoryInvariant, PTL
-----------------------------------------------------------------------------
(***************************************************************************)
(* What a step may do to the rows.                                         *)
(***************************************************************************)
Ending == {"CONSUMED", "RELEASED", "EXPIRED"}

\* Active rows end, those that expire not before their deadline.
OnlyEnds ==
  /\ UNCHANGED <<createdAt, expiresAt>>
  /\ \A r \in Rows :
       \/ status'[r] = status[r]
       \/ /\ status[r] = "ACTIVE" /\ status'[r] \in Ending
          /\ status'[r] = "EXPIRED" => expiresAt[r] <= now

\* The body of HoldsEndOnce.
EndedOnce ==
  \A r \in Rows :
    /\ status[r] \notin {"NONE", "ACTIVE"} =>
         status'[r] = status[r] /\ expiresAt'[r] = expiresAt[r]
    /\ status[r] = "ACTIVE" /\ status'[r] = "EXPIRED" => expiresAt[r] <= now

\* A sweep works with a time that has passed.
ListedInThePast == \A w \in Sweepers : listedAt[w] <= now

HInv == TypeOK /\ OneHoldPerSession /\ ListedInThePast

\* A step that only ends rows leaves every hold whole, and what ended as it was.
LEMMA EndingKeepsHolds ==
  ASSUME OneHoldPerSession, OnlyEnds
  PROVE  OneHoldPerSession' /\ EndedOnce
<1>1. OneHoldPerSession'
  <2>1. ActiveRows' \subseteq ActiveRows
    BY DEF ActiveRows, OnlyEnds, Ending
  <2> QED
    BY <2>1 DEF OneHoldPerSession, OnlyEnds
<1>2. EndedOnce
  BY DEF EndedOnce, OnlyEnds, Ending
<1> QED
  BY <1>1, <1>2

\* The rows a session's operation finds due, and those it finds held.
LEMMA RowsFound ==
  ASSUME TypeOK, NEW s \in Sessions, NEW t \in RecentTimes
  PROVE  /\ t \in Nat /\ t <= now
         /\ \A r \in DueRows(s, t) :
              r \in Rows /\ r[1] = s /\ status[r] = "ACTIVE" /\ expiresAt[r] <= now
         /\ \A r \in HeldRows(s, t) : r \in Rows /\ r[1] = s /\ status[r] = "ACTIVE"
         /\ \A r \in Rows : status[r] = "ACTIVE" /\ r[1] = s =>
              r \in DueRows(s, t) \/ r \in HeldRows(s, t)
<1>1. now \in Nat /\ t \in Nat /\ t <= now
  BY InventoryAssumption DEF TypeOK, RecentTimes
<1>2. \A r \in Rows : expiresAt[r] \in Nat
  BY InventoryAssumption DEF TypeOK
<1> QED
  BY <1>1, <1>2 DEF DueRows, HeldRows, ActiveRows, RowsOf

-----------------------------------------------------------------------------
(***************************************************************************)
(* One lemma per operation that touches rows.                              *)
(***************************************************************************)

\* A new hold comes when none is left, with dates of its own.
LEMMA AcquireKeepsHolds ==
  ASSUME TypeOK, OneHoldPerSession, NEW s \in Sessions, NEW t \in RecentTimes, NEW lines,
         NEW g \in Generations, NEW alloc, AcquireReservations(s, t, lines, g, alloc)
  PROVE  OneHoldPerSession' /\ EndedOnce
<1> DEFINE due == DueRows(s, t)
           new == {<<s, k, g>> : k \in {j \in Keys : alloc[j] > 0}}
<1>1. /\ HeldRows(s, t) = {} /\ \A k \in Keys : status[<<s, k, g>>] = "NONE"
      /\ status' = [r \in Rows |-> IF r \in new THEN "ACTIVE" ELSE Expired(due)[r]]
      /\ createdAt' = [r \in Rows |-> IF r \in new THEN t ELSE createdAt[r]]
      /\ expiresAt' = [r \in Rows |-> IF r \in new THEN t + Ttl ELSE expiresAt[r]]
  BY DEF AcquireReservations, NextGeneration
<1>2. \A r \in new : r \in Rows /\ r[1] = s /\ r[3] = g /\ status[r] = "NONE"
  BY <1>1 DEF Rows
<1>3. \A r \in Rows \ new :
        /\ createdAt'[r] = createdAt[r] /\ expiresAt'[r] = expiresAt[r]
        /\ status'[r] = IF r \in due THEN "EXPIRED" ELSE status[r]
  BY <1>1 DEF Expired
<1>4. \A r \in new :
        status'[r] = "ACTIVE" /\ createdAt'[r] = t /\ expiresAt'[r] = t + Ttl
  BY <1>1, <1>2
<1>5. \A r \in ActiveRows' : r \in new \/ (r \in ActiveRows /\ r[1] # s)
  BY <1>1, <1>3, RowsFound DEF ActiveRows
<1>6. t + Ttl <= t + MaxHold
  BY InventoryAssumption, RowsFound
<1>7. OneHoldPerSession'
  <2> SUFFICES ASSUME NEW r \in ActiveRows', NEW q \in ActiveRows', r[1] = q[1]
               PROVE  /\ r[3] = q[3] /\ createdAt'[r] = createdAt'[q]
                      /\ expiresAt'[r] = expiresAt'[q]
                      /\ expiresAt'[r] <= createdAt'[r] + MaxHold
    BY DEF OneHoldPerSession
  <2>1. CASE r \in new
    BY <1>2, <1>4, <1>5, <1>6, <2>1
  <2>2. CASE r \notin new
    <3>1. r \in ActiveRows /\ q \in ActiveRows /\ q \notin new
      BY <1>2, <1>5, <2>2
    <3> QED
      BY <1>3, <2>2, <3>1 DEF OneHoldPerSession, ActiveRows
  <2> QED
    BY <2>1, <2>2
<1>8. EndedOnce
  BY <1>2, <1>3, <1>4, RowsFound DEF EndedOnce
<1> QED
  BY <1>7, <1>8

\* An extension moves the deadline of the whole hold to its maximum.
LEMMA ExtendKeepsHolds ==
  ASSUME TypeOK, OneHoldPerSession, NEW s \in Sessions, NEW t \in RecentTimes,
         ExtendReservationsOnce(s, t)
  PROVE  OneHoldPerSession' /\ EndedOnce
<1> DEFINE due == DueRows(s, t)
           extended == {r \in HeldRows(s, t) : expiresAt[r] < ExtendedExpiry(r)}
<1>1. /\ createdAt' = createdAt /\ status' = Expired(due)
      /\ expiresAt' = [r \in Rows |-> IF r \in extended THEN ExtendedExpiry(r) ELSE expiresAt[r]]
  BY DEF ExtendReservationsOnce
<1>2. \A r \in Rows : status'[r] = IF r \in due THEN "EXPIRED" ELSE status[r]
  BY <1>1 DEF Expired
<1>3. ActiveRows' \subseteq ActiveRows \ due
  BY <1>2 DEF ActiveRows
<1>4. ASSUME NEW r \in ActiveRows', NEW q \in ActiveRows', r[1] = q[1]
      PROVE  /\ r[3] = q[3] /\ createdAt[r] = createdAt[q] /\ expiresAt[r] = expiresAt[q]
             /\ expiresAt[r] <= createdAt[r] + MaxHold
             /\ r \in extended <=> q \in extended
  <2>1. r \in ActiveRows /\ q \in ActiveRows
    BY <1>3
  <2>2. /\ r[3] = q[3] /\ createdAt[r] = createdAt[q] /\ expiresAt[r] = expiresAt[q]
        /\ expiresAt[r] <= createdAt[r] + MaxHold
    BY <1>4, <2>1 DEF OneHoldPerSession
  <2>3. r \in HeldRows(s, t) <=> q \in HeldRows(s, t)
    BY <1>4, <2>1, <2>2 DEF HeldRows, RowsOf, ActiveRows
  <2> QED
    BY <2>2, <2>3 DEF ExtendedExpiry
<1>5. OneHoldPerSession'
  <2> SUFFICES ASSUME NEW r \in ActiveRows', NEW q \in ActiveRows', r[1] = q[1]
               PROVE  /\ r[3] = q[3] /\ createdAt'[r] = createdAt'[q]
                      /\ expiresAt'[r] = expiresAt'[q]
                      /\ expiresAt'[r] <= createdAt'[r] + MaxHold
    BY DEF OneHoldPerSession
  <2>1. /\ r[3] = q[3] /\ createdAt[r] = createdAt[q] /\ expiresAt[r] = expiresAt[q]
        /\ expiresAt[r] <= createdAt[r] + MaxHold
        /\ r \in extended <=> q \in extended
    BY <1>4
  <2>2. r \in Rows /\ q \in Rows /\ createdAt[r] \in Nat /\ MaxHold \in Nat
    BY <1>3, InventoryAssumption DEF ActiveRows, TypeOK
  <2> QED
    BY <1>1, <2>1, <2>2 DEF ExtendedExpiry
<1>6. EndedOnce
  BY <1>1, <1>2, RowsFound DEF EndedOnce
<1> QED
  BY <1>5, <1>6

\* Releases, consumptions and their replays only end rows.
LEMMA SessionKeepsHolds ==
  ASSUME TypeOK, OneHoldPerSession, NEW s \in Sessions, SessionNext(s)
  PROVE  OneHoldPerSession' /\ EndedOnce
<1>1. PICK t \in RecentTimes :
        \/ \E lines \in Requests, g \in Generations, alloc \in [Keys -> 0..MaxQty] :
             AcquireReservations(s, t, lines, g, alloc)
        \/ ReleaseReservations(s, t)
        \/ ExtendReservationsOnce(s, t)
        \/ ConsumeReservations(s, t)
        \/ ReplayConsumption(s, t)
  BY DEF SessionNext
<1>2. CASE \E lines \in Requests, g \in Generations, alloc \in [Keys -> 0..MaxQty] :
             AcquireReservations(s, t, lines, g, alloc)
  BY <1>2, AcquireKeepsHolds
<1>3. CASE ExtendReservationsOnce(s, t)
  BY <1>3, ExtendKeepsHolds
<1>4. CASE ReleaseReservations(s, t)
  <2>1. OnlyEnds
    BY <1>4, RowsFound DEF ReleaseReservations, OnlyEnds, Expired, Ending
  <2> QED
    BY <2>1, EndingKeepsHolds
<1>5. CASE ConsumeReservations(s, t)
  <2>1. OnlyEnds
    BY <1>5, RowsFound DEF ConsumeReservations, OnlyEnds, Expired, Ending
  <2> QED
    BY <2>1, EndingKeepsHolds
<1>6. CASE ReplayConsumption(s, t)
  <2>1. OnlyEnds
    BY <1>6, RowsFound DEF ReplayConsumption, OnlyEnds, Expired, Ending
  <2> QED
    BY <2>1, EndingKeepsHolds
<1> QED
  BY <1>1, <1>2, <1>3, <1>4, <1>5, <1>6

\* A sweep expires what is still due at the time it listed with.
LEMMA SweepKeepsHolds ==
  ASSUME HInv, NEW w \in Sweepers, SweepNext(w)
  PROVE  OneHoldPerSession' /\ EndedOnce /\ ListedInThePast'
<1>0. now \in Nat /\ listedAt \in [Sweepers -> Nat] /\ \A r \in Rows : expiresAt[r] \in Nat
  BY InventoryAssumption DEF HInv, TypeOK
<1>1. CASE \E vs \in SUBSET Variants : SweepList(w, vs)
  <2>1. UNCHANGED holds /\ now' = now /\ \E x \in {now} : listedAt' = [listedAt EXCEPT ![w] = x]
    BY <1>1 DEF SweepList
  <2>2. OnlyEnds
    BY <2>1 DEF OnlyEnds, holds
  <2> QED
    BY <1>0, <2>1, <2>2, EndingKeepsHolds DEF HInv, ListedInThePast
<1>2. CASE SweepExpire(w)
  <2>1. /\ UNCHANGED <<createdAt, expiresAt, now>> /\ status' = Expired(StillDue(w))
        /\ listedAt' = [listedAt EXCEPT ![w] = 0]
    BY <1>2 DEF SweepExpire, SweepEnds
  <2>2. \A r \in StillDue(w) : status[r] = "ACTIVE" /\ (r \in Rows => expiresAt[r] <= now)
    BY <1>0 DEF StillDue, HInv, ListedInThePast
  <2>3. OnlyEnds
    BY <2>1, <2>2 DEF OnlyEnds, Expired, Ending
  <2> QED
    BY <1>0, <2>1, <2>3, EndingKeepsHolds DEF HInv, ListedInThePast
<1>3. CASE SweepAbandon(w)
  <2>1. UNCHANGED holds /\ now' = now /\ listedAt' = [listedAt EXCEPT ![w] = 0]
    BY <1>3 DEF SweepAbandon, SweepEnds
  <2>2. OnlyEnds
    BY <2>1 DEF OnlyEnds, holds
  <2> QED
    BY <1>0, <2>1, <2>2, EndingKeepsHolds DEF HInv, ListedInThePast
<1> QED
  BY <1>1, <1>2, <1>3 DEF SweepNext

\* Movements of stock, planning, locations and the clock leave the rows alone.
LEMMA OthersKeepHolds ==
  ASSUME HInv, \/ StockNext \/ AdminNext \/ Tick \/ UNCHANGED vars
               \/ \E e \in Evaluations : EvaluationNext(e)
  PROVE  OneHoldPerSession' /\ EndedOnce /\ ListedInThePast'
<1>1. UNCHANGED <<status, createdAt, expiresAt, listedAt>> /\ (now' = now \/ now' = now + 1)
  BY EvaluationsOnlyRead DEF StockNext, AdminNext, Tick, vars, Adjust, ApplyStockChanges, ReceiveProduction,
         ApplyAllocatedStockMovements, SetPlanning, UpdateLocation, holds, sweeps
<1>2. OnlyEnds
  BY <1>1 DEF OnlyEnds
<1>3. now \in Nat /\ listedAt \in [Sweepers -> Nat]
  BY InventoryAssumption DEF HInv, TypeOK
<1> QED
  BY <1>1, <1>2, <1>3, EndingKeepsHolds DEF HInv, ListedInThePast

\* Every step keeps the holds whole and what has ended as it ended.
LEMMA StepKeepsHolds ==
  ASSUME HInv, [Next]_vars
  PROVE  HInv' /\ EndedOnce
<1>1. TypeOK'
  BY StepTyped DEF HInv
<1>2. ASSUME NEW s \in Sessions, SessionNext(s)
      PROVE  OneHoldPerSession' /\ EndedOnce /\ ListedInThePast'
  <2>1. UNCHANGED <<now, sweeps>>
    <3>1. PICK t \in RecentTimes :
            \/ \E lines \in Requests, g \in Generations, alloc \in [Keys -> 0..MaxQty] :
                 AcquireReservations(s, t, lines, g, alloc)
            \/ ReleaseReservations(s, t) \/ ExtendReservationsOnce(s, t)
            \/ ConsumeReservations(s, t) \/ ReplayConsumption(s, t)
      BY <1>2 DEF SessionNext
    <3>2. ASSUME NEW lines, NEW g, NEW alloc, AcquireReservations(s, t, lines, g, alloc)
          PROVE  UNCHANGED <<now, sweeps>>
      BY <3>2 DEF AcquireReservations
    <3>3. ReleaseReservations(s, t) => UNCHANGED <<now, sweeps>>
      BY DEF ReleaseReservations
    <3>4. ExtendReservationsOnce(s, t) => UNCHANGED <<now, sweeps>>
      BY DEF ExtendReservationsOnce
    <3>5. ConsumeReservations(s, t) => UNCHANGED <<now, sweeps>>
      BY DEF ConsumeReservations
    <3>6. ReplayConsumption(s, t) => UNCHANGED <<now, sweeps>>
      BY DEF ReplayConsumption
    <3> QED
      BY <3>1, <3>2, <3>3, <3>4, <3>5, <3>6
  <2> QED
    BY <1>2, <2>1, SessionKeepsHolds DEF HInv, ListedInThePast, sweeps
<1>3. OneHoldPerSession' /\ EndedOnce /\ ListedInThePast'
  BY <1>2, SweepKeepsHolds, OthersKeepHolds DEF Next
<1> QED
  BY <1>1, <1>3 DEF HInv

LEMMA InitHolds == Init => HInv
<1>1. Init => OneHoldPerSession
  BY DEF Init, OneHoldPerSession, ActiveRows
<1>2. Init => ListedInThePast
  BY DEF Init, ListedInThePast
<1> QED
  BY <1>1, <1>2, InitTyped DEF HInv

-----------------------------------------------------------------------------
\* A session's active rows were created together, end together, and end no later
\* than the absolute maximum after they were created.
THEOREM OneHold == Spec => []OneHoldPerSession
<1>1. Init => HInv
  BY InitHolds
<1>2. HInv /\ [Next]_vars => HInv'
  BY StepKeepsHolds
<1>3. HInv => OneHoldPerSession
  BY DEF HInv
<1> QED
  BY <1>1, <1>2, <1>3, PTL DEF Spec

\* A row that has ended is never revived, ended again or dated anew, and none
\* expires before its deadline.
THEOREM EndsOnce == Spec => HoldsEndOnce
<1>1. Init => HInv
  BY InitHolds
<1>2. HInv /\ [Next]_vars => HInv' /\ [EndedOnce]_vars
  BY StepKeepsHolds
<1>3. Spec => [][EndedOnce]_vars
  BY <1>1, <1>2, PTL DEF Spec
<1> QED
  BY <1>3, PTL DEF HoldsEndOnce, EndedOnce

-----------------------------------------------------------------------------
(***************************************************************************)
(* Drops of availability.  A step lowers the availability of a variant     *)
(* only if it evaluates the latch of that variant; what the evaluation     *)
(* read of the items it locked is still true when it commits.              *)
(***************************************************************************)
LockedAsRead ==
  \A e \in Evaluations : \A k \in views[e].keys :
    /\ views[e].points[k] = reorderPoint[k]
    /\ views[e].at = "latched" => views[e].alerted[k] = alert[k]

\* An evaluation writes no latch another one has locked.
LEMMA EvaluationKeepsLocks ==
  ASSUME TypeOK, LockedAsRead, NEW vs, NEW keys, EvaluateLowStock(vs, keys), UNCHANGED settings
  PROVE  LockedAsRead'
<1>1. \A e \in Evaluations : views[e].keys \subseteq Keys
  BY DEF TypeOK, View
<1>2. CASE EvaluateAtOnce(vs, keys)
  <2>1. views' = views /\ reorderPoint' = reorderPoint
    BY <1>2 DEF EvaluateAtOnce, settings
  <2>2. \A e \in Evaluations : \A k \in views[e].keys : alert'[k] = alert[k]
    BY <1>1, <1>2 DEF EvaluateAtOnce, Unlocked
  <2> QED
    BY <2>1, <2>2 DEF LockedAsRead
<1>3. ASSUME NEW e \in Evaluations, EvaluateAsRead(e, vs, keys)
      PROVE  LockedAsRead'
  <2>1. reorderPoint' = reorderPoint
    BY DEF settings
  <2>2. views'[e] = NoView /\ \A f \in Evaluations \ {e} : views'[f] = views[f]
    BY <1>3 DEF EvaluateAsRead, TypeOK
  <2>3. \A f \in Evaluations \ {e} : \A k \in views[f].keys : alert'[k] = alert[k]
    BY <1>1, <1>3 DEF EvaluateAsRead, Unlocked
  <2>4. NoView.keys = {}
    BY DEF NoView
  <2> QED
    BY <2>1, <2>2, <2>3, <2>4 DEF LockedAsRead
<1> QED
  BY <1>2, <1>3 DEF EvaluateLowStock

LEMMA ReadsKeepLocks ==
  ASSUME TypeOK, LockedAsRead, NEW e \in Evaluations, EvaluationNext(e)
  PROVE  LockedAsRead'
<1>1. alert' = alert /\ reorderPoint' = reorderPoint
  BY EvaluationsOnlyRead DEF settings
<1>2. \A f \in Evaluations \ {e} : views'[f] = views[f]
  BY DEF EvaluationNext, ReadAvailability, ReadLatches, RollBack, TypeOK
<1>3. \A k \in views'[e].keys :
        /\ views'[e].points[k] = reorderPoint[k]
        /\ views'[e].at = "latched" => views'[e].alerted[k] = alert[k]
  <2>1. ASSUME NEW keys \in SUBSET Keys, ReadAvailability(e, keys)
        PROVE  views'[e].points = reorderPoint /\ views'[e].at = "available"
    BY <2>1 DEF ReadAvailability, TypeOK, NoView
  <2>2. ASSUME ReadLatches(e)
        PROVE  /\ views'[e].keys = views[e].keys /\ views'[e].points = views[e].points
               /\ views'[e].alerted = alert
    BY <2>2 DEF ReadLatches, TypeOK, View
  <2>3. ASSUME RollBack(e)
        PROVE  views'[e].keys = {}
    BY <2>3 DEF RollBack, TypeOK, NoView
  <2> QED
    BY <2>1, <2>2, <2>3 DEF EvaluationNext, LockedAsRead
<1> QED
  BY <1>1, <1>2, <1>3 DEF LockedAsRead

\* A step evaluates the latch, leaves it alone, or is about planning.
LEMMA StepsAndTheLatch ==
  ASSUME Next
  PROVE  \/ \E vs, keys : EvaluateLowStock(vs, keys) /\ UNCHANGED settings
         \/ UNCHANGED <<latch, reorderPoint>>
         \/ \E k \in Keys, point \in ReorderPoints : SetPlanning(k, point)
         \/ \E e \in Evaluations : EvaluationNext(e)
<1> DEFINE Evaluated == \E vs, keys : EvaluateLowStock(vs, keys) /\ UNCHANGED settings
<1>1. StockNext => Evaluated
  BY DEF StockNext, Adjust, ApplyStockChanges, ReceiveProduction, ApplyAllocatedStockMovements
<1>2. ASSUME NEW s \in Sessions, SessionNext(s)
      PROVE  Evaluated \/ UNCHANGED <<latch, reorderPoint>>
  <2>1. PICK t \in RecentTimes :
          \/ \E lines \in Requests, g \in Generations, alloc \in [Keys -> 0..MaxQty] :
               AcquireReservations(s, t, lines, g, alloc)
          \/ ReleaseReservations(s, t) \/ ExtendReservationsOnce(s, t)
          \/ ConsumeReservations(s, t) \/ ReplayConsumption(s, t)
    BY <1>2 DEF SessionNext
  <2>2. ASSUME NEW lines, NEW g, NEW alloc, AcquireReservations(s, t, lines, g, alloc)
        PROVE  Evaluated
    BY <2>2 DEF AcquireReservations
  <2>3. ReleaseReservations(s, t) => Evaluated
    BY DEF ReleaseReservations
  <2>4. ExtendReservationsOnce(s, t) => Evaluated
    BY DEF ExtendReservationsOnce
  <2>5. ConsumeReservations(s, t) => Evaluated
    BY DEF ConsumeReservations
  <2>6. ReplayConsumption(s, t) => UNCHANGED <<latch, reorderPoint>>
    BY DEF ReplayConsumption, settings
  <2> HIDE DEF Evaluated
  <2> QED
    BY <2>1, <2>2, <2>3, <2>4, <2>5, <2>6
<1>3. ASSUME NEW w \in Sweepers, SweepNext(w)
      PROVE  Evaluated \/ UNCHANGED <<latch, reorderPoint>>
  <2>1. SweepExpire(w) => Evaluated
    BY DEF SweepExpire
  <2>2. SweepAbandon(w) \/ (\E vs \in SUBSET Variants : SweepList(w, vs))
          => UNCHANGED <<latch, reorderPoint>>
    BY DEF SweepAbandon, SweepList, settings
  <2> HIDE DEF Evaluated
  <2> QED
    BY <1>3, <2>1, <2>2 DEF SweepNext
<1>4. AdminNext => \/ \E k \in Keys, point \in ReorderPoints : SetPlanning(k, point)
                   \/ UNCHANGED <<latch, reorderPoint>>
  BY DEF AdminNext, UpdateLocation
<1>5. Tick => UNCHANGED <<latch, reorderPoint>>
  BY DEF Tick, settings
<1> HIDE DEF Evaluated
<1>6. Evaluated => \E vs, keys : EvaluateLowStock(vs, keys) /\ UNCHANGED settings
  BY DEF Evaluated
<1> QED
  BY <1>1, <1>2, <1>3, <1>4, <1>5, <1>6 DEF Next

LEMMA StepKeepsLocks ==
  ASSUME TypeOK, LockedAsRead, [Next]_vars
  PROVE  LockedAsRead'
<1>1. ASSUME NEW vs, NEW keys, EvaluateLowStock(vs, keys), UNCHANGED settings
      PROVE  LockedAsRead'
  BY <1>1, EvaluationKeepsLocks
<1>2. UNCHANGED <<latch, reorderPoint>> => LockedAsRead'
  BY DEF LockedAsRead, latch
<1>3. ASSUME NEW k \in Keys, NEW point \in ReorderPoints, SetPlanning(k, point)
      PROVE  LockedAsRead'
  <2>1. views' = views /\ alert' = alert
    BY <1>3 DEF SetPlanning, latch
  <2>2. \A e \in Evaluations : views[e].keys \subseteq Keys /\ k \notin views[e].keys
    BY <1>3 DEF SetPlanning, Unlocked, TypeOK, View
  <2>3. \A j \in Keys \ {k} : reorderPoint'[j] = reorderPoint[j]
    BY <1>3 DEF SetPlanning, TypeOK
  <2> QED
    BY <2>1, <2>2, <2>3 DEF LockedAsRead
<1>4. UNCHANGED vars => UNCHANGED <<latch, reorderPoint>>
  BY DEF vars, settings
<1> QED
  BY <1>1, <1>2, <1>3, <1>4, ReadsKeepLocks, StepsAndTheLatch

\* The latch of a variant in vs follows the availability the step leaves, if what
\* its evaluation read of items that were not locked is still true.
LEMMA EvaluationIsNoticed ==
  ASSUME TypeOK, LockedAsRead, NEW v \in Variants, NEW vs, NEW keys, v \in vs,
         EvaluateLowStock(vs, keys), UNCHANGED <<sellable, reorderPoint>>,
         \A l \in Locations :
           <<v, l>> \notin keys => AvailableUnits(<<v, l>>)' = AvailableUnits(<<v, l>>),
         AvailableToSell(v)' < AvailableToSell(v), LowStock(v)',
         \A e \in Evaluations : ~(views'[e] # views[e] /\ Overtaken(e, v))
  PROVE  Alerted(v)'
<1>1. sellable # {}
  <2> SUFFICES ASSUME sellable = {}
               PROVE  FALSE
    OBVIOUS
  <2>1. AvailableToSell(v) = 0 /\ AvailableToSell(v)' = 0
    BY SumEmpty DEF AvailableToSell
  <2> QED BY <2>1
<1>2. sellable \subseteq Locations /\ \A l \in sellable : <<v, l>> \in Keys
  BY DEF TypeOK, Keys
<1>3. \A l \in sellable :
        alert'[<<v, l>>] = IF ~Alerted(v) THEN TRUE ELSE alert[<<v, l>>]
  <2>1. CASE EvaluateAtOnce(vs, keys)
    BY <1>2, <2>1 DEF EvaluateAtOnce, Alerted
  <2>2. ASSUME NEW e \in Evaluations, EvaluateAsRead(e, vs, keys)
        PROVE  \A l \in sellable :
                 alert'[<<v, l>>] = IF ~Alerted(v) THEN TRUE ELSE alert[<<v, l>>]
    <3> DEFINE view == views[e]
    <3>1. view.at = "latched" /\ view.keys = keys /\ views'[e].at = "idle"
      BY <2>2 DEF EvaluateAsRead, TypeOK, NoView
    <3>2. ~Overtaken(e, v)
      BY <3>1
    <3>3. view.sellable = sellable /\ view.rows = sellable
      BY <3>2 DEF Overtaken
    <3>4. \A l \in Locations : <<v, l>> \notin keys =>
            /\ view.units[<<v, l>>] = AvailableUnits(<<v, l>>)
            /\ view.points[<<v, l>>] = reorderPoint[<<v, l>>]
            /\ view.alerted[<<v, l>>] = alert[<<v, l>>]
      BY <3>1, <3>2 DEF Overtaken
    <3>5. \A l \in Locations :
            /\ view.points[<<v, l>>] = reorderPoint[<<v, l>>]
            /\ view.alerted[<<v, l>>] = alert[<<v, l>>]
      BY <3>1, <3>4 DEF LockedAsRead
    <3>6. \A l \in Locations :
            (IF <<v, l>> \in view.keys THEN AvailableUnits(<<v, l>>)' ELSE view.units[<<v, l>>])
              = AvailableUnits(<<v, l>>)'
      BY <3>1, <3>4
    <3> HIDE DEF view
    <3>7. SeenAt(view, v) = UnitsAt(v)'
      BY <3>6 DEF SeenAt, UnitsAt
    <3>8. SeenToSell(view, v) = AvailableToSell(v)'
      BY <3>3, <3>7 DEF SeenToSell, AvailableToSell
    <3>9. SeenLow(view, v) <=> LowStock(v)'
      BY <1>2, <3>3, <3>5, <3>8 DEF SeenLow, LowStock
    <3>10. SeenAlerted(view, v) <=> Alerted(v)
      BY <1>2, <3>3, <3>5 DEF SeenAlerted, Alerted
    <3>11. \A l \in sellable :
             alert'[<<v, l>>] = IF SeenLow(view, v) # SeenAlerted(view, v)
                                THEN SeenLow(view, v) ELSE alert[<<v, l>>]
      <4>1. alert' = [k \in Keys |->
                       IF k \in {i \in Keys : /\ i[1] \in vs /\ i[2] \in view.rows
                                             /\ SeenLow(view, i[1]) # SeenAlerted(view, i[1])}
                       THEN SeenLow(view, k[1]) ELSE alert[k]]
        BY <2>2 DEF EvaluateAsRead, view
      <4> QED
        BY <1>2, <3>3, <4>1
    <3>12. SeenLow(view, v) \in BOOLEAN /\ SeenAlerted(view, v) \in BOOLEAN
      BY DEF SeenLow, SeenAlerted
    <3> QED
      BY <3>9, <3>10, <3>11, <3>12
  <2> QED
    BY <2>1, <2>2 DEF EvaluateLowStock
<1>4. CASE Alerted(v)
  BY <1>3, <1>4 DEF Alerted
<1>5. CASE ~Alerted(v)
  BY <1>1, <1>3, <1>5 DEF Alerted
<1> QED BY <1>4, <1>5

\* Availability that falls at no location does not fall.
LEMMA NoDropWithoutLoss ==
  ASSUME TypeOK, TypeOK', UNCHANGED sellable, NEW v \in Variants,
         \A l \in Locations : AvailableUnits(<<v, l>>) <= AvailableUnits(<<v, l>>)'
  PROVE  ~(AvailableToSell(v)' < AvailableToSell(v))
<1> DEFINE f == UnitsAt(v)
           g == UnitsAt(v)'
<1>1. \A l \in Locations : /\ AvailableUnits(<<v, l>>) \in Int
                           /\ AvailableUnits(<<v, l>>)' \in Int
  BY DEF TypeOK, Keys, AvailableUnits
<1>2. \A l \in Locations : /\ f[l] = NonNegative(AvailableUnits(<<v, l>>))
                           /\ g[l] = NonNegative(AvailableUnits(<<v, l>>)')
  BY DEF UnitsAt, NonNegative
<1>3. \A l \in Locations : f[l] \in Nat /\ g[l] \in Nat /\ f[l] <= g[l]
  <2> SUFFICES ASSUME NEW l \in Locations
               PROVE  f[l] \in Nat /\ g[l] \in Nat /\ f[l] <= g[l]
    OBVIOUS
  <2> DEFINE a == AvailableUnits(<<v, l>>)
             b == AvailableUnits(<<v, l>>)'
  <2>1. f[l] = NonNegative(a) /\ g[l] = NonNegative(b)
    BY <1>2
  <2>2. a \in Int /\ b \in Int /\ a <= b
    BY <1>1
  <2> HIDE DEF a, b, f, g
  <2> QED BY <2>1, <2>2 DEF NonNegative
<1>4. IsFiniteSet(sellable) /\ sellable \subseteq Locations
  BY InventoryAssumption, FS_Subset DEF TypeOK
<1>5. AvailableToSell(v) = SumFunctionOnSet(f, sellable)
      /\ AvailableToSell(v)' = SumFunctionOnSet(g, sellable)
  BY DEF AvailableToSell
<1> HIDE DEF f, g
<1>6. SumFunctionOnSet(f, sellable) <= SumFunctionOnSet(g, sellable)
  BY <1>3, <1>4, SumMonotone
<1>7. SumFunctionOnSet(f, sellable) \in Nat /\ SumFunctionOnSet(g, sellable) \in Nat
  BY <1>3, <1>4, SumNat
<1> QED BY <1>5, <1>6, <1>7

\* The body of LowStockNoticed.
DropsNoticed ==
  \A v \in Variants :
    UNCHANGED sellable /\ AvailableToSell(v)' < AvailableToSell(v) /\ LowStock(v)'
      => \/ Alerted(v)'
         \/ \E e \in Evaluations : views'[e] # views[e] /\ Overtaken(e, v)

LossesOnlyOf(vs) ==
  \A v \in Variants \ vs, l \in Locations : AvailableUnits(<<v, l>>) <= AvailableUnits(<<v, l>>)'

LEMMA NoLossIsNoticed ==
  ASSUME TypeOK, TypeOK', LossesOnlyOf({})
  PROVE  DropsNoticed
  BY NoDropWithoutLoss DEF DropsNoticed, LossesOnlyOf

LEMMA LossesAreNoticed ==
  ASSUME TypeOK, TypeOK', LockedAsRead, NEW vs, NEW keys, EvaluateLowStock(vs, keys),
         LossesOnlyOf(vs), UNCHANGED settings,
         \A v \in Variants, l \in Locations :
           v \in vs /\ <<v, l>> \notin keys => AvailableUnits(<<v, l>>)' = AvailableUnits(<<v, l>>)
  PROVE  DropsNoticed
<1> SUFFICES ASSUME NEW v \in Variants, UNCHANGED sellable,
                    AvailableToSell(v)' < AvailableToSell(v), LowStock(v)',
                    \A e \in Evaluations : ~(views'[e] # views[e] /\ Overtaken(e, v))
             PROVE  Alerted(v)'
  BY DEF DropsNoticed
<1>1. v \in vs
  BY NoDropWithoutLoss DEF LossesOnlyOf
<1>2. UNCHANGED <<sellable, reorderPoint>>
  BY DEF settings
<1> QED BY <1>1, <1>2, EvaluationIsNoticed

\* Released units are available again.
LEMMA ReleaseLosesNothing ==
  ASSUME TypeOK, NEW R \in SUBSET Rows, ReleaseAccounting(R), UNCHANGED onHand
  PROVE  LossesOnlyOf({})
<1> SUFFICES ASSUME NEW v \in Variants, NEW l \in Locations
             PROVE  AvailableUnits(<<v, l>>) <= AvailableUnits(<<v, l>>)'
  BY DEF LossesOnlyOf
<1> DEFINE k == <<v, l>>
<1>1. k \in Keys
  BY DEF Keys
<1> HIDE DEF k
<1>2. UnitsIn(R, k) \in Nat
  BY UnitsInNatural
<1>3. reserved'[k] = reserved[k] - UnitsIn(R, k) /\ allocated'[k] = allocated[k]
  BY <1>1, <1>2 DEF ReleaseAccounting, ReservationAccounting, ReleaseEntries, TypeOK
<1>4. onHand[k] \in Int /\ reserved[k] \in Int /\ allocated[k] \in Int
  BY <1>1 DEF TypeOK
<1>5. onHand[k] - reserved[k] - allocated[k] <= onHand'[k] - reserved'[k] - allocated'[k]
  BY <1>2, <1>3, <1>4
<1> QED BY <1>5 DEF AvailableUnits, k

LEMMA CountersKept ==
  ASSUME TypeOK, UNCHANGED counters
  PROVE  LossesOnlyOf({})
<1> SUFFICES ASSUME NEW v \in Variants, NEW l \in Locations
             PROVE  AvailableUnits(<<v, l>>) <= AvailableUnits(<<v, l>>)'
  BY DEF LossesOnlyOf
<1>1. AvailableUnits(<<v, l>>)' = AvailableUnits(<<v, l>>)
  BY DEF counters, AvailableUnits
<1>2. AvailableUnits(<<v, l>>) \in Int
  BY DEF TypeOK, Keys, AvailableUnits
<1> QED BY <1>1, <1>2

\* A physical movement loses units at its own keys.
LEMMA StockIsNoticed ==
  ASSUME TypeOK, TypeOK', LockedAsRead, NEW keys, EvaluateLowStock({k[1] : k \in keys}, keys),
         UNCHANGED reserved, UNCHANGED settings,
         \A k \in Keys : k \notin keys => onHand'[k] = onHand[k] /\ allocated'[k] = allocated[k]
  PROVE  DropsNoticed
<1> DEFINE vs == {k[1] : k \in keys}
<1>1. LossesOnlyOf(vs)
  <2> SUFFICES ASSUME NEW v \in Variants \ vs, NEW l \in Locations
               PROVE  AvailableUnits(<<v, l>>) <= AvailableUnits(<<v, l>>)'
    BY DEF LossesOnlyOf
  <2> DEFINE k == <<v, l>>
  <2>1. k \in Keys /\ k \notin keys
    BY DEF Keys
  <2> HIDE DEF k
  <2>2. onHand[k] \in Int /\ reserved[k] \in Int /\ allocated[k] \in Int
    BY <2>1 DEF TypeOK
  <2>3. onHand[k] - reserved[k] - allocated[k] <= onHand'[k] - reserved'[k] - allocated'[k]
    BY <2>1, <2>2
  <2> QED BY <2>3 DEF AvailableUnits, k
<1>2. \A v \in Variants, l \in Locations :
        <<v, l>> \notin keys => AvailableUnits(<<v, l>>)' = AvailableUnits(<<v, l>>)
  BY DEF AvailableUnits, Keys
<1>3. EvaluateLowStock(vs, keys)
  OBVIOUS
<1> HIDE DEF vs
<1> QED BY <1>1, <1>2, <1>3, LossesAreNoticed

LEMMA StockNextIsNoticed ==
  ASSUME TypeOK, TypeOK', LockedAsRead, StockNext
  PROVE  DropsNoticed
<1>1. ASSUME NEW k \in Keys, NEW delta \in Deltas, Adjust(k, delta)
      PROVE  DropsNoticed
  <2>1. EvaluateLowStock({j[1] : j \in {k}}, {k}) /\ UNCHANGED <<reserved, allocated, settings>>
    <3>1. {j[1] : j \in {k}} = {k[1]}
      OBVIOUS
    <3> QED BY <1>1, <3>1 DEF Adjust
  <2>2. \A j \in Keys : j \notin {k} => onHand'[j] = onHand[j] /\ allocated'[j] = allocated[j]
    BY <1>1 DEF Adjust, TypeOK
  <2> QED BY <2>1, <2>2, StockIsNoticed
<1>2. ASSUME NEW m, DOMAIN m \subseteq Keys, ApplyStockChanges(m)
      PROVE  DropsNoticed
  <2> DEFINE keys == DOMAIN m
  <2>1. EvaluateLowStock({k[1] : k \in keys}, keys) /\ UNCHANGED <<reserved, allocated, settings>>
    BY <1>2 DEF ApplyStockChanges
  <2>2. \A j \in Keys : j \notin keys => onHand'[j] = onHand[j] /\ allocated'[j] = allocated[j]
    <3> SUFFICES ASSUME NEW j \in Keys, j \notin keys
                 PROVE  onHand'[j] = onHand[j]
      BY <2>1
    <3>1. onHand'[j] = onHand[j] + 0
      BY <1>2 DEF ApplyStockChanges
    <3> QED BY <3>1 DEF TypeOK
  <2> HIDE DEF keys
  <2> QED BY <2>1, <2>2, StockIsNoticed
<1>3. ASSUME NEW k \in Keys, NEW q \in 1..MaxQty, ReceiveProduction(k, q)
      PROVE  DropsNoticed
  <2> DEFINE m == [j \in {k} |-> <<q, 0>>]
  <2>1. ApplyStockChanges(m) /\ DOMAIN m \subseteq Keys
    BY <1>3 DEF ReceiveProduction
  <2> HIDE DEF m
  <2> QED BY <2>1, <1>2
<1>4. ASSUME NEW reason, NEW m, DOMAIN m \subseteq Keys,
             ApplyAllocatedStockMovements(reason, m)
      PROVE  DropsNoticed
  <2> DEFINE keys == DOMAIN m
  <2>1. EvaluateLowStock({k[1] : k \in keys}, keys) /\ UNCHANGED <<reserved, settings>>
    BY <1>4 DEF ApplyAllocatedStockMovements
  <2>2. \A j \in Keys : j \notin keys => onHand'[j] = onHand[j] /\ allocated'[j] = allocated[j]
    <3> SUFFICES ASSUME NEW j \in Keys, j \notin keys
                 PROVE  onHand'[j] = onHand[j] /\ allocated'[j] = allocated[j]
      OBVIOUS
    <3>1. onHand'[j] = onHand[j] - 0 /\ allocated'[j] = allocated[j] - 0
      BY <1>4 DEF ApplyAllocatedStockMovements
    <3> QED BY <3>1 DEF TypeOK
  <2> HIDE DEF keys
  <2> QED BY <2>1, <2>2, StockIsNoticed
<1> QED BY <1>1, <1>2, <1>3, <1>4 DEF StockNext, Movements

\* A new hold loses units of the variants asked for.
LEMMA AcquireIsNoticed ==
  ASSUME TypeOK, TypeOK', LockedAsRead, NEW s \in Sessions, NEW t, NEW lines, NEW g \in Generations,
         NEW alloc \in [Keys -> 0..MaxQty], AcquireReservations(s, t, lines, g, alloc)
  PROVE  DropsNoticed
<1> DEFINE due == DueRows(s, t)
<1>1. EvaluateLowStock(DOMAIN lines, SessionItems(s, DOMAIN lines)) /\ UNCHANGED settings
  BY DEF AcquireReservations
<1>2. LossesOnlyOf(DOMAIN lines)
  <2> SUFFICES ASSUME NEW v \in Variants \ DOMAIN lines, NEW l \in Locations
               PROVE  AvailableUnits(<<v, l>>) <= AvailableUnits(<<v, l>>)'
    BY DEF LossesOnlyOf
  <2> DEFINE k == <<v, l>>
  <2>1. k \in Keys /\ k[1] \notin DOMAIN lines
    BY DEF Keys
  <2> HIDE DEF k
  <2>2. alloc[k] = 0
    <3>1. ~(alloc[k] > 0)
      BY <2>1 DEF AcquireReservations, Allocates
    <3>2. alloc[k] \in 0..MaxQty
      BY <2>1
    <3> QED BY <3>1, <3>2, InventoryAssumption
  <2>3. UnitsIn(due, k) \in Nat
    BY UnitsInNatural DEF DueRows, ActiveRows
  <2>4. reserved'[k] = reserved[k] + (alloc[k] - UnitsIn(due, k))
        /\ allocated'[k] = allocated[k] + 0 /\ UNCHANGED onHand
    BY <2>1 DEF AcquireReservations, ReservationAccounting
  <2>5. onHand[k] \in Int /\ reserved[k] \in Int /\ allocated[k] \in Int
    BY <2>1 DEF TypeOK
  <2> HIDE DEF due
  <2>6. onHand[k] - reserved[k] - allocated[k] <= onHand'[k] - reserved'[k] - allocated'[k]
    BY <2>2, <2>3, <2>4, <2>5
  <2> QED BY <2>6 DEF AvailableUnits, k
<1>3. \A v \in Variants, l \in Locations :
        v \in DOMAIN lines => <<v, l>> \in SessionItems(s, DOMAIN lines)
  BY DEF SessionItems, ItemsOf
<1> QED BY <1>1, <1>2, <1>3, LossesAreNoticed

\* Units that become an order's were reserved: none becomes unavailable.
LEMMA ConsumeLosesNothing ==
  ASSUME TypeOK, NEW s \in Sessions, NEW t \in RecentTimes, ConsumeReservations(s, t)
  PROVE  LossesOnlyOf({})
<1> DEFINE due == DueRows(s, t)
           held == HeldRows(s, t)
<1> SUFFICES ASSUME NEW v \in Variants, NEW l \in Locations
             PROVE  AvailableUnits(<<v, l>>) <= AvailableUnits(<<v, l>>)'
  BY DEF LossesOnlyOf
<1> DEFINE k == <<v, l>>
<1>1. k \in Keys
  BY DEF Keys
<1> HIDE DEF k
<1>2. reserved'[k] = reserved[k] + (0 - UnitsIn(due \cup held, k))
      /\ allocated'[k] = allocated[k] + UnitsIn(held, k) /\ UNCHANGED onHand
  BY <1>1 DEF ConsumeReservations, ReservationAccounting
<1>3. due \in SUBSET Rows /\ held \in SUBSET Rows
  BY DEF DueRows, HeldRows, ActiveRows
<1>4. due \cap held = {}
  <2>1. t \in Int /\ \A r \in Rows : expiresAt[r] \in Int
    BY InventoryAssumption DEF TypeOK, RecentTimes
  <2> QED BY <2>1 DEF DueRows, HeldRows, ActiveRows
<1> HIDE DEF due, held
<1>5. UnitsIn(due \cup held, k) = UnitsIn(due, k) + UnitsIn(held, k)
  BY <1>3, <1>4, UnitsAddUp, UnitsBeforeAndAfter
<1>6. UnitsIn(due, k) \in Nat /\ UnitsIn(held, k) \in Nat
  BY <1>3, UnitsInNatural
<1>7. onHand[k] \in Int /\ reserved[k] \in Int /\ allocated[k] \in Int
  BY <1>1 DEF TypeOK
<1>8. onHand[k] - reserved[k] - allocated[k] <= onHand'[k] - reserved'[k] - allocated'[k]
  BY <1>2, <1>5, <1>6, <1>7
<1> QED BY <1>8 DEF AvailableUnits, k

LEMMA SessionIsNoticed ==
  ASSUME TypeOK, TypeOK', LockedAsRead, NEW s \in Sessions, SessionNext(s)
  PROVE  DropsNoticed
<1>0. PICK t \in RecentTimes :
        \/ \E lines \in Requests, g \in Generations, alloc \in [Keys -> 0..MaxQty] :
             AcquireReservations(s, t, lines, g, alloc)
        \/ ReleaseReservations(s, t)
        \/ ExtendReservationsOnce(s, t)
        \/ ConsumeReservations(s, t)
        \/ ReplayConsumption(s, t)
  BY DEF SessionNext
<1>1. DueRows(s, t) \in SUBSET Rows /\ HeldRows(s, t) \in SUBSET Rows
  BY DEF DueRows, HeldRows, ActiveRows
<1>2. ASSUME ReleaseReservations(s, t) PROVE LossesOnlyOf({})
  <2> DEFINE R == DueRows(s, t) \cup HeldRows(s, t)
  <2>1. ReleaseAccounting(R) /\ UNCHANGED onHand /\ R \in SUBSET Rows
    BY <1>1, <1>2 DEF ReleaseReservations
  <2> HIDE DEF R
  <2> QED BY <2>1, ReleaseLosesNothing
<1>3. ASSUME ExtendReservationsOnce(s, t) PROVE LossesOnlyOf({})
  <2>1. ReleaseAccounting(DueRows(s, t)) /\ UNCHANGED onHand
    BY <1>3 DEF ExtendReservationsOnce
  <2> QED BY <1>1, <2>1, ReleaseLosesNothing
<1>4. ASSUME ReplayConsumption(s, t) PROVE LossesOnlyOf({})
  <2>1. ReleaseAccounting(DueRows(s, t)) /\ UNCHANGED onHand
    BY <1>4 DEF ReplayConsumption
  <2> QED BY <1>1, <2>1, ReleaseLosesNothing
<1> QED BY <1>0, <1>2, <1>3, <1>4, AcquireIsNoticed, ConsumeLosesNothing, NoLossIsNoticed

LEMMA SweepIsNoticed ==
  ASSUME TypeOK, TypeOK', NEW w \in Sweepers, SweepNext(w)
  PROVE  DropsNoticed
<1>1. ASSUME SweepExpire(w) PROVE LossesOnlyOf({})
  <2>1. ReleaseAccounting(StillDue(w)) /\ UNCHANGED onHand
    BY <1>1 DEF SweepExpire
  <2>2. StillDue(w) \in SUBSET Rows
    BY DEF StillDue, TypeOK
  <2> QED BY <2>1, <2>2, ReleaseLosesNothing
<1>2. ASSUME UNCHANGED counters PROVE LossesOnlyOf({})
  BY <1>2, CountersKept
<1>3. SweepAbandon(w) => UNCHANGED counters
  BY DEF SweepAbandon
<1>4. (\E vs \in SUBSET Variants : SweepList(w, vs)) => UNCHANGED counters
  BY DEF SweepList
<1> QED BY <1>1, <1>2, <1>3, <1>4, NoLossIsNoticed DEF SweepNext

\* A drop of availability is noticed by the step that causes it.
LEMMA StepIsNoticed ==
  ASSUME TypeOK, TypeOK', LockedAsRead, [Next]_vars
  PROVE  DropsNoticed
<1>1. AdminNext \/ (\E e \in Evaluations : EvaluationNext(e)) => UNCHANGED counters
  BY EvaluationsOnlyRead DEF AdminNext, SetPlanning, UpdateLocation
<1>2. Tick => UNCHANGED counters
  BY DEF Tick
<1>3. UNCHANGED vars => UNCHANGED counters
  BY DEF vars
<1>4. UNCHANGED counters => DropsNoticed
  BY CountersKept, NoLossIsNoticed
<1> QED BY <1>1, <1>2, <1>3, <1>4, StockNextIsNoticed, SessionIsNoticed, SweepIsNoticed DEF Next

\* An operation that lowers the availability of a variant to a low level leaves its
\* latch on, for any number of locations, sessions and evaluations under way, unless
\* an item it had not locked or a location changed after its evaluation read it.
THEOREM DropsAreNoticed == Spec => LowStockNoticed
<1>1. TypeOK /\ TypeOK' /\ LockedAsRead /\ [Next]_vars => [DropsNoticed]_vars
  BY StepIsNoticed
<1>2. Spec => []TypeOK
  BY InventoryTypeCorrect
<1>3. Init => LockedAsRead
  BY DEF Init, LockedAsRead, NoView
<1>4. TypeOK /\ LockedAsRead /\ [Next]_vars => LockedAsRead'
  BY StepKeepsLocks
<1>5. Spec => [][DropsNoticed]_vars
  BY <1>1, <1>2, <1>3, <1>4, PTL DEF Spec
<1> QED
  BY <1>5, PTL DEF LowStockNoticed, DropsNoticed

-----------------------------------------------------------------------------
(***************************************************************************)
(* The inventory implements StockPromise.                                  *)
(***************************************************************************)

\* The units of rows, session by session, are the units of the rows.
LEMMA UnitsBySession ==
  ASSUME NEW q, NEW R \in SUBSET Rows, NEW k
  PROVE  SumFunctionOnSet([s \in Sessions |-> Units(q, R \cap RowsOf(s), k)], Sessions) = Units(q, R, k)
<1> DEFINE T == Tokens(q, R, k)
           one == [x \in T |-> 1]
           of == [x \in T |-> x[1][1]]
           part(s) == [x \in T |-> IF of[x] = s THEN one[x] ELSE 0]
<1>1. IsFiniteSet(T) /\ Units(q, R, k) = Cardinality(T)
  BY UnitsAreNatural DEF Units
<1>2. IsFiniteSet(Sessions)
  BY InventoryAssumption
<1>3. \A x \in T : of[x] \in Sessions
  BY DEF Tokens, Rows
<1>4. SumFunctionOnSet(one, T) = Cardinality(T)
  <2> HIDE DEF T
  <2> QED BY <1>1, SumCounts
<1>5. ASSUME NEW s \in Sessions
      PROVE  SumFunctionOnSet(part(s), T) = Units(q, R \cap RowsOf(s), k)
  <2> DEFINE mine == Tokens(q, R \cap RowsOf(s), k)
  <2>1. mine \subseteq T
    BY DEF Tokens
  <2>2. \A x \in T : x \in mine <=> of[x] = s
    BY DEF Tokens, RowsOf
  <2>3. \A x \in T : part(s)[x] = IF x \in mine THEN 1 ELSE 0
    BY <2>2
  <2> HIDE DEF mine, T, part
  <2>4. SumFunctionOnSet(part(s), T) = Cardinality(mine)
    BY <1>1, <2>1, <2>3, SumCounts
  <2> QED BY <2>4 DEF mine, Units
<1>6. SumFunctionOnSet(one, T) =
        SumFunctionOnSet([s \in Sessions |-> SumFunctionOnSet([x \in T |-> IF of[x] = s THEN one[x] ELSE 0], T)],
                         Sessions)
  <2>1. \A x \in T : one[x] \in Nat /\ one[x] = IF of[x] \in Sessions THEN one[x] ELSE 0
    BY <1>3
  <2> HIDE DEF T, of, one
  <2> QED BY <1>1, <1>2, <2>1, SumOfGroups
<1>7. [s \in Sessions |-> SumFunctionOnSet(part(s), T)] = [s \in Sessions |-> Units(q, R \cap RowsOf(s), k)]
  <2> HIDE DEF T, part
  <2> QED BY <1>5
<1> QED BY <1>1, <1>4, <1>6, <1>7

\* What is held and free, as the promise counts it, on both sides of a step.
LEMMA HeldIsReserved ==
  ASSUME NEW k \in Keys
  PROVE  /\ Promise!HeldAt(k) = Units(quantity, ActiveRows, k)
         /\ Promise!HeldAt(k)' = Units(quantity', ActiveRows', k)
<1>1. ActiveRows \in SUBSET Rows /\ ActiveRows' \in SUBSET Rows
  BY DEF ActiveRows
<1>2. /\ [s \in Sessions |-> HeldUnits[s][k]]
           = [s \in Sessions |-> Units(quantity, ActiveRows \cap RowsOf(s), k)]
      /\ [s \in Sessions |-> HeldUnits'[s][k]]
           = [s \in Sessions |-> Units(quantity', ActiveRows' \cap RowsOf(s), k)]
  BY DEF HeldUnits, UnitsIn, UnitTokens, Units, Tokens, RowsOf
<1>3. \A f, S : Promise!SumFunctionOnSet(f, S) = SumFunctionOnSet(f, S)
  BY DEF Promise!SumFunctionOnSet, Promise!FoldFunctionOnSet, Promise!MapThenFoldSet,
         SumFunctionOnSet, FoldFunctionOnSet, MapThenFoldSet
<1> QED BY <1>1, <1>2, <1>3, UnitsBySession DEF Promise!HeldAt

LEMMA FreeIsAvailable ==
  ASSUME NEW k \in Keys
  PROVE  /\ IInv  => Promise!Free(k) = AvailableUnits(k) /\ AvailableUnits(k) \in Nat
         /\ IInv' => Promise!Free(k)' >= 0
<1>1. /\ UnitsIn(ActiveRows, k) = Units(quantity, ActiveRows, k)
      /\ UnitsIn(ActiveRows, k)' = Units(quantity', ActiveRows', k)
  BY UnitsBeforeAndAfter
<1>2. /\ IInv => /\ reserved[k] = UnitsIn(ActiveRows, k)
                 /\ onHand[k] \in Int /\ reserved[k] \in Int /\ allocated[k] \in Int
                 /\ onHand[k] >= reserved[k] + allocated[k]
      /\ IInv' => /\ reserved'[k] = UnitsIn(ActiveRows, k)'
                  /\ onHand'[k] \in Int /\ reserved'[k] \in Int /\ allocated'[k] \in Int
                  /\ onHand'[k] >= reserved'[k] + allocated'[k]
  BY DEF IInv, Books, TypeOK, ReservedAreActiveHolds, NoOversell
<1>3. /\ Promise!Free(k) = onHand[k] - Units(quantity, ActiveRows, k) - allocated[k]
      /\ Promise!Free(k)' = onHand'[k] - Units(quantity', ActiveRows', k) - allocated'[k]
  BY HeldIsReserved DEF Promise!Free
<1> QED BY <1>1, <1>2, <1>3 DEF AvailableUnits

\* What a session holds is a number of units of each key.
LEMMA HeldTyped ==
  /\ HeldUnits \in [Sessions -> [Keys -> Nat]]
  /\ \A s \in Sessions, k \in Keys :
       /\ HeldUnits[s][k] = Units(quantity, ActiveRows \cap RowsOf(s), k)
       /\ HeldUnits'[s][k] = Units(quantity', ActiveRows' \cap RowsOf(s), k)
       /\ HeldUnits'[s][k] \in Nat
  /\ HeldUnits' \in [Sessions -> [Keys -> Nat]]
<1>1. ASSUME NEW s \in Sessions, NEW k \in Keys
      PROVE  /\ HeldUnits[s][k] = Units(quantity, ActiveRows \cap RowsOf(s), k)
             /\ HeldUnits'[s][k] = Units(quantity', ActiveRows' \cap RowsOf(s), k)
  BY DEF HeldUnits, UnitsIn, UnitTokens, Units, Tokens, RowsOf
<1>2. ASSUME NEW s \in Sessions
      PROVE  ActiveRows \cap RowsOf(s) \in SUBSET Rows /\ ActiveRows' \cap RowsOf(s) \in SUBSET Rows
  BY DEF ActiveRows
<1>3. ASSUME NEW s \in Sessions, NEW k \in Keys
      PROVE  HeldUnits[s][k] \in Nat /\ HeldUnits'[s][k] \in Nat
  BY <1>1, <1>2, UnitsAreNatural
<1>4. /\ HeldUnits = [s \in Sessions |-> [k \in Keys |-> HeldUnits[s][k]]]
      /\ HeldUnits' = [s \in Sessions |-> [k \in Keys |-> HeldUnits'[s][k]]]
  BY DEF HeldUnits
<1> QED BY <1>1, <1>3, <1>4

\* Rows that leave ACTIVE give their units back, and take nobody else's.
LEMMA ReleaseGivesBack ==
  ASSUME NEW R \in SUBSET ActiveRows, ActiveRows' = ActiveRows \ R,
         UNCHANGED <<quantity, onHand, allocated>>
  PROVE  Promise!GiveBack
<1>1. ASSUME NEW s \in Sessions, NEW k \in Keys
      PROVE  HeldUnits'[s][k] <= HeldUnits[s][k]
  <2> DEFINE mine == ActiveRows \cap RowsOf(s)
             gone == R \cap RowsOf(s)
  <2>1. mine \in SUBSET Rows /\ gone \in SUBSET mine /\ gone \in SUBSET Rows
    BY DEF ActiveRows
  <2>2. ActiveRows' \cap RowsOf(s) = mine \ gone
    OBVIOUS
  <2>3. HeldUnits'[s][k] = Units(quantity, mine \ gone, k) /\ HeldUnits[s][k] = Units(quantity, mine, k)
    BY <2>2, HeldTyped
  <2> HIDE DEF mine, gone
  <2>4. Units(quantity, mine \ gone, k) = Units(quantity, mine, k) - Units(quantity, gone, k)
    BY <2>1, UnitsTakenOut
  <2>5. Units(quantity, mine, k) \in Nat /\ Units(quantity, gone, k) \in Nat
    BY <2>1, UnitsAreNatural
  <2> QED BY <2>3, <2>4, <2>5
<1> QED BY <1>1, HeldTyped DEF Promise!GiveBack, Promise!Amounts

\* The accounting of a release leaves what is allocated.
LEMMA ReleaseAllocatesNothing ==
  ASSUME TypeOK, NEW R, ReleaseAccounting(R)
  PROVE  UNCHANGED allocated
<1>1. allocated' = [k \in Keys |-> allocated[k] + 0]
  BY DEF ReleaseAccounting, ReservationAccounting
<1> QED BY <1>1 DEF TypeOK

\* A new hold takes what is available, in place of the session's expired rows.
LEMMA AcquireHolds ==
  ASSUME IInv, HInv, NEW s \in Sessions, NEW t \in RecentTimes, NEW lines, NEW g \in Generations,
         NEW alloc \in [Keys -> 0..MaxQty], AcquireReservations(s, t, lines, g, alloc)
  PROVE  Promise!Hold(s)
<1> DEFINE new == NewRows(s, g, alloc)
           due == DueRows(s, t)
<1>1. TypeOK
  BY DEF IInv
<1>2. /\ new \in SUBSET Rows /\ due \in SUBSET ActiveRows /\ ActiveRows \in SUBSET Rows
      /\ ActiveRows' = (ActiveRows \ due) \cup new
  BY <1>1, AcquireRows, SessionRows
<1>3. due = ActiveRows \cap RowsOf(s)
  <2>1. HeldRows(s, t) = {}
    BY DEF AcquireReservations
  <2>2. \A r \in ActiveRows \cap RowsOf(s) : r \in due \/ r \in HeldRows(s, t)
    BY <1>1, <1>2, RowsFound DEF ActiveRows, RowsOf
  <2> QED BY <2>1, <2>2, <1>2 DEF DueRows
<1>4. \A r \in Rows : quantity'[r] = IF r \in new THEN alloc[r[2]] ELSE quantity[r]
  BY DEF AcquireReservations, NewRows
<1>5. new \subseteq RowsOf(s)
  BY <1>2 DEF RowsOf, NewRows
<1> HIDE DEF new, due
<1>6. ASSUME NEW k \in Keys
      PROVE  HeldUnits'[s][k] = alloc[k]
  <2>1. ActiveRows' \cap RowsOf(s) = new
    BY <1>2, <1>3, <1>5
  <2>2. \A r \in NewRows(s, g, alloc) : quantity'[r] = alloc[r[2]]
    BY <1>2, <1>4 DEF new
  <2>3. Units(quantity', new, k) = alloc[k]
    BY <2>2, UnitsOfNewHold DEF new
  <2> QED BY <2>1, <2>3, HeldTyped
<1>7. ASSUME NEW r \in Sessions, r # s, NEW k \in Keys
      PROVE  HeldUnits'[r][k] = HeldUnits[r][k]
  <2>1. ActiveRows' \cap RowsOf(r) = ActiveRows \cap RowsOf(r)
    BY <1>2, <1>3, <1>5, <1>7 DEF RowsOf
  <2>2. \A q \in ActiveRows \cap RowsOf(r) : quantity'[q] = quantity[q]
    BY <1>2, <1>4, <1>5, <1>7 DEF RowsOf
  <2>3. Units(quantity', ActiveRows \cap RowsOf(r), k) = Units(quantity, ActiveRows \cap RowsOf(r), k)
    BY <2>2, UnitsOfUnchangedRows
  <2> QED BY <2>1, <2>3, HeldTyped
<1>8. HeldUnits' = [HeldUnits EXCEPT ![s] = HeldUnits'[s]]
  <2>1. \A r \in Sessions : r # s => HeldUnits'[r] = HeldUnits[r]
    BY <1>7, HeldTyped
  <2> QED BY <2>1, HeldTyped
<1>9. ASSUME NEW k \in Keys
      PROVE  HeldUnits'[s][k] <= Promise!Free(k)
  <2>1. alloc[k] \in Nat /\ (alloc[k] > 0 => alloc[k] <= AvailableUnits(k))
    BY InventoryAssumption DEF AcquireReservations, Allocates
  <2> QED BY <1>6, <2>1, FreeIsAvailable
<1>10. UNCHANGED <<onHand, allocated>>
  <2>1. allocated' = [k \in Keys |-> allocated[k] + 0]
    BY DEF AcquireReservations, ReservationAccounting
  <2> QED BY <1>1, <2>1 DEF AcquireReservations, TypeOK
<1> QED BY <1>8, <1>9, <1>10, HeldTyped DEF Promise!Hold, Promise!Amounts

\* An order takes all its session holds: a hold is due as a whole, or not at all.
LEMMA ConsumeOrders ==
  ASSUME IInv, HInv, NEW s \in Sessions, NEW t \in RecentTimes, ConsumeReservations(s, t)
  PROVE  Promise!Order(s)
<1> DEFINE held == HeldRows(s, t)
           mine == ActiveRows \cap RowsOf(s)
<1>1. TypeOK /\ t \in Int
  BY RowsFound DEF IInv
<1>2. DueRows(s, t) = {} /\ held = mine
  <2>1. PICK r \in held : TRUE
    BY DEF ConsumeReservations
  <2>2. r \in mine /\ expiresAt[r] > t
    BY <2>1 DEF HeldRows
  <2>3. \A q \in mine : expiresAt[q] = expiresAt[r]
    BY <2>2 DEF HInv, OneHoldPerSession, RowsOf
  <2>4. \A q \in mine : expiresAt[q] > t /\ ~(expiresAt[q] <= t)
    BY <1>1, <2>2, <2>3, InventoryAssumption DEF TypeOK, ActiveRows
  <2> QED BY <2>4 DEF DueRows, HeldRows
<1>3. ActiveRows' = ActiveRows \ mine /\ UNCHANGED quantity
  <2>1. \A r \in Rows : status'[r] = IF r \in held THEN "CONSUMED"
                                     ELSE IF r \in DueRows(s, t) THEN "EXPIRED" ELSE status[r]
    BY DEF ConsumeReservations, Expired
  <2>2. mine \subseteq ActiveRows
    OBVIOUS
  <2> HIDE DEF mine, held
  <2> QED BY <1>2, <2>1, <2>2 DEF ActiveRows, ConsumeReservations
<1>4. \A k \in Keys : HeldUnits[s][k] = Units(quantity, mine, k)
  BY HeldTyped
<1>5. ASSUME NEW k \in Keys
      PROVE  HeldUnits'[s][k] = 0
  <2>1. ActiveRows' \cap RowsOf(s) = {}
    BY <1>3
  <2>2. HeldUnits'[s][k] = Units(quantity', {}, k)
    BY <2>1, HeldTyped
  <2> QED BY <2>2, NoRowsNoUnits
<1>6. ASSUME NEW r \in Sessions, r # s, NEW k \in Keys
      PROVE  HeldUnits'[r][k] = HeldUnits[r][k]
  <2>1. ActiveRows' \cap RowsOf(r) = ActiveRows \cap RowsOf(r)
    BY <1>3, <1>6 DEF RowsOf
  <2> QED BY <1>3, <2>1, HeldTyped
<1>7. HeldUnits' = [HeldUnits EXCEPT ![s] = [k \in Keys |-> 0]]
  <2>1. HeldUnits'[s] = [k \in Keys |-> 0] /\ \A r \in Sessions : r # s => HeldUnits'[r] = HeldUnits[r]
    BY <1>5, <1>6, HeldTyped
  <2> QED BY <2>1, HeldTyped
<1>8. allocated' = [k \in Keys |-> allocated[k] + HeldUnits[s][k]]
  <2>1. allocated' = [k \in Keys |-> allocated[k] + UnitsIn(held, k)]
    BY DEF ConsumeReservations, ReservationAccounting
  <2>2. \A k \in Keys : UnitsIn(held, k) = HeldUnits[s][k]
    BY <1>2, <1>4, UnitsBeforeAndAfter
  <2> HIDE DEF held
  <2> QED BY <2>1, <2>2
<1> QED BY <1>7, <1>8 DEF Promise!Order, Promise!Nothing, ConsumeReservations

\* Without a change of rows nobody's hold changes.
LEMMA HeldStays ==
  ASSUME UNCHANGED <<status, quantity>>
  PROVE  UNCHANGED HeldUnits
BY DEF HeldUnits, UnitsIn, UnitTokens, ActiveRows, RowsOf

\* Physical stock: the units set aside stay on the shelves.
LEMMA StockCounts ==
  ASSUME IInv', UNCHANGED <<status, quantity, allocated>>
  PROVE  Promise!Count
<1>1. \A k \in Keys : Promise!Free(k)' >= 0
  BY FreeIsAvailable
<1>2. onHand' \in [Keys -> Nat]
  BY DEF IInv, TypeOK, Books, NoOversell
<1> QED BY <1>1, <1>2, HeldStays DEF Promise!Count, Promise!Amounts

\* Units of orders leave or are free again.
LEMMA AllocatedLeaves ==
  ASSUME IInv, IInv', NEW reason \in {"FULFILMENT", "ALLOCATION_RELEASE"},
         NEW m, DOMAIN m \subseteq Keys, \A k \in DOMAIN m : m[k] \in Nat,
         ApplyAllocatedStockMovements(reason, m)
  PROVE  Promise!Ship \/ Promise!Cancel
<1> DEFINE out(k) == IF k \in DOMAIN m THEN m[k] ELSE 0
<1>1. /\ onHand \in [Keys -> Int] /\ allocated \in [Keys -> Int] /\ allocated' \in [Keys -> Nat]
      /\ \A k \in Keys : out(k) \in Nat
  BY DEF IInv, TypeOK, Books, NoOversell
<1>2. /\ allocated' = [k \in Keys |-> allocated[k] - out(k)]
      /\ onHand' = [k \in Keys |-> onHand[k] - IF reason = "FULFILMENT" THEN out(k) ELSE 0]
      /\ UNCHANGED holds
  BY DEF ApplyAllocatedStockMovements
<1> HIDE DEF out
<1>3. Promise!Leave
  BY <1>1, <1>2, HeldStays DEF Promise!Leave, Promise!Amounts, holds
<1>4. CASE reason = "FULFILMENT"
  <2>1. onHand' = [k \in Keys |-> onHand[k] - (allocated[k] - allocated'[k])]
    BY <1>1, <1>2, <1>4
  <2> QED BY <1>3, <2>1 DEF Promise!Ship
<1>5. CASE reason = "ALLOCATION_RELEASE"
  <2>1. onHand' = onHand
    BY <1>1, <1>2, <1>5
  <2> QED BY <1>3, <2>1 DEF Promise!Cancel
<1> QED BY <1>4, <1>5

LEMMA SessionKeepsPromise ==
  ASSUME IInv, HInv, NEW s \in Sessions, SessionNext(s)
  PROVE  Promise!Next
<1>1. PICK t \in RecentTimes :
        \/ \E lines \in Requests, g \in Generations, alloc \in [Keys -> 0..MaxQty] :
             AcquireReservations(s, t, lines, g, alloc)
        \/ ReleaseReservations(s, t) \/ ExtendReservationsOnce(s, t)
        \/ ConsumeReservations(s, t) \/ ReplayConsumption(s, t)
  BY DEF SessionNext
<1>2. TypeOK /\ DueRows(s, t) \in SUBSET ActiveRows /\ HeldRows(s, t) \in SUBSET ActiveRows
  BY SessionRows DEF IInv
<1>3. CASE \E lines \in Requests, g \in Generations, alloc \in [Keys -> 0..MaxQty] :
             AcquireReservations(s, t, lines, g, alloc)
  BY <1>3, AcquireHolds DEF Promise!Next
<1>4. CASE ConsumeReservations(s, t)
  BY <1>4, ConsumeOrders DEF Promise!Next
<1>5. CASE ReleaseReservations(s, t)
  <2> DEFINE due == DueRows(s, t)
             rest == HeldRows(s, t)
  <2>1. \A r \in Rows : status'[r] = IF r \in rest THEN "RELEASED"
                                     ELSE IF r \in due THEN "EXPIRED" ELSE status[r]
    BY <1>5 DEF ReleaseReservations, Expired
  <2>2. ReleaseAccounting(due \cup rest) /\ UNCHANGED <<quantity, onHand>>
    BY <1>5 DEF ReleaseReservations
  <2> HIDE DEF due, rest
  <2>3. due \cup rest \in SUBSET ActiveRows /\ ActiveRows' = ActiveRows \ (due \cup rest)
    BY <1>2, <2>1 DEF ActiveRows, due, rest
  <2> QED BY <1>2, <2>2, <2>3, ReleaseAllocatesNothing, ReleaseGivesBack DEF Promise!Next
<1>6. CASE ExtendReservationsOnce(s, t) \/ ReplayConsumption(s, t)
  <2>1. /\ ReleaseAccounting(DueRows(s, t)) /\ status' = Expired(DueRows(s, t))
        /\ UNCHANGED <<quantity, onHand>>
    BY <1>6 DEF ExtendReservationsOnce, ReplayConsumption
  <2>2. ActiveRows' = ActiveRows \ DueRows(s, t)
    BY <1>2, <2>1, ExpiredRows
  <2> QED BY <1>2, <2>1, <2>2, ReleaseAllocatesNothing, ReleaseGivesBack DEF Promise!Next
<1> QED BY <1>1, <1>3, <1>4, <1>5, <1>6

LEMMA SweepKeepsPromise ==
  ASSUME IInv, NEW w \in Sweepers, SweepNext(w)
  PROVE  [Promise!Next]_Promise!vars
<1>1. CASE SweepExpire(w)
  <2>1. TypeOK /\ StillDue(w) \in SUBSET ActiveRows
    BY DEF IInv, TypeOK, StillDue, ActiveRows
  <2>2. /\ ReleaseAccounting(StillDue(w)) /\ status' = Expired(StillDue(w))
        /\ UNCHANGED <<quantity, onHand>>
    BY <1>1 DEF SweepExpire
  <2>3. ActiveRows' = ActiveRows \ StillDue(w)
    BY <2>1, <2>2, ExpiredRows
  <2> QED BY <2>1, <2>2, <2>3, ReleaseAllocatesNothing, ReleaseGivesBack DEF Promise!Next
<1>2. CASE SweepAbandon(w) \/ \E vs \in SUBSET Variants : SweepList(w, vs)
  <2>1. UNCHANGED <<counters, holds>>
    BY <1>2 DEF SweepAbandon, SweepList
  <2> QED BY <2>1, HeldStays DEF counters, holds, Promise!vars
<1> QED BY <1>1, <1>2 DEF SweepNext

LEMMA StockKeepsPromise ==
  ASSUME IInv, IInv', StockNext
  PROVE  Promise!Next
<1>1. ASSUME NEW m, ApplyStockChanges(m)
      PROVE  Promise!Count
  <2>1. UNCHANGED <<status, quantity, allocated>>
    BY <1>1 DEF ApplyStockChanges, holds
  <2> QED BY <2>1, StockCounts
<1>2. ASSUME NEW k \in Keys, NEW delta \in Deltas, Adjust(k, delta)
      PROVE  Promise!Count
  <2>1. UNCHANGED <<status, quantity, allocated>>
    BY <1>2 DEF Adjust, holds
  <2> QED BY <2>1, StockCounts
<1>3. ASSUME NEW k \in Keys, NEW q \in 1..MaxQty, ReceiveProduction(k, q)
      PROVE  Promise!Count
  BY <1>1, <1>3 DEF ReceiveProduction
<1>4. ASSUME NEW reason \in {"FULFILMENT", "ALLOCATION_RELEASE"}, NEW m \in Movements(1..MaxQty),
             ApplyAllocatedStockMovements(reason, m)
      PROVE  Promise!Ship \/ Promise!Cancel
  <2>1. DOMAIN m \subseteq Keys /\ \A k \in DOMAIN m : m[k] \in Nat
    BY InventoryAssumption DEF Movements
  <2> QED BY <1>4, <2>1, AllocatedLeaves
<1> QED BY <1>1, <1>2, <1>3, <1>4 DEF StockNext, Promise!Next

LEMMA StepKeepsPromise ==
  ASSUME IInv, IInv', HInv, [Next]_vars
  PROVE  [Promise!Next]_Promise!vars
<1>1. CASE \/ AdminNext \/ Tick \/ UNCHANGED vars
           \/ \E e \in Evaluations : EvaluationNext(e)
  <2>1. UNCHANGED <<counters, holds>>
    BY <1>1, EvaluationsOnlyRead DEF AdminNext, SetPlanning, UpdateLocation, Tick, vars
  <2> QED BY <2>1, HeldStays DEF counters, holds, Promise!vars
<1> QED BY <1>1, StockKeepsPromise, SessionKeepsPromise, SweepKeepsPromise DEF Next

LEMMA InitKeepsPromise == Init => Promise!Init
<1> SUFFICES ASSUME Init
             PROVE  Promise!Init
  OBVIOUS
<1>1. ActiveRows = {}
  BY DEF Init, ActiveRows
<1>2. ASSUME NEW s \in Sessions, NEW k \in Keys
      PROVE  HeldUnits[s][k] = 0
  <2>1. HeldUnits[s][k] = Units(quantity, {}, k)
    BY <1>1, HeldTyped
  <2> QED BY <2>1, NoRowsNoUnits
<1>3. HeldUnits = [s \in Sessions |-> [k \in Keys |-> 0]]
  BY <1>2, HeldTyped
<1> QED BY <1>3 DEF Init, Promise!Init, Promise!Nothing

(* InventoryService and its repository: a unit is free, held for one       *)
(* session or an order's.  Holds are all or nothing and only of what is    *)
(* free; sweeps, extensions, replays and repeated consumptions move no     *)
(* unit of another session; an order gets what its session held.           *)
THEOREM PromiseIsKept == Spec => KeepsPromise
<1>1. Init => Promise!Init
  BY InitKeepsPromise
<1>2. IInv /\ IInv' /\ HInv /\ [Next]_vars => [Promise!Next]_Promise!vars
  BY StepKeepsPromise
<1>3. Spec => []HInv
  <2>1. Init => HInv
    BY InitHolds
  <2>2. HInv /\ [Next]_vars => HInv'
    BY StepKeepsHolds
  <2> QED BY <2>1, <2>2, PTL DEF Spec
<1> QED BY <1>1, <1>2, <1>3, InventoryInvariant, PTL DEF Spec, KeepsPromise, Promise!Spec
=============================================================================
