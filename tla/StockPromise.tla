---------------------------- MODULE StockPromise ----------------------------
(***************************************************************************)
(* What the inventory promises its customers and its orders, whatever      *)
(* becomes of rows, deadlines, sweeps and the ledger behind it: a unit is  *)
(* free, held for one session, or an order's.  A session takes what it     *)
(* holds in one step and only from what is free, nobody else takes from    *)
(* it, and an order gets what its session held and nothing else.           *)
(***************************************************************************)
EXTENDS Integers, Functions

CONSTANTS Keys, Sessions

VARIABLES
  units,    \* on the shelves, per key
  held,     \* per session, per key
  ordered   \* allocated to orders, per key

vars == <<units, held, ordered>>

Amounts == [Keys -> Nat]
Nothing == [k \in Keys |-> 0]

Init ==
  /\ units = Nothing
  /\ held = [s \in Sessions |-> Nothing]
  /\ ordered = Nothing

HeldAt(k) == SumFunctionOnSet([s \in Sessions |-> held[s][k]], Sessions)
Free(k)   == units[k] - HeldAt(k) - ordered[k]

\* Units arrive, are counted again or written off, but none that is set aside.
Count ==
  /\ units' \in Amounts
  /\ UNCHANGED <<held, ordered>>
  /\ \A k \in Keys : Free(k)' >= 0

\* A session takes its lines.  What an older hold of it still had is free again
\* afterwards, and not before.
Hold(s) ==
  /\ held'[s] \in Amounts
  /\ held' = [held EXCEPT ![s] = held'[s]]
  /\ \A k \in Keys : held'[s][k] <= Free(k)
  /\ UNCHANGED <<units, ordered>>

\* Units come back from sessions: all a session holds, or the rows of a batch.
GiveBack ==
  /\ held' \in [Sessions -> Amounts]
  /\ \A s \in Sessions, k \in Keys : held'[s][k] <= held[s][k]
  /\ UNCHANGED <<units, ordered>>

Order(s) ==
  /\ held' = [held EXCEPT ![s] = Nothing]
  /\ ordered' = [k \in Keys |-> ordered[k] + held[s][k]]
  /\ UNCHANGED units

\* Units of orders leave the shelves, or are free again.
Leave == ordered' \in Amounts /\ (\A k \in Keys : ordered'[k] <= ordered[k]) /\ UNCHANGED held
Ship   == Leave /\ units' = [k \in Keys |-> units[k] - (ordered[k] - ordered'[k])]
Cancel == Leave /\ UNCHANGED units

Next == Count \/ GiveBack \/ Ship \/ Cancel \/ \E s \in Sessions : Hold(s) \/ Order(s)

Spec == Init /\ [][Next]_vars
=============================================================================
