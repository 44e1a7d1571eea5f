---------------------- MODULE InventoryReconciliation ----------------------
(***************************************************************************)
(* An administrator's reconciliation with repair, beside the inventory.    *)
(* The ledger, the items and the purchase orders' incoming units are read  *)
(* by three independent queries outside any transaction; the repair is a   *)
(* later transaction that locks the items and writes what was computed     *)
(* from those answers.                                                     *)
(***************************************************************************)
EXTENDS Inventory

VARIABLES
  ordered,    \* units on order per key, as the purchase orders tell it
  running,    \* whether a reconciliation is under way
  unanswered, \* its queries that have not been answered yet
  answers     \* the answers, per query and key

reconciliation == <<running, unanswered, answers>>
reconciliationVars == <<vars, ordered, reconciliation>>

Fields == {"onHand", "reserved", "allocated", "incoming"}

Item(k) == [onHand |-> onHand[k], reserved |-> reserved[k],
            allocated |-> allocated[k], incoming |-> incoming[k]]

\* What each query returns for key k.
Answer(query, k) ==
  CASE query = "ledger"   -> Projection(ledger[k])
    [] query = "items"    -> Item(k)
    [] query = "incoming" -> [incoming |-> ordered[k]]

Queries == {"ledger", "items", "incoming"}

InitReconciliation ==
  /\ Init
  /\ ordered = [k \in Keys |-> 0]
  /\ running = FALSE
  /\ unanswered = {}
  /\ answers = [query \in Queries |-> [k \in Keys |-> Answer(query, k)]]

\* Any other operation.  The lines of a purchase order and the incoming units of
\* the item change in the same transaction.
InventoryStep ==
  /\ Next
  /\ ordered' = [k \in Keys |-> ordered[k] + incoming'[k] - incoming[k]]
  /\ UNCHANGED reconciliation

StartReconciliation ==
  /\ ~running
  /\ running' = TRUE
  /\ unanswered' = Queries
  /\ UNCHANGED <<vars, ordered, answers>>

ReadAnswer(query) ==
  /\ query \in unanswered
  /\ unanswered' = unanswered \ {query}
  /\ answers' = [answers EXCEPT ![query] = [k \in Keys |-> Answer(query, k)]]
  /\ UNCHANGED <<vars, ordered, running>>

\* reconciliationDelta: a field is written only where its two readings differ.
Repaired(k, field) ==
  LET expected == IF field = "incoming" THEN answers["incoming"][k][field]
                  ELSE answers["ledger"][k][field]
  IN IF answers["items"][k][field] # expected THEN expected ELSE Item(k)[field]

\* The repair's writes.  The database's CHECK constraints hold for them too.
Repair ==
  /\ running /\ unanswered = {}
  /\ Unlocked({}, Keys)
  /\ running' = FALSE
  /\ onHand'    = [k \in Keys |-> Repaired(k, "onHand")]
  /\ reserved'  = [k \in Keys |-> Repaired(k, "reserved")]
  /\ allocated' = [k \in Keys |-> Repaired(k, "allocated")]
  /\ incoming'  = [k \in Keys |-> Repaired(k, "incoming")]
  /\ \A k \in Keys : onHand'[k] - reserved'[k] - allocated'[k] >= 0
  /\ UNCHANGED <<ledger, latch, settings, holds, now, sweeps, ordered, unanswered, answers>>

\* The reconciliation stops before its repair, or the repair is rolled back.
GiveUp ==
  /\ running
  /\ running' = FALSE
  /\ unanswered' = {}
  /\ UNCHANGED <<vars, ordered, answers>>

NextReconciliation ==
  \/ InventoryStep
  \/ StartReconciliation
  \/ \E query \in Queries : ReadAnswer(query)
  \/ Repair
  \/ GiveUp

ReconciliationSpec ==
  InitReconciliation /\ [][NextReconciliation]_reconciliationVars

(***************************************************************************)
(* What the documentation says of the repair: it makes the items match the *)
(* ledger.  Nothing else in this specification parts them, so they always  *)
(* match.                                                                  *)
(***************************************************************************)
RepairKeepsItemsOnLedger == LedgerProjectsCounters
=============================================================================
