--------------------- MODULE MCInventoryReconciliation ---------------------
(* One key and one manual adjustment are enough to overtake a reconciliation. *)
EXTENDS InventoryReconciliation

CONSTANTS v1, s1
=============================================================================
