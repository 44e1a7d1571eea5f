---------------------------- MODULE MCInventory ----------------------------
(* Small instances of the inventory for TLC. *)
EXTENDS Inventory, TLC

CONSTANTS v1, v2, s1, s2, w1, w2, e1

MCSymmetry == Permutations(Sessions)

\* An adjustment up and one down.
MCDeltas == {-1, 1}
\* A purchase order placed, received, and cancelled.
MCStockChanges == {<<0, 1>>, <<1, -1>>, <<0, -1>>}
\* The second location is taken out of sale, and put back as the default one.
MCLocationEdits == {<<2, FALSE, FALSE>>, <<2, TRUE, TRUE>>}
=============================================================================
