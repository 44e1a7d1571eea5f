----------------------------- MODULE MCPayments -----------------------------
(* Small instances of the payments for TLC. *)
EXTENDS Payments, TLC

CONSTANTS o1, o2, k1, k2, r1, r2, w1, e1, f1, f2, f3

MCSymmetry == Permutations(Keys) \cup Permutations(Requests) \cup Permutations(Refunds)
=============================================================================
