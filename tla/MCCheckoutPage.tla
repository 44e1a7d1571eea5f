--------------------------- MODULE MCCheckoutPage ---------------------------
(* A small instance of the checkout page for TLC. *)
EXTENDS CheckoutPage, TLC

CONSTANTS v1, s1, n1, n2

MCStock == [v \in Variants |-> 2]
MCSymmetry == Permutations(ConfirmKeys)
=============================================================================
