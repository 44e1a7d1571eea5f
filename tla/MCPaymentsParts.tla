--------------------------- MODULE MCPaymentsParts ---------------------------
(***************************************************************************)
(* Two instances of the payments in one run; a behaviour is a behaviour of *)
(* one of them, chosen by "part" at the start.  Both use the variables and *)
(* the properties of Payments; what an instance has less of stays as it    *)
(* was.                                                                    *)
(***************************************************************************)
EXTENDS Payments, TLC

CONSTANTS o1, k1, k2, r1, r2, w1, e1, f1, f2, f3

VARIABLE part

\* Requests with two keys start payments of one order, a return and the sweep
\* bring outcomes of it, some of which do not match.
Starts == INSTANCE Payments WITH Events <- {}, Refunds <- {}

\* Refunds of one payment, captured at once, while a return and a webhook are late.
Refunding == INSTANCE Payments WITH
  Payments <- {1}, Keys <- {k1}, Requests <- {r1}, TwoStage <- FALSE,
  TxnRefs <- {NoTxn}, Matching <- {TRUE}

Symmetry == Permutations(Keys) \cup Permutations(Requests) \cup Permutations(Refunds)

PartsInit == Init /\ part \in {"starts", "refunds"}

StartsStep  == part = "starts" /\ Starts!Next /\ UNCHANGED part
RefundsStep == part = "refunds" /\ Refunding!Next /\ UNCHANGED part

PartsNext == StartsStep \/ RefundsStep
PartsSpec == PartsInit /\ [][PartsNext]_<<part, vars>>
===============================================================================
