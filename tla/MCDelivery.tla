----------------------------- MODULE MCDelivery -----------------------------
(* Two events of any kind, two worker processes that dispatch and two that *)
(* process.                                                                *)
EXTENDS Delivery
CONSTANTS d1, d2, p1, p2
MCEvents      == {1, 2}
MCDispatchers == {d1, d2}
MCProcessors  == {p1, p2}
MCKindsOf     ==
  [e \in MCEvents |-> IF e = 1 THEN {"cache", "unsupported", "deferred"} ELSE {"mail"}]
=============================================================================
