--------------------------- MODULE MCEgressQueue ----------------------------
(* EgressQueue on a ring of three slots and three distinct messages: the   *)
(* heads wrap, and the queue fills and empties at every offset.            *)
EXTENDS EgressQueue

CONSTANTS m1, m2, m3
=============================================================================
