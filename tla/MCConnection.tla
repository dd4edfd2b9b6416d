--------------------------- MODULE MCConnection -----------------------------
(* Connection with the senders and spool items of the configurations.      *)
EXTENDS Connection

CONSTANTS s1, s2, i1, i2, none, empty
=============================================================================
