---------------------------- MODULE MCPkiCache ------------------------------
(* PkiCache with three getters and more epochs than the cache holds.       *)
EXTENDS PkiCache

CONSTANTS g1, g2, g3, e1, e2, e3, none
=============================================================================
