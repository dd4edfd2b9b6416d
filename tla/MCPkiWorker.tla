---------------------------- MODULE MCPkiWorker -----------------------------
(* PkiWorker with two callers and three epochs.                            *)
EXTENDS PkiWorker

CONSTANTS p1, p2
=============================================================================
