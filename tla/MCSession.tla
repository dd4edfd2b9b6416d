----------------------------- MODULE MCSession ------------------------------
(* Session with named callers, messages, decoys and callbacks.             *)
EXTENDS Session, TLC

CONSTANTS c1, m1, l1, a1, a2, d1

\* onACK goroutines are interchangeable.
Symmetry == Permutations({a1, a2})
=============================================================================
