------------------------------ MODULE MCPacket ------------------------------
(* Packet with one other goroutine asking for the epoch.  The documents    *)
(* have two layers of mixes, a mix whose keys end early and one whose keys *)
(* begin late; one document caps its delays.                               *)
EXTENDS Packet, TLC

CONSTANTS g1, c, none, p1, p2, m1, m2, m3

Keys(e) == (p1 :> (e .. e + 2)) @@ (p2 :> (e .. e + 2)) @@ (m1 :> {e + 1})
           @@ (m2 :> {e, e + 1}) @@ (m3 :> (e .. e + 2))
Doc(e, max) == [Providers |-> {p1, p2}, Topology |-> <<{m1, m2}, {m3}>>,
                MixKeys |-> Keys(e), MuMaxDelay |-> max]
Documents == (3 :> Doc(3, 0)) @@ (4 :> Doc(4, 1)) @@ (5 :> Doc(5, 0))

\* No hop, the first, or the last one has a delay that a uint32 cannot hold.
DrawsOfExp == {<<0, 0, 0, 0>>, <<DelayModulus, 0, 0, 0>>, <<0, 0, 0, DelayModulus>>}
=============================================================================
