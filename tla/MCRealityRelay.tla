--------------------------- MODULE MCRealityRelay ---------------------------
(* An instance of RealityRelay for TLC: two clients behind one address. *)
EXTENDS RealityRelay, TLC

CONSTANTS c1, c2, p1

MCIPOf == (c1 :> p1) @@ (c2 :> p1)
=============================================================================
