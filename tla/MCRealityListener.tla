-------------------------- MODULE MCRealityListener --------------------------
(* An instance of RealityListener for TLC: a client that is relayed beside    *)
(* one that sends junk or an Initial the verifier accepts.                    *)
EXTENDS RealityListener, TLC

CONSTANTS c1, c2, p1, p2

MCPieces == {1, 2}
Genuine(S) == [at: S, genuine: {TRUE}]
Datagram(c, k, fs) == [client |-> c, kind |-> k, frags |-> fs, size |-> 1]

MCInputs ==
  { Datagram(c1, "malformed", {}),
    Datagram(c2, "noninitial", {}),
    Datagram(c2, "initial", Genuine({1, 2})) }

MCTwoIPs == (c1 :> p1) @@ (c2 :> p2)
=============================================================================
