-------------------------- MODULE MCRealityPrecheck --------------------------
(* An instance of RealityPrecheck for TLC: a client that splits its hello    *)
(* over two Initials and sends short headers and junk, and a prober behind the same  *)
(* address that completes a copied half with its own and sends malformed     *)
(* Initials.                                                                  *)
EXTENDS PrecheckReassembly, TLC

CONSTANTS c1, c2, p1

MCPieces == {1, 2}
Genuine(S) == [at: S, genuine: {TRUE}]
Probe(S) == [at: S, genuine: {FALSE}]
Datagram(c, k, fs, n) == [client |-> c, kind |-> k, frags |-> fs, size |-> n]

MCInputs ==
  { Datagram(c1, "initial", Genuine({1}), 1),
    Datagram(c1, "initial", Genuine({2}), 1),
    Datagram(c1, "short", {}, 1),
    Datagram(c1, "noninitial", {}, 1),
    Datagram(c2, "initial", Genuine({1}) \cup Probe({2}), 2),
    Datagram(c2, "malformed", {}, 1) }

MCIPOf == (c1 :> p1) @@ (c2 :> p1)
=============================================================================
