------------------------ MODULE PrecheckReassembly ------------------------
(***************************************************************************)
(* The precheck together with its reassembler: what Conflict and Complete   *)
(* of RealityPrecheck take for granted of CryptoReassembler.                *)
(***************************************************************************)
EXTENDS RealityPrecheck, CryptoReassembler

\* What Conflict and Complete take for granted of reality_precheck.go: add
\* refuses exactly what contradicts earlier bytes or exceeds a limit, and
\* clientHello reports exactly the complete hellos, for every order, overlap and
\* repetition of fragments.  This says nothing of the state, so the first is
\* enough to evaluate it in.
Reassembles == Init => AddMatches

=============================================================================
