------------------------------- MODULE MCKcp -------------------------------
(* The client uploads; the server only answers.                            *)
EXTENDS Kcp, TLC

MCLoad == ("client" :> 2) @@ ("server" :> 0)
=============================================================================
