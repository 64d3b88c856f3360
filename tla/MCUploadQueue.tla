--------------------------- MODULE MCUploadQueue ---------------------------
(* An instance of UploadQueue for TLC: a post that is read in two pieces, a *)
(* post that is sent twice, one behind them, and two streams. A session sees *)
(* either all the posts, or some of them and the streams.                    *)
EXTENDS UploadQueue, TLC

CONSTANTS p0, p1, q1, p2, s1, s2

MCSeqOf == (p0 :> 0) @@ (p1 :> 1) @@ (q1 :> 1) @@ (p2 :> 2)
MCLenOf == (p0 :> 2) @@ (p1 :> 1) @@ (q1 :> 1) @@ (p2 :> 1) @@ (s1 :> 1) @@ (s2 :> 1)
MCSessions == {Posts, {p0, p1, s1, s2}}
MCOneSession == \E S \in MCSessions : \A r \in Requests : handler[r] # "idle" => r \in S
=============================================================================
