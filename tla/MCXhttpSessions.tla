-------------------------- MODULE MCXhttpSessions --------------------------
(* Two GETs, a post, a stream-up and a stream-one request.                 *)
EXTENDS XhttpSessions, TLC

CONSTANTS g1, g2, p1, u1, o1
MCGets == {g1, g2}
MCPosts == {p1}
MCStreams == {u1}
MCOnes == {o1}
MCWriters == {g1}
=============================================================================
