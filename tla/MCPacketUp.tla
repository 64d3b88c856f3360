----------------------------- MODULE MCPacketUp -----------------------------
(* The packet-up dial and one other dial.                                  *)
EXTENDS PacketUp, TLC

CONSTANTS d1, d2, up
MCDials == {d1, d2}
MCUsers == {d1, d2, up}
=============================================================================
