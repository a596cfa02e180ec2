-------------------------- MODULE MCPacketAnalyzer --------------------------
(* Two connections and model values for the connection local.              *)
EXTENDS PacketAnalyzer

CONSTANTS c1, c2

MCConns == {c1, c2}
=============================================================================
