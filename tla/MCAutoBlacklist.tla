--------------------------- MODULE MCAutoBlacklist ---------------------------
(* Instantiation of AutoBlacklist for TLC: two client addresses that hash  *)
(* to the same bucket, three memory cells, a window of two slots.          *)
EXTENDS AutoBlacklist

CONSTANTS i1, i2, c1, c2, c3

MCIPs == {i1, i2}
MCBuckets == 0 .. 0
MCHash == [ip \in MCIPs |-> 0]
MCCells == {c1, c2, c3}
=============================================================================
