--------------------------- MODULE MCMinuteTimer ---------------------------
(* Instantiation of MinuteTimer for TLC: the rate limiter of               *)
(* MCAutoBlacklist (two addresses in one bucket, three memory cells, a     *)
(* window of two slots) driven by the 5-second timer and the minute cron. *)
EXTENDS MinuteTimer

CONSTANTS i1, i2, c1, c2, c3

MCIPs == {i1, i2}
MCBuckets == 0 .. 0
MCHash == [ip \in MCIPs |-> 0]
MCCells == {c1, c2, c3}
=============================================================================
