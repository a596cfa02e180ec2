------------------------------ MODULE MCProxy ------------------------------
EXTENDS Proxy

CONSTANTS r1, r2, r3

MCRecs == {r1, r2, r3}

\* Once a record is closed twice, ev_count() and the close history keep
\* drifting with every further reaper pass; the checks stop exploring there.
MaxRepeatedCloses == 2

MCConstraint ==
  /\ ev.num >= -MaxRepeatedCloses
  /\ \A c \in DOMAIN closes : closes[c] <= MaxRepeatedCloses

=============================================================================
