------------------------- MODULE ConnectionLifecycle -------------------------
(***************************************************************************)
(* What the proxy promises about the connections it serves, with the       *)
(* lists, pool, descriptors and handles left out.  Every incoming          *)
(* connection takes the next number of connection_counter, whether it is   *)
(* served or refused.  A served connection is open until it is closed,     *)
(* once, by its peer, a failed write, the request cap or the idle reaper.  *)
(* A number is never served twice and never served again after closing.   *)
(*                                                                         *)
(* Proxy implements this specification under the refinement mapping       *)
(* Proxy!LifecycleMapping.                                                 *)
(***************************************************************************)
EXTENDS Naturals

CONSTANT MaxConns   \* bound on connection_counter

VARIABLES
  accepted,  \* connections taken from the listening socket
  open,      \* numbers of the connections being served
  closed     \* numbers of the connections that were served and are closed

vars == <<accepted, open, closed>>

Init ==
  /\ accepted = 0
  /\ open = {}
  /\ closed = {}

\* A connection is taken and served under the next number.
Serve ==
  /\ accepted < MaxConns
  /\ accepted' = accepted + 1
  /\ open' = open \cup {accepted + 1}
  /\ UNCHANGED closed

\* A connection is taken and refused: its number is spent.
Refuse ==
  /\ accepted < MaxConns
  /\ accepted' = accepted + 1
  /\ UNCHANGED <<open, closed>>

\* An open connection is closed.
Close(c) ==
  /\ c \in open
  /\ open' = open \ {c}
  /\ closed' = closed \cup {c}
  /\ UNCHANGED accepted

Next ==
  \/ Serve
  \/ Refuse
  \/ \E c \in open : Close(c)

Spec == Init /\ [][Next]_vars

=============================================================================
