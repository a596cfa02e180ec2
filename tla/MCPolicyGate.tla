---------------------------- MODULE MCPolicyGate ----------------------------
(* Four clients: a is a whitelisted IPv4 client, d a whitelisted IPv4 VIP, *)
(* b an IPv4 client outside the whitelist with a session on a channel     *)
(* past the backend list, c a whitelisted IPv6 client whose session has   *)
(* channel -1.                                                            *)
EXTENDS PolicyGate

CONSTANTS a, b, c, d

MCPeers == {a, b, c, d}

MCAddr ==
  [p \in MCPeers |->
     CASE p = a -> [family |-> "v4", text |-> <<"10.", "0.0.2">>]
       [] p = b -> [family |-> "v4", text |-> <<"192.", "168.0.9">>]
       [] p = c -> [family |-> "v6", text |-> <<"fe80::", "1">>]
       [] p = d -> [family |-> "v4", text |-> <<"10.", "0.0.3">>]]

MCReservation ==
  [p \in MCPeers |-> CASE p = b -> 2 [] p = c -> -1 [] OTHER -> NoSession]

\* white-list-ip-prefix written as the code matches it ("::ffff:10.").
MCWhiteListMapped == {<<"::ffff:", "10.">>, <<"fe80::">>}

\* white-list-ip-prefix written as spec scenario 2 writes it ("10.").
MCWhiteListPlain == {<<"10.">>, <<"fe80::">>}
=============================================================================
