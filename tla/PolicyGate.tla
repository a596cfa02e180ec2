----------------------------- MODULE PolicyGate -----------------------------
(***************************************************************************)
(* The admission decision of accepting_request() in src/src/proxying.c:   *)
(* the authorized-session lookup, the whitelist, the database blacklist,  *)
(* the rate-limiter counter with the failure-guessing probe, the          *)
(* threshold breach and promotion, the long-running persistent check,     *)
(* and the channel dispatch.  The whole handler runs under worker_mutex   *)
(* on the proxy thread, so one accept is one step.                        *)
(*                                                                         *)
(* Addresses are textual forms written as sequences of segments; the      *)
(* listener is a PF_INET6 socket, so an IPv4 client arrives as a           *)
(* v4-mapped address and inet_ntop(AF_INET6, ...) renders it with the     *)
(* "::ffff:" prefix.                                                      *)
(***************************************************************************)
EXTENDS Integers, Sequences, SequencesExt, FiniteSets

CONSTANTS
  Peers,            \* clients, as model values
  Addr,             \* Peers -> [family : {"v4", "v6"}, text : Seq(segments)]
  WhiteList,        \* white-list-ip-prefix, as segment sequences
  Reservation,      \* Peers -> a channel, or NoSession: check_available()
  NoSession,
  Blacklisted,      \* peers connection_blacklisted() reports at start
  Vips,             \* peers check_vip() reports
  NumServers,       \* number_of_remote_servers
  DefaultServer,    \* default-server of the configuration
  OnFailedChannel,  \* the configured on_failed_channel
  Threshold,        \* connection_threshold
  PersistThreshold, \* persist_threshold
  FailSets,         \* sets of database calls that may fail in one accept
  MaxCount,         \* bound on an entry's counter and success_counter
  MaxUsers          \* bound on user_counter

DbCalls == {"blacklisted", "vip", "vip_exec", "add", "guess"}

ASSUME /\ DefaultServer \in 0 .. (NumServers - 1)
       /\ OnFailedChannel \in Int
       /\ Threshold \in Nat /\ PersistThreshold \in Nat
       /\ Blacklisted \subseteq Peers /\ Vips \subseteq Peers
       /\ FailSets \subseteq SUBSET DbCalls

Outcomes == {"connected", "backend_down", "auto_blocked", "blacklisted",
             "dropped", "nopeer"}

\* inet_ntop(AF_INET6, &sin6_addr): an IPv4 client of the dual-stack
\* listener has the address ::ffff:a.b.c.d and is printed that way.
InetNtop6(addr) ==
  IF addr.family = "v4" THEN <<"::ffff:">> \o addr.text ELSE addr.text

\* check_remote_ip_in_whitelist(): a configured prefix is a prefix of the
\* text (strncasecmp over strlen(prefix)).
InWhiteList(text) == \E w \in WhiteList : IsPrefix(w, text)

VARIABLES
  counter,    \* entry->counter of each IPv4 peer's entry; 0: no entry
  aged,       \* the entry's log_time is older than max_persistent_time
  success,    \* entry->success_counter
  blacklist,  \* peers connection_blacklisted() reports (the database)
  users,      \* user_counter
  last,       \* what the latest accept did
  defaultServer,   \* default_server
  onFailedChannel  \* on_failed_channel

vars == <<counter, aged, success, blacklist, users, last, defaultServer,
          onFailedChannel>>

channels == <<defaultServer, onFailedChannel>>

NoAccept == [peer |-> NoSession, session |-> NoSession, count |-> 0,
             listed |-> FALSE, channel |-> -1, outcome |-> "nopeer"]

(* The database calls accepting_request() makes.  Each returns 0 (false)  *)
(* when the connection or the prepared statement is not available;        *)
(* fails is the set of calls that fail in this accept.  A failed           *)
(* execution makes executeUpdate() return -1: accepting_request() tests   *)
(* the other calls with > 0, so -1 counts as 0 for them, but not for      *)
(* check_vip(), which it tests with == 0.                                  *)

\* connection_blacklisted(): the affected rows of SQL_BLACKLIST, 0 on error.
ConnectionBlacklisted(p, fails) == "blacklisted" \notin fails /\ p \in blacklist

\* check_vip() != 0, as accepting_request() tests it: the affected rows of
\* SQL_CHECK_VIP; 0 without a connection or a statement ("vip"), and -1
\* from executeUpdate() when the execution fails ("vip_exec").
CheckVip(p, fails) == "vip" \notin fails /\ (p \in Vips \/ "vip_exec" \in fails)

\* add_ip_to_auto_blacklist(): SQL_ADD_TO_BLACKLIST, nothing on error.
AddIpToAutoBlacklist(p, fails) ==
  IF "add" \in fails THEN blacklist ELSE blacklist \cup {p}

\* fail_guessing(): the stored procedure's first count is > 5 (guess);
\* false on error.
FailGuessing(fails, guess) == "guess" \notin fails /\ guess

\* Mutant: access_counter read before find_and_increase() counts the
\* access.
DecideCountBeforeTouch(p, session, fails, guess) ==
  LET ip      == InetNtop6(Addr[p])
      anon    == session = NoSession /\ InWhiteList(ip)
      black   == anon /\ ConnectionBlacklisted(p, fails)
      entry   == anon /\ Addr[p].family = "v4"
      access  == IF entry THEN counter[p] ELSE 0
      probe   == /\ anon /\ ~black /\ Addr[p].family = "v4"
                 /\ onFailedChannel # defaultServer
                 /\ access > Threshold - 7 /\ access <= Threshold
                 /\ access % 2 = 0 /\ FailGuessing(fails, guess)
      breach  == anon /\ ~black /\ access > Threshold /\ ~CheckVip(p, fails)
      ch0     == CASE session # NoSession -> session
                   [] anon /\ black       -> -1
                   [] anon /\ breach      -> -1
                   [] anon /\ probe       -> onFailedChannel
                   [] anon                -> defaultServer
                   [] OTHER               -> -1
      persist == entry /\ ~black /\ ~breach /\ ch0 >= 0 /\ aged[p]
                 /\ ~CheckVip(p, fails)
  IN [channel |-> ch0, black |-> black, auto |-> breach, entry |-> entry,
      access |-> access,
      promote |-> (breach /\ access > PersistThreshold) \/ persist]

\* Mutant: the long-running check promotes without check_vip().
DecidePersistNoVip(p, session, fails, guess) ==
  LET ip      == InetNtop6(Addr[p])
      anon    == session = NoSession /\ InWhiteList(ip)
      black   == anon /\ ConnectionBlacklisted(p, fails)
      entry   == anon /\ Addr[p].family = "v4"
      access  == IF entry THEN counter[p] + 1 ELSE 0
      probe   == /\ anon /\ ~black /\ Addr[p].family = "v4"
                 /\ onFailedChannel # defaultServer
                 /\ access > Threshold - 7 /\ access <= Threshold
                 /\ access % 2 = 0 /\ FailGuessing(fails, guess)
      breach  == anon /\ ~black /\ access > Threshold /\ ~CheckVip(p, fails)
      ch0     == CASE session # NoSession -> session
                   [] anon /\ black       -> -1
                   [] anon /\ breach      -> -1
                   [] anon /\ probe       -> onFailedChannel
                   [] anon                -> defaultServer
                   [] OTHER               -> -1
      persist == entry /\ ~black /\ ~breach /\ ch0 >= 0 /\ aged[p]
  IN [channel |-> ch0, black |-> black, auto |-> breach, entry |-> entry,
      access |-> access,
      promote |-> (breach /\ access > PersistThreshold) \/ persist]

\* Mutant: a blacklisted client keeps the default channel (no channel = -1).
DecideBlacklistKeepChannel(p, session, fails, guess) ==
  LET ip      == InetNtop6(Addr[p])
      anon    == session = NoSession /\ InWhiteList(ip)
      black   == anon /\ ConnectionBlacklisted(p, fails)
      entry   == anon /\ Addr[p].family = "v4"
      access  == IF entry THEN counter[p] + 1 ELSE 0
      probe   == /\ anon /\ ~black /\ Addr[p].family = "v4"
                 /\ onFailedChannel # defaultServer
                 /\ access > Threshold - 7 /\ access <= Threshold
                 /\ access % 2 = 0 /\ FailGuessing(fails, guess)
      breach  == anon /\ ~black /\ access > Threshold /\ ~CheckVip(p, fails)
      ch0     == CASE session # NoSession -> session
                   [] anon /\ breach      -> -1
                   [] anon /\ probe       -> onFailedChannel
                   [] anon                -> defaultServer
                   [] OTHER               -> -1
      persist == entry /\ ~black /\ ~breach /\ ch0 >= 0 /\ aged[p]
                 /\ ~CheckVip(p, fails)
  IN [channel |-> ch0, black |-> black, auto |-> breach, entry |-> entry,
      access |-> access,
      promote |-> (breach /\ access > PersistThreshold) \/ persist]

\* The decision of accepting_request() (lines 547-614) for peer p given
\* the session check_available() returned, the failing database calls and
\* the stored procedure's verdict: the channel, the two refusal flags, the
\* rate-limiter count read after the touch, and whether
\* add_ip_to_auto_blacklist() is called.
Decide(p, session, fails, guess) ==
  LET ip      == InetNtop6(Addr[p])
      anon    == session = NoSession /\ InWhiteList(ip)
      black   == anon /\ ConnectionBlacklisted(p, fails)
      entry   == anon /\ Addr[p].family = "v4"
      access  == IF entry THEN counter[p] + 1 ELSE 0
      probe   == /\ anon /\ ~black /\ Addr[p].family = "v4"
                 /\ onFailedChannel # defaultServer
                 /\ access > Threshold - 7 /\ access <= Threshold
                 /\ access % 2 = 0 /\ FailGuessing(fails, guess)
      breach  == anon /\ ~black /\ access > Threshold /\ ~CheckVip(p, fails)
      ch0     == CASE session # NoSession -> session
                   [] anon /\ black       -> -1
                   [] anon /\ breach      -> -1
                   [] anon /\ probe       -> onFailedChannel
                   [] anon                -> defaultServer
                   [] OTHER               -> -1
      persist == entry /\ ~black /\ ~breach /\ ch0 >= 0 /\ aged[p]
                 /\ ~CheckVip(p, fails)
  IN [channel |-> ch0, black |-> black, auto |-> breach, entry |-> entry,
      access |-> access,
      promote |-> (breach /\ access > PersistThreshold) \/ persist]

\* accepting_request(): getpeername() failed; the socket is closed.
AcceptNoPeer ==
  /\ last' = NoAccept
  /\ UNCHANGED <<counter, aged, success, blacklist, users, channels>>

\* connect_host() to remote_servers[ch]: init_socket_v4(), inet_pton() or
\* gethostbyname(), then connect(); a failure of any step returns -1.  The
\* backends that accept connections at the moment are up.
ConnectHost(ch, up) == ch \in up

\* Mutant: success_counter++ without the entry != NULL test.
AcceptSuccessNoEntry(p, session, fails, guess, up) ==
  LET d  == Decide(p, session, fails, guess)
      ch == IF d.channel < NumServers THEN d.channel ELSE 0
  IN
  /\ d.entry => counter[p] < MaxCount /\ success[p] < MaxCount
  /\ session # NoSession => users < MaxUsers
  /\ counter' = IF d.entry THEN [counter EXCEPT ![p] = @ + 1] ELSE counter
  /\ blacklist' = IF d.promote THEN AddIpToAutoBlacklist(p, fails)
                                ELSE blacklist
  /\ success' = IF d.channel >= 0 /\ session = NoSession
                  THEN [success EXCEPT ![p] = @ + 1] ELSE success
  /\ users' = IF d.channel >= 0 /\ session # NoSession
                 /\ ConnectHost(ch, up)
                THEN users + 1 ELSE users
  /\ aged' = IF d.black /\ d.entry THEN [aged EXCEPT ![p] = FALSE] ELSE aged
  /\ UNCHANGED channels
  /\ last' = [peer |-> p, session |-> session, count |-> counter'[p],
              listed |-> p \in blacklist,
              channel |-> IF d.channel >= 0 THEN ch ELSE -1,
              outcome |-> CASE d.channel >= 0 /\ ConnectHost(ch, up)
                                              -> "connected"
                            [] d.channel >= 0 -> "backend_down"
                            [] d.auto         -> "auto_blocked"
                            [] d.black        -> "blacklisted"
                            [] OTHER          -> "dropped"]

\* accepting_request() for peer p, with the database's answers and the
\* backends that are up: the touch of the rate limiter, promotion,
\* the clamp to the backend list, success_counter++, user_counter++ for a
\* session, and for a blacklisted peer the log_time refresh of the
\* once-per-1800-s notice.
Accept(p, session, fails, guess, up) ==
  LET d  == Decide(p, session, fails, guess)
      ch == IF d.channel < NumServers THEN d.channel ELSE 0
  IN
  /\ d.entry => counter[p] < MaxCount /\ success[p] < MaxCount
  /\ session # NoSession => users < MaxUsers
  /\ counter' = IF d.entry THEN [counter EXCEPT ![p] = @ + 1] ELSE counter
  /\ blacklist' = IF d.promote THEN AddIpToAutoBlacklist(p, fails)
                                ELSE blacklist
  /\ success' = IF d.channel >= 0 /\ session = NoSession /\ d.entry
                  THEN [success EXCEPT ![p] = @ + 1] ELSE success
  /\ users' = IF d.channel >= 0 /\ session # NoSession
                 /\ ConnectHost(ch, up)
                THEN users + 1 ELSE users
  /\ aged' = IF d.black /\ d.entry THEN [aged EXCEPT ![p] = FALSE] ELSE aged
  /\ UNCHANGED channels
  /\ last' = [peer |-> p, session |-> session, count |-> counter'[p],
              listed |-> p \in blacklist,
              channel |-> IF d.channel >= 0 THEN ch ELSE -1,
              outcome |-> CASE d.channel >= 0 /\ ConnectHost(ch, up)
                                              -> "connected"
                            [] d.channel >= 0 -> "backend_down"
                            [] d.auto         -> "auto_blocked"
                            [] d.black        -> "blacklisted"
                            [] OTHER          -> "dropped"]

\* The sliding window moves: the entry's count falls; at zero the expiring
\* thread frees the entry (success_counter and log_time go with it).
Slide(p, n) ==
  /\ counter[p] > 0
  /\ counter' = [counter EXCEPT ![p] = n]
  /\ aged' = IF n = 0 THEN [aged EXCEPT ![p] = FALSE] ELSE aged
  /\ success' = IF n = 0 THEN [success EXCEPT ![p] = 0] ELSE success
  /\ UNCHANGED <<blacklist, users, last, channels>>

\* The entry has lived past max_persistent_time since its log_time.
Age(p) ==
  /\ counter[p] > 0 /\ ~aged[p]
  /\ aged' = [aged EXCEPT ![p] = TRUE]
  /\ UNCHANGED <<counter, success, blacklist, users, last, channels>>

\* set_default_channel() on the admin thread: a
\* channel inside the backend list replaces default_server; any other is
\* refused.  It takes no lock; an accept sees the value before or after.
SetDefaultChannel(ch) ==
  /\ defaultServer' = IF ch >= 0 /\ ch < NumServers THEN ch ELSE defaultServer
  /\ UNCHANGED <<counter, aged, success, blacklist, users, last,
                 onFailedChannel>>

\* set_fallback_channel(): the same for
\* on_failed_channel.
SetFallbackChannel(ch) ==
  /\ onFailedChannel' = IF ch >= 0 /\ ch < NumServers THEN ch
                                                   ELSE onFailedChannel
  /\ UNCHANGED <<counter, aged, success, blacklist, users, last,
                 defaultServer>>

\* The argument of "set default channel <channel>" and "set fall back
\* channel <channel>": text that starts with a number, or a word.
CmdArgs == {[digits |-> TRUE, val |-> c] : c \in -1 .. NumServers}
           \cup {[digits |-> FALSE, val |-> 0]}

\* atoi(): the leading number, or 0 for text that does not start with one.
Atoi(arg) == IF arg.digits THEN arg.val ELSE 0

\* cmd_default_channel(): set_default_channel(atoi(args)).
CmdDefaultChannel(arg) == SetDefaultChannel(Atoi(arg))

\* cmd_fall_back_channel(): set_fallback_channel(atoi(args)).
CmdFallBackChannel(arg) == SetFallbackChannel(Atoi(arg))

Init ==
  /\ counter = [p \in Peers |-> 0]
  /\ aged = [p \in Peers |-> FALSE]
  /\ success = [p \in Peers |-> 0]
  /\ blacklist = Blacklisted
  /\ users = 0
  /\ last = NoAccept
  /\ defaultServer = DefaultServer
  /\ onFailedChannel = OnFailedChannel

Next ==
  \/ AcceptNoPeer
  \/ \E p \in Peers, f \in FailSets, g \in BOOLEAN,
         up \in SUBSET (0 .. NumServers - 1) :
       \E s \in {Reservation[p], NoSession} : Accept(p, s, f, g, up)
  \/ \E p \in Peers : \E n \in 0 .. (counter[p] - 1) : Slide(p, n)
  \/ \E p \in Peers : Age(p)
  \/ \E arg \in CmdArgs : CmdDefaultChannel(arg)
  \/ \E arg \in CmdArgs : CmdFallBackChannel(arg)

Spec == Init /\ [][Next]_vars

-----------------------------------------------------------------------------
(* Properties                                                              *)

TypeOK ==
  /\ counter \in [Peers -> 0 .. MaxCount]
  /\ aged \in [Peers -> BOOLEAN]
  /\ success \in [Peers -> 0 .. MaxCount]
  /\ blacklist \subseteq Peers
  /\ users \in 0 .. MaxUsers
  /\ defaultServer \in 0 .. (NumServers - 1)
  /\ last.outcome \in Outcomes

\* An anonymous IPv4 client that passes the whitelist, as the code sees it.
RateLimited(p, s) ==
  /\ s = NoSession /\ Addr[p].family = "v4"
  /\ InWhiteList(InetNtop6(Addr[p])) /\ p \notin Vips

\* Spec 4.4 step 4 and scenarios 3-4, about the counter find_and_increase()
\* leaves and the checks accepting_request() makes on it: an accept of a
\* rate-limited client whose window count (entry->counter after the
\* increment) exceeds connection_threshold is
\* refused, and once the count exceeds persist_threshold the client is in
\* the persistent blacklist.
ThresholdEnforced ==
  last.peer \in Peers /\ RateLimited(last.peer, last.session)
  /\ last.count > Threshold
  => /\ last.outcome \in {"auto_blocked", "blacklisted"}
     /\ last.count > PersistThreshold => last.peer \in blacklist

\* The VIP exemption of both promotion paths (threshold breach, lines
\* 578-588, and the long-running check, lines 591-609): a peer check_vip()
\* reports is never refused by the rate limiter and never added to the
\* persistent blacklist by the proxy.
VipsExempt ==
  /\ last.outcome = "auto_blocked" => last.peer \notin Vips
  /\ (blacklist \ Blacklisted) \cap Vips = {}

\* Spec 4.4 step 4: a client in the blacklist, once promoted there or put
\* there by the operator, is refused on every later accept without a
\* session, whatever its rate-limiter count; connection_blacklisted() is
\* consulted before the counters (line 556).
BlacklistedRefused ==
  last.peer \in Peers /\ last.session = NoSession /\ last.listed
  /\ InWhiteList(InetNtop6(Addr[last.peer]))
  => last.outcome \notin {"connected", "backend_down"}

\* Spec 4.4 step 3 and scenario 2: a client without a session whose address
\* matches a whitelist prefix (written as the address is written, e.g.
\* "10." for 10.0.0.2) proceeds as anonymous and is not dropped by the
\* whitelist check.
WhitelistedNotDropped ==
  last.peer \in Peers /\ last.session = NoSession
  /\ InWhiteList(Addr[last.peer].text) => last.outcome # "dropped"

=============================================================================
