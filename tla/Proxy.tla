------------------------------- MODULE Proxy -------------------------------
(***************************************************************************)
(* The relay engine and the idle reaper of src/src/proxying.c, composed   *)
(* with the event table of events.c (EventTable).                          *)
(*                                                                         *)
(* The proxy thread runs ev_looping(): a ready listening socket calls      *)
(* main_listener()/accepting_request(), a ready connection socket calls    *)
(* do_proxying() through one of the two proxy handlers.  Each handler runs *)
(* entirely under worker_mutex, so it is one step here.                    *)
(* The main thread's minute cron calls clean_idle_connections(): it        *)
(* snapshots the connection list under info_mux, releases it, reads each   *)
(* snapshotted record's `recent' without a lock, and only then takes       *)
(* worker_mutex to detach, close_event() and free the record.  Those are   *)
(* three steps here, and the proxy thread may run between them.            *)
(*                                                                         *)
(* Connection records are memory cells linked by next/prev into the       *)
(* `infos' list or by next into the free `pool'.  Descriptors are numbers  *)
(* the kernel hands out lowest first.  `recent' is abstracted to `stale':  *)
(* whether the record was idle longer than expiring-timeout.               *)
(***************************************************************************)
EXTENDS Integers, Sequences, FiniteSets, Functions, EventTable

CONSTANTS
  Recs,          \* memory cells that can hold a struct connection_info
  FdNums,        \* descriptor numbers the process may use
  ListenFd,      \* the listening socket, registered first by proxy_main()
  MaxConns,      \* bound on connection_counter (accepted connections)
  MaxAllowed,    \* max_allowed_requests
  CtlOutcomes,   \* possible results of epoll_ctl(EPOLL_CTL_ADD): TRUE = 0
  Reaping,       \* whether a connection can stay idle beyond expiring-timeout
  HostByName,    \* a backend host is a name, not an address inet_pton() takes
  NULL

ASSUME /\ ListenFd \in FdNums /\ FdNums \subseteq Nat \ {0}
       /\ MaxConns \in Nat /\ MaxAllowed \in Nat
       /\ CtlOutcomes \subseteq BOOLEAN /\ TRUE \in CtlOutcomes
       /\ Reaping \in BOOLEAN /\ HostByName \in BOOLEAN
       /\ NULL \notin Recs

VARIABLES
  ev,       \* the event table (EventTable) and the epoll interest list
  kfds,     \* descriptors open in the process
  rec,      \* contents of each connection_info cell
  infos,    \* head of the connection list
  pool,     \* head of the free pool
  entries,  \* number_of_entries
  fresh,    \* cells malloc() has not returned yet
  counter,  \* connection_counter
  rpc,      \* main thread: position in clean_idle_connections()
  holder,   \* expiring_holder[0 .. n-1], the snapshot
  ri,       \* the reaper's loop index i (1-based here)
  closes,   \* history: close_event() runs per connection id
  segv      \* a NULL dereference happened (the process died)

vars == <<ev, kfds, rec, infos, pool, entries, fresh, counter, rpc, holder, ri, closes, segv>>

Fuel == Cardinality(Recs) + 1
Listener == [r |-> NULL, side |-> "listen"]

Blank == [in_chain |-> FALSE, client_fd |-> 0, server_fd |-> 0,
          client_handle |-> -1, server_handle |-> -1, requestCount |-> 0,
          conn |-> 0, stale |-> FALSE, next |-> NULL, prev |-> NULL]

\* The cells reached from c along next, at most fuel of them.
RECURSIVE ChainFrom(_, _, _)
ChainFrom(rc, c, fuel) ==
  IF c = NULL \/ fuel <= 0 THEN <<>>
  ELSE <<c>> \o ChainFrom(rc, rc[c].next, fuel - 1)

InfosList == ChainFrom(rec, infos, Fuel)
PoolList == ChainFrom(rec, pool, Fuel)

\* The lowest descriptor number not in use: what socket() and accept() return.
LowestFree(used) == Min(FdNums \ used)

-----------------------------------------------------------------------------
(* Connection records                                                      *)

\* The list and pool as one value, so a handler can apply its steps in turn.
Mem == [rec |-> rec, infos |-> infos, pool |-> pool, entries |-> entries, segv |-> FALSE]

\* allocate_connection_info(): pop the pool, else malloc().
Allocated == IF pool # NULL THEN pool ELSE CHOOSE r \in fresh : TRUE

\* Mutant: attach does not count the entry in number_of_entries.
AttachNoCount(m, r) ==
  LET rc == [m.rec EXCEPT ![r].next = m.infos, ![r].prev = NULL, ![r].in_chain = TRUE]
  IN [m EXCEPT !.rec = IF m.infos # NULL THEN [rc EXCEPT ![m.infos].prev = r] ELSE rc,
               !.infos = r]

\* Mutant: attach does not set the old head's prev to the new entry.
AttachNoPrev(m, r) ==
  LET rc == [m.rec EXCEPT ![r].next = m.infos, ![r].prev = NULL, ![r].in_chain = TRUE]
  IN [m EXCEPT !.rec = rc, !.infos = r, !.entries = @ + 1]

\* attach_connection_info_entry(): push on the head of the list.
Attach(m, r) ==
  LET rc == [m.rec EXCEPT ![r].next = m.infos, ![r].prev = NULL, ![r].in_chain = TRUE]
  IN [m EXCEPT !.rec = IF m.infos # NULL THEN [rc EXCEPT ![m.infos].prev = r] ELSE rc,
               !.infos = r, !.entries = @ + 1]

\* detach_connection_info_entry(): unlink if in_chain, else nothing.  An
\* entry that is not the head but has no prev dereferences NULL.
Detach(m, r) ==
  LET e == m.rec[r]
  IN IF ~e.in_chain THEN m
     ELSE IF r = m.infos
       THEN LET rc == IF e.next # NULL THEN [m.rec EXCEPT ![e.next].prev = NULL] ELSE m.rec
            IN [m EXCEPT !.rec = [rc EXCEPT ![r].in_chain = FALSE],
                         !.infos = e.next, !.entries = @ - 1]
     ELSE IF e.prev = NULL THEN [m EXCEPT !.segv = TRUE]
     ELSE LET rc1 == [m.rec EXCEPT ![e.prev].next = e.next]
              rc2 == IF e.next # NULL THEN [rc1 EXCEPT ![e.next].prev = e.prev] ELSE rc1
          IN [m EXCEPT !.rec = [rc2 EXCEPT ![r].in_chain = FALSE], !.entries = @ - 1]

\* Mutant: free does not link the entry to the rest of the pool.
FreeNoLink(m, r) == [m EXCEPT !.pool = r]

\* free_connection_info(): push on the pool.
Free(m, r) == [m EXCEPT !.rec[r].next = m.pool, !.pool = r]

\* close_event() on a record that is not in_chain: remove both handles,
\* close both descriptors (the kernel drops them from epoll).
CloseEvent(table, e) ==
  CloseFd(CloseFd(Remove(Remove(table, e.server_handle), e.client_handle),
                  e.client_fd), e.server_fd)

\* Mutant: the close sequence forgets to detach the record first.
CloseConnectionNoDetach(m0, r) ==
  LET e == m0.rec[r]
      m2 == Free(m0, r)
  IN /\ ev' = CloseEvent(ev, e)
     /\ kfds' = kfds \ {e.client_fd, e.server_fd}
     /\ closes' = [closes EXCEPT ![e.conn] = @ + 1]
     /\ rec' = m2.rec /\ infos' = m2.infos
     /\ pool' = m2.pool /\ entries' = m2.entries
     /\ UNCHANGED segv

\* The close sequence of do_proxying() and of the reaper: detach, then
\* close_event() and free_connection_info() once the record is out of the
\* list (always, after detach).
CloseConnection(m0, r) ==
  LET m == Detach(m0, r)
      e == m.rec[r]
  IN IF m.segv
       THEN /\ segv' = TRUE
            /\ UNCHANGED <<ev, kfds, rec, infos, pool, entries, closes>>
       ELSE LET m2 == Free(m, r)
            IN /\ ev' = CloseEvent(ev, e)
               /\ kfds' = kfds \ {e.client_fd, e.server_fd}
               /\ closes' = [closes EXCEPT ![e.conn] = @ + 1]
               /\ rec' = m2.rec /\ infos' = m2.infos
               /\ pool' = m2.pool /\ entries' = m2.entries
               /\ UNCHANGED segv

-----------------------------------------------------------------------------
(* Proxy thread: the handlers ev_looping() dispatches                     *)

\* The slot ev_looping() dispatches a ready descriptor to, if any.
Ready(fd) == fd \in ev.watched /\ Target(ev, fd) >= 0
HandlerOf(fd) == ev.handlers[Target(ev, fd)]

\* main_listener() + accepting_request(), the peer admitted and the backend
\* connected: allocate a record, register both descriptors, attach it.
AcceptConnection(okc, oks) ==
  /\ ~segv
  /\ Ready(ListenFd) /\ HandlerOf(ListenFd) = Listener
  /\ counter < MaxConns
  /\ Cardinality(FdNums \ kfds) >= 2
  /\ pool # NULL \/ fresh # {}
  /\ LET fdc == LowestFree(kfds)
         pfd == LowestFree(kfds \cup {fdc})
         r == Allocated
         ev1 == Add(ev, fdc, [r |-> r, side |-> "client"], okc)
         e == [Blank EXCEPT !.client_fd = fdc, !.server_fd = pfd, !.conn = counter + 1,
                            !.client_handle = AddHandle(ev, okc),
                            !.server_handle = AddHandle(ev1, oks)]
         m == Attach([Mem EXCEPT !.rec[r] = e,
                                 !.pool = IF pool # NULL THEN rec[pool].next ELSE pool], r)
     IN /\ ev' = Add(ev1, pfd, [r |-> r, side |-> "server"], oks)
        /\ kfds' = kfds \cup {fdc, pfd}
        /\ rec' = m.rec /\ infos' = m.infos /\ pool' = m.pool /\ entries' = m.entries
        /\ fresh' = fresh \ {r}
  /\ counter' = counter + 1
  /\ UNCHANGED <<rpc, holder, ri, closes, segv>>

\* Mutant: a refusing path forgets close(fdc).
AcceptRefusedLeak(leak) ==
  /\ ~segv
  /\ Ready(ListenFd) /\ HandlerOf(ListenFd) = Listener
  /\ counter < MaxConns
  /\ FdNums \ kfds # {}
  /\ kfds' = kfds \cup {LowestFree(kfds)}
  /\ counter' = counter + 1
  /\ UNCHANGED <<ev, rec, infos, pool, entries, fresh, rpc, holder, ri, closes, segv>>

\* main_listener() + accepting_request() on every other path: getpeername()
\* failed, the peer is denied, or connect_host() failed; the client socket
\* is closed again.  connect_host() closes its socket when connect() fails
\* (line 404) but not when gethostbyname() fails (lines 396-398): with leak
\* that socket, the lowest free number after the client's, stays open.
AcceptRefused(leak) ==
  /\ ~segv
  /\ Ready(ListenFd) /\ HandlerOf(ListenFd) = Listener
  /\ counter < MaxConns
  /\ FdNums \ kfds # {}
  /\ leak => Cardinality(FdNums \ kfds) >= 2
  /\ kfds' = IF leak THEN kfds \cup {LowestFree(kfds \cup {LowestFree(kfds)})}
                    ELSE kfds
  /\ counter' = counter + 1
  /\ UNCHANGED <<ev, rec, infos, pool, entries, fresh, rpc, holder, ri, closes, segv>>

\* Mutant: the request cap compares with max_allowed_requests + 1.
RelayCapOffByOne(fd, outcome) ==
  /\ ~segv
  /\ Ready(fd) /\ HandlerOf(fd) # Listener
  /\ LET r == HandlerOf(fd).r
         fromClient == HandlerOf(fd).side = "client"
         capped == fromClient /\ rec[r].requestCount > MaxAllowed + 1
         close == outcome = "eof" \/ capped \/ outcome = "wfail"
     IN /\ rec[r].in_chain
        /\ IF close
             THEN CloseConnection([Mem EXCEPT !.rec[r].stale = FALSE], r)
             ELSE /\ rec' = [rec EXCEPT ![r].stale = FALSE,
                                        ![r].requestCount = IF fromClient THEN @ + 1 ELSE @]
                  /\ UNCHANGED <<ev, kfds, infos, pool, entries, closes, segv>>
  /\ UNCHANGED <<fresh, counter, rpc, holder, ri>>

\* proxy_from_client_to_server() / proxy_from_server_to_client() and
\* do_proxying() on a record in_chain.  The read returns data the write
\* forwards ("data"), data the write fails on ("wfail"), or end of stream
\* or an error ("eof").  A client past max_allowed_requests is closed.
Relay(fd, outcome) ==
  /\ ~segv
  /\ Ready(fd) /\ HandlerOf(fd) # Listener
  /\ LET r == HandlerOf(fd).r
         fromClient == HandlerOf(fd).side = "client"
         capped == fromClient /\ rec[r].requestCount > MaxAllowed
         close == outcome = "eof" \/ capped \/ outcome = "wfail"
     IN /\ rec[r].in_chain
        /\ IF close
             THEN CloseConnection([Mem EXCEPT !.rec[r].stale = FALSE], r)
             ELSE /\ rec' = [rec EXCEPT ![r].stale = FALSE,
                                        ![r].requestCount = IF fromClient THEN @ + 1 ELSE @]
                  /\ UNCHANGED <<ev, kfds, infos, pool, entries, closes, segv>>
  /\ UNCHANGED <<fresh, counter, rpc, holder, ri>>

\* Time passes: a record's `recent' falls behind tv - expiring_timeout.
\* tv is taken by the cron before clean_idle_connections() starts, and
\* `recent' only moves forward, so no record turns idle during a pass.
Idle(r) ==
  /\ Reaping
  /\ rpc = "idle"
  /\ r \notin fresh
  /\ ~rec[r].stale
  /\ rec' = [rec EXCEPT ![r].stale = TRUE]
  /\ UNCHANGED <<ev, kfds, infos, pool, entries, fresh, counter, rpc, holder, ri, closes, segv>>

-----------------------------------------------------------------------------
(* Main thread: clean_idle_connections(tv, expiring_timeout) from cron()   *)

\* Lines 244-263, under info_mux: copy at most number_of_entries records
\* from the head of the list into expiring_holder.
ReapSnapshot ==
  /\ ~segv
  /\ rpc = "idle"
  /\ holder' = ChainFrom(rec, infos, entries)
  /\ ri' = 1
  /\ rpc' = "check"
  /\ UNCHANGED <<ev, kfds, rec, infos, pool, entries, fresh, counter, closes, segv>>

\* Lines 267-270: `recent' of the i-th snapshotted record is read with no
\* lock; a record still within expiring-timeout is passed over.
ReapKeep ==
  /\ ~segv
  /\ rpc = "check"
  /\ ri <= Len(holder)
  /\ ~rec[holder[ri]].stale
  /\ ri' = ri + 1
  /\ UNCHANGED <<ev, kfds, rec, infos, pool, entries, fresh, counter, rpc, holder, closes, segv>>

\* ... a record past expiring-timeout is selected; the thread now waits
\* for worker_mutex (lines 271-274).
ReapSelect ==
  /\ ~segv
  /\ rpc = "check"
  /\ ri <= Len(holder)
  /\ rec[holder[ri]].stale
  /\ rpc' = "expire"
  /\ UNCHANGED <<ev, kfds, rec, infos, pool, entries, fresh, counter, holder, ri, closes, segv>>

\* Lines 276-285, under worker_mutex and the record's mutex: detach,
\* close_event(), free_connection_info(), with no check that the record is
\* still the one snapshotted or still in the list.
ReapExpire ==
  /\ ~segv
  /\ rpc = "expire"
  /\ CloseConnection(Mem, holder[ri])
  /\ ri' = ri + 1
  /\ rpc' = "check"
  /\ UNCHANGED <<fresh, counter, holder>>

ReapDone ==
  /\ ~segv
  /\ rpc = "check"
  /\ ri > Len(holder)
  /\ rpc' = "idle"
  /\ UNCHANGED <<ev, kfds, rec, infos, pool, entries, fresh, counter, holder, ri, closes, segv>>

-----------------------------------------------------------------------------

\* proxy_main(): the listening socket is open and registered first.
Init ==
  /\ ev = Add(EmptyTable, ListenFd, Listener, TRUE)
  /\ kfds = {ListenFd}
  /\ rec = [r \in Recs |-> Blank]
  /\ infos = NULL
  /\ pool = NULL
  /\ entries = 0
  /\ fresh = Recs
  /\ counter = 0
  /\ rpc = "idle"
  /\ holder = <<>>
  /\ ri = 1
  /\ closes = [c \in 1 .. MaxConns |-> 0]
  /\ segv = FALSE

Outcomes == {"data", "wfail", "eof"}

Next ==
  \/ \E okc, oks \in CtlOutcomes : AcceptConnection(okc, oks)
  \/ \E leak \in IF HostByName THEN BOOLEAN ELSE {FALSE} : AcceptRefused(leak)
  \/ \E fd \in FdNums, o \in Outcomes : Relay(fd, o)
  \/ \E r \in Recs : Idle(r)
  \/ ReapSnapshot
  \/ ReapKeep
  \/ ReapSelect
  \/ ReapExpire
  \/ ReapDone

Spec == Init /\ [][Next]_vars

-----------------------------------------------------------------------------
(* Properties                                                              *)

Handler == {Listener} \cup [r : Recs, side : {"client", "server"}]

Record == [in_chain : BOOLEAN, client_fd : FdNums \cup {0}, server_fd : FdNums \cup {0},
           client_handle : -2 .. (MaxEvents - 1), server_handle : -2 .. (MaxEvents - 1),
           requestCount : 0 .. (MaxAllowed + 1), conn : 0 .. MaxConns,
           stale : BOOLEAN, next : Recs \cup {NULL}, prev : Recs \cup {NULL}]

TypeOK ==
  /\ ev.fds \in [Slots -> FdNums \cup {-1, 0}]
  /\ ev.handlers \in [Slots -> Handler \cup {NoHandler}]
  /\ ev.max \in 0 .. MaxEvents
  /\ ev.watched \subseteq kfds
  /\ kfds \subseteq FdNums
  /\ rec \in [Recs -> Record]
  /\ infos \in Recs \cup {NULL} /\ pool \in Recs \cup {NULL}
  /\ fresh \subseteq Recs
  /\ counter \in 0 .. MaxConns
  /\ rpc \in {"idle", "check", "expire"}
  /\ holder \in Seq(Recs)
  /\ closes \in [1 .. MaxConns -> Nat]

\* Spec 8, free-pool correctness: no record is in the connection list and
\* the free pool at once, neither list runs into a cycle or holds a record
\* twice, and every record malloc() returned is in exactly one of them.
\* Breaking it takes a record freed twice or allocated twice.
FreePoolCorrect ==
  /\ Len(InfosList) < Fuel /\ Len(PoolList) < Fuel
  /\ Cardinality(Range(InfosList)) = Len(InfosList)
  /\ Cardinality(Range(PoolList)) = Len(PoolList)
  /\ Range(InfosList) \cap Range(PoolList) = {}
  /\ Range(InfosList) \cup Range(PoolList) \cup fresh = Recs

\* The records in the connection list.
Live == {r \in Recs : rec[r].in_chain}

\* The connection list and its bookkeeping agree: a record is in_chain
\* exactly when it is on the list, and number_of_entries (which bounds the
\* reaper's snapshot) is the list's length.
ListAccounted ==
  /\ Live = Range(InfosList)
  /\ entries = Len(InfosList)

\* Every live connection whose descriptor got a handle is reached through
\* it: the slot holds the descriptor, ev_looping() finds that slot first,
\* and its handler names this record and side.  Breaking it takes a handle
\* removed or handed to another registration while its connection lives.
ConnectionsDispatchable ==
  \A r \in Live :
    \A side \in {"client", "server"} :
      LET fd == IF side = "client" THEN rec[r].client_fd ELSE rec[r].server_fd
          h == IF side = "client" THEN rec[r].client_handle ELSE rec[r].server_handle
      IN h >= 0 => /\ fd \in ev.watched
                   /\ Target(ev, fd) = h
                   /\ ev.handlers[h] = [r |-> r, side |-> side]

\* No socket leaks: the open descriptors are the listening socket and the
\* two sockets of each live connection, all distinct.
SocketsAccounted ==
  /\ kfds = {ListenFd} \cup UNION {{rec[r].client_fd, rec[r].server_fd} : r \in Live}
  /\ Cardinality(kfds) = 1 + 2 * Cardinality(Live)

\* Spec 7: resource exhaustion in the event loop refuses the accept, so
\* every connection in the list has both descriptors registered.
AcceptedConnectionsRegistered ==
  \A r \in Live : rec[r].client_handle >= 0 /\ rec[r].server_handle >= 0

\* The process never dereferences NULL in detach_connection_info_entry(),
\* whatever records the reaper closes twice.
NoSegfault == ~segv

-----------------------------------------------------------------------------
(* Refinement                                                              *)

\* Proxy as an implementation of ConnectionLifecycle: connection_counter
\* counts the connections taken, the served ones are the connection_id of
\* the records in the list, and the closed ones are those close_event()
\* ran for.
LifecycleMapping == INSTANCE ConnectionLifecycle WITH
  accepted <- counter,
  open <- {rec[r].conn : r \in Live},
  closed <- {c \in 1 .. MaxConns : closes[c] > 0}

\* The relay, the accept paths and the reaper together keep the promise of
\* ConnectionLifecycle: every connection taken from the listening socket
\* spends the next connection_id, a served connection stays in the list
\* until its one close, and the close of do_proxying() or of
\* clean_idle_connections() never removes from the list a connection other
\* than the one close_event() is run for, nor one that was closed before.
ServesLifecycle == LifecycleMapping!Spec

=============================================================================
