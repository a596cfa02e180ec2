---------------------------- MODULE EventTable ----------------------------
(***************************************************************************)
(* The epoll registration table of src/src/events.c, as operators on one  *)
(* record value so that a caller can apply several of them in one step    *)
(* (close_event() removes two handles, then closes both descriptors):      *)
(*   fds      data->fds[]: a descriptor, -1 for a freed slot, 0 for a slot *)
(*            never written (the array is static, zero-initialised)        *)
(*   handlers data->handlers[] and data->args[] together                   *)
(*   max      data->max_events, the high-water mark                        *)
(*   num      data->num_of_events, reported by ev_count()                  *)
(*   watched  the interest list of the epoll instance (kernel state)       *)
(***************************************************************************)
EXTENDS Integers, FiniteSets, FiniteSetsExt

CONSTANTS
  MaxEvents,        \* MAX_EVENTS
  NoHandler         \* the content of a handler slot never written

ASSUME MaxEvents \in Nat \ {0}

Slots == 0 .. (MaxEvents - 1)

EmptyTable == [fds |-> [i \in Slots |-> 0],
               handlers |-> [i \in Slots |-> NoHandler],
               max |-> 0, num |-> 0, watched |-> {}]

-----------------------------------------------------------------------------
(* events.c                                                                *)

\* find_first_free(): the first slot below the high-water mark holding -1,
\* else the slot at the mark if the table is not full, else -1.
FindFirstFree(ev) ==
  LET free == {i \in 0 .. (ev.max - 1) : ev.fds[i] = -1}
  IN IF free # {} THEN Min(free)
     ELSE IF ev.max < MaxEvents THEN ev.max
     ELSE -1

\* Mutant: ev_add_event() returns the slot even when epoll_ctl() failed.
AddHandleIgnoreCtl(ev, ctlOk) ==
  LET i == FindFirstFree(ev)
  IN IF i < 0 THEN -2 ELSE i

\* The value ev_add_event() returns: the slot, -1 if epoll_ctl failed,
\* -2 if the table is full.
AddHandle(ev, ctlOk) ==
  LET i == FindFirstFree(ev)
  IN IF i < 0 THEN -2 ELSE IF ctlOk THEN i ELSE -1

\* ev_add_event(fd, handler, args): find_first_free() claims the slot and
\* counts it before epoll_ctl() is called; the slot is written only if
\* epoll_ctl() succeeds.
Add(ev, fd, h, ctlOk) ==
  LET i == FindFirstFree(ev)
  IN IF i < 0 THEN ev
     ELSE [ev EXCEPT
             !.num = @ + 1,
             !.max = IF i = ev.max THEN @ + 1 ELSE @,
             !.fds = IF ctlOk THEN [@ EXCEPT ![i] = fd] ELSE @,
             !.handlers = IF ctlOk THEN [@ EXCEPT ![i] = h] ELSE @,
             !.watched = IF ctlOk THEN @ \cup {fd} ELSE @]

\* The shrink loop of ev_remove_event(): drop trailing slots holding a
\* negative value.
RECURSIVE Shrink(_, _)
Shrink(fds, m) == IF m > 0 /\ fds[m - 1] < 0 THEN Shrink(fds, m - 1) ELSE m

\* ev_remove_event(index): any index below the mark is cleared and the
\* count decremented, whether or not the slot was in use.
Remove(ev, index) ==
  IF index >= 0 /\ index < ev.max
    THEN LET fds == [ev.fds EXCEPT ![index] = -1]
         IN [ev EXCEPT !.fds = fds, !.num = @ - 1, !.max = Shrink(fds, ev.max)]
    ELSE ev

\* close(fd): the kernel drops the descriptor from the epoll interest list.
CloseFd(ev, fd) == [ev EXCEPT !.watched = @ \ {fd}]

\* ev_looping(): for a ready descriptor, the first slot below the mark that
\* holds it; its handler is the one called.  -1 if none matches.
Target(ev, fd) ==
  LET hits == {i \in 0 .. (ev.max - 1) : ev.fds[i] = fd}
  IN IF hits = {} THEN -1 ELSE Min(hits)

=============================================================================
