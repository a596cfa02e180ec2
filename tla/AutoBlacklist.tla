---------------------------- MODULE AutoBlacklist ----------------------------
(***************************************************************************)
(* The auto-blacklist rate limiter of src/src/auto_blacklist.c.            *)
(*                                                                         *)
(* Two threads share the table of per-IP access entries:                   *)
(*   - the proxy thread calls find_and_increase() from accepting_request() *)
(*     for every whitelisted IPv4 client;                                  *)
(*   - the expiring thread sleeps on a condition variable, is woken by the *)
(*     minute cron (blacklistService->expiring == wakeup) and runs one     *)
(*     expiring() pass over every bucket.                                  *)
(* Entries are memory cells linked by their next field: into one bucket    *)
(* chain, or into the LIFO release_pool.  Time is the absolute slot index  *)
(* time(NULL) / frequency_in_seconds.                                      *)
(*                                                                         *)
(* find_and_increase() is split where the code leaves the bucket lock:     *)
(* the bucket head is read before the lock (line 107), the search, the     *)
(* allocation and clear_outdated_data() run under it (113-141), and the    *)
(* two counter increments run after the unlock (143-144), each as a load   *)
(* and a store.  An expiring() pass unlinks a bucket's emptied entries     *)
(* under its lock and pushes them on the release pool one by one after the *)
(* unlock (free_entry(), 204-208).                                         *)
(***************************************************************************)
EXTENDS Integers, Sequences, FiniteSets, SequencesExt

CONSTANTS
  IPs,         \* IPv4 client addresses (model values)
  Buckets,     \* 0 .. hash_buffer_size - 1
  Hash,        \* [IPs -> Buckets]: ip % hash_buffer_size
  Cells,       \* memory cells that can hold an ip_access_entry_t
  Slots,       \* RESERVED_ENTRY: slots of the sliding window
  T0,          \* absolute slot index when the model starts
  MaxTime,     \* bound on the absolute slot index
  MaxTouches,  \* bound on the number of find_and_increase() calls
  NULL

ASSUME /\ Buckets = 0 .. (Cardinality(Buckets) - 1)
       /\ Hash \in [IPs -> Buckets]
       /\ Slots \in Nat \ {0}
       /\ T0 >= Slots /\ MaxTime >= T0
       /\ NULL \notin Cells \cup IPs

VARIABLES
  now,          \* time(NULL) / frequency_in_seconds
  head,         \* ip_access_buffer[k].entries
  cell,         \* contents of each memory cell
  pool,         \* release_pool
  fresh,        \* cells malloc() has not returned yet
  tpc,          \* proxy thread: position in find_and_increase()
  tl,           \* proxy thread: locals of find_and_increase()
  epc,          \* expiring thread: position in expiring_main()
  el,           \* expiring thread: locals of expiring()
  recentIndex,  \* static int recent_index of expiring()
  hits,         \* history: find_and_increase() calls per IP and slot index
  result        \* history: the last entry->counter read by accepting_request()

vars == <<now, head, cell, pool, fresh, tpc, tl, epc, el, recentIndex, hits, result>>

Positions == 0 .. (Slots - 1)
Times == T0 .. MaxTime
Fuel == Cardinality(Cells) + 1

Slot(counter, s) == [counter |-> counter, slot_index |-> s]

\* Contents of a cell malloc() has not returned yet: never read.
Blank == [ipaddr |-> NULL, access_count |-> [i \in Positions |-> Slot(0, 0)],
          counter |-> 0, next |-> NULL]

NoResult == [ip |-> NULL, slot |-> T0, upto |-> T0, count |-> 0]

-----------------------------------------------------------------------------
(* Linked structures                                                       *)

\* The cells reached from c by following next pointers (at most Fuel).
RECURSIVE ChainFrom(_, _)
ChainFrom(c, fuel) ==
  IF c = NULL \/ fuel = 0 THEN <<>>
  ELSE <<c>> \o ChainFrom(cell[c].next, fuel - 1)

Chain(k) == ChainFrom(head[k], Fuel)
PoolList == ChainFrom(pool, Fuel)
Linked == UNION {Range(Chain(k)) : k \in Buckets}

\* The search loop of find_and_increase (lines 114-120), started from the
\* head pointer the thread read before taking the lock.
RECURSIVE Find(_, _, _)
Find(c, ip, fuel) ==
  IF c = NULL \/ fuel = 0 THEN NULL
  ELSE IF cell[c].ipaddr = ip THEN c
  ELSE Find(cell[c].next, ip, fuel - 1)

-----------------------------------------------------------------------------
(* The sliding window                                                      *)

\* current_time_index(): the slot position of absolute slot index s.
Index(s) == s % Slots

\* The absolute slot index clear_outdated_data(entry, Index(s), s) expects
\* at position i: it walks back from Index(s) while decrementing s.
Expected(s, i) == s - ((s - i) % Slots)

\* clear_outdated_data(): every position whose tag is not the expected one
\* is re-tagged and its counter is taken off the entry's running sum.
ClearOutdated(e, s) ==
  LET stale == {i \in Positions : e.access_count[i].slot_index # Expected(s, i)}
      counts == [i \in Positions |-> e.access_count[i].counter]
  IN [e EXCEPT
        !.access_count = [i \in Positions |->
                            IF i \in stale THEN Slot(0, Expected(s, i)) ELSE @[i]],
        !.counter = @ - SumFunctionOnSet(counts, stale)]

\* find_and_increase, lines 138-140: clear only if the current slot is stale.
ClearIfStale(e, s) ==
  IF e.access_count[Index(s)].slot_index # s THEN ClearOutdated(e, s) ELSE e

-----------------------------------------------------------------------------
(* Proxy thread: find_and_increase()                                       *)

TotalHits == SumFunction([ip \in IPs |-> SumFunction(hits[ip])])

\* Lines 102-110: the bucket head and the time are read before the lock.
TouchBegin(ip) ==
  /\ tpc = "idle"
  /\ TotalHits < MaxTouches
  /\ tl' = [ip |-> ip, slot |-> now, cur |-> head[Hash[ip]], loaded |-> 0]
  /\ hits' = [hits EXCEPT ![ip][now] = @ + 1]
  /\ tpc' = "locked"
  /\ UNCHANGED <<now, head, cell, pool, fresh, epc, el, recentIndex, result>>

\* Lines 113-141, entry found: search from the head read before the lock,
\* clear the stale slots, unlock.
TouchFound ==
  /\ tpc = "locked"
  /\ LET found == Find(tl.cur, tl.ip, Fuel)
     IN /\ found # NULL
        /\ cell' = [cell EXCEPT ![found] = ClearIfStale(@, tl.slot)]
        /\ tl' = [tl EXCEPT !.cur = found]
  /\ tpc' = "inc_slot"
  /\ UNCHANGED <<now, head, pool, fresh, epc, el, recentIndex, hits, result>>

\* allocate_new_entry(): pop the release pool, else malloc().
Allocated == IF pool # NULL THEN pool ELSE CHOOSE c \in fresh : TRUE

\* Lines 113-141, no entry found: allocate, initialise, push on the bucket
\* chain, clear the stale slots, unlock.
TouchCreate ==
  /\ tpc = "locked"
  /\ Find(tl.cur, tl.ip, Fuel) = NULL
  /\ pool # NULL \/ fresh # {}
  /\ LET k == Hash[tl.ip]
         c == Allocated
         e == [ipaddr |-> tl.ip,
               access_count |-> [i \in Positions |-> Slot(0, 0)],
               counter |-> 0,
               next |-> head[k]]
     IN /\ pool' = IF pool # NULL THEN cell[pool].next ELSE pool
        /\ fresh' = fresh \ {c}
        /\ cell' = [cell EXCEPT ![c] = ClearIfStale(e, tl.slot)]
        /\ head' = [head EXCEPT ![k] = c]
        /\ tl' = [tl EXCEPT !.cur = c]
  /\ tpc' = "inc_slot"
  /\ UNCHANGED <<now, epc, el, recentIndex, hits, result>>

\* Line 143, after the unlock: access_count[index].counter++, the load ...
TouchIncSlot ==
  /\ tpc = "inc_slot"
  /\ tl' = [tl EXCEPT !.loaded = cell[tl.cur].access_count[Index(tl.slot)].counter]
  /\ tpc' = "slot_store"
  /\ UNCHANGED <<now, head, cell, pool, fresh, epc, el, recentIndex, hits, result>>

\* ... and the store.
TouchSlotStore ==
  /\ tpc = "slot_store"
  /\ cell' = [cell EXCEPT ![tl.cur].access_count[Index(tl.slot)].counter = tl.loaded + 1]
  /\ tpc' = "load"
  /\ UNCHANGED <<now, head, pool, fresh, tl, epc, el, recentIndex, hits, result>>

\* Line 144, entry->counter++: the load ...
TouchLoad ==
  /\ tpc = "load"
  /\ tl' = [tl EXCEPT !.loaded = cell[tl.cur].counter]
  /\ tpc' = "store"
  /\ UNCHANGED <<now, head, cell, pool, fresh, epc, el, recentIndex, hits, result>>

\* ... and the store; accepting_request (line 565) then reads the counter.
TouchStore ==
  /\ tpc = "store"
  /\ cell' = [cell EXCEPT ![tl.cur].counter = tl.loaded + 1]
  /\ result' = [ip |-> tl.ip, slot |-> tl.slot, upto |-> now, count |-> tl.loaded + 1]
  /\ tpc' = "idle"
  /\ UNCHANGED <<now, head, pool, fresh, tl, epc, el, recentIndex, hits>>

-----------------------------------------------------------------------------
(* Expiring thread: expiring_main() and expiring()                         *)

\* The cron's wakeup() (lines 242-248) locks expiring_mutex, which the
\* thread holds from its cond_wait() wakeup to the end of its pass, and
\* signals the condition variable: a waiting thread starts a pass; a thread
\* that has unlocked after a pass but not yet waits again misses the signal
\* (cond_wait() has no predicate).
Wakeup ==
  /\ \/ epc = "wait" /\ epc' = "begin"
     \/ epc = "unlocked" /\ UNCHANGED epc
  /\ UNCHANGED <<now, head, cell, pool, fresh, tpc, tl, el, recentIndex, hits, result>>

\* expiring_main() lines 228-230: lock expiring_mutex and wait on the
\* condition variable, which releases the mutex.
ExpireRelock ==
  /\ epc = "unlocked"
  /\ epc' = "wait"
  /\ UNCHANGED <<now, head, cell, pool, fresh, tpc, tl, el, recentIndex, hits, result>>

\* Lines 165-168: a second pass in the same slot position does nothing.
ExpireSkip ==
  /\ epc = "begin"
  /\ Index(now) = recentIndex
  /\ epc' = "unlocked"
  /\ UNCHANGED <<now, head, cell, pool, fresh, tpc, tl, el, recentIndex, hits, result>>

ExpireStart ==
  /\ epc = "begin"
  /\ Index(now) # recentIndex
  /\ el' = [slot |-> now, k |-> 0, free |-> <<>>]
  /\ epc' = "sweep"
  /\ UNCHANGED <<now, head, cell, pool, fresh, tpc, tl, recentIndex, hits, result>>

\* The successor of the i-th element of s, or tail after the last one.
Succ(s, i, tail) == IF i < Len(s) THEN s[i + 1] ELSE tail
PosIn(s, c) == CHOOSE i \in 1 .. Len(s) : s[i] = c

\* Mutant: line 217 records the absolute slot index instead of its position.
EndBucketRecentSlot ==
  IF el.k + 1 \in Buckets
    THEN /\ el' = [slot |-> el.slot, k |-> el.k + 1, free |-> <<>>]
         /\ epc' = "sweep"
         /\ UNCHANGED recentIndex
    ELSE /\ el' = [el EXCEPT !.free = <<>>]
         /\ epc' = "unlocked"
         /\ recentIndex' = el.slot

\* The end of bucket el.k's iteration of the for loop (line 172): on to the
\* next bucket, or, after the last, line 217 records the slot position.
EndBucket ==
  IF el.k + 1 \in Buckets
    THEN /\ el' = [slot |-> el.slot, k |-> el.k + 1, free |-> <<>>]
         /\ epc' = "sweep"
         /\ UNCHANGED recentIndex
    ELSE /\ el' = [el EXCEPT !.free = <<>>]
         /\ epc' = "unlocked"
         /\ recentIndex' = Index(el.slot)

\* Mutant: the entries whose counter dropped to zero are moved to free_list
\* but *prev is never advanced past them (head unchanged).
ExpireBucketNoUnlink ==
  /\ epc = "sweep"
  /\ LET chain == Chain(el.k)
         cleared == [c \in Range(chain) |-> ClearOutdated(cell[c], el.slot)]
         freeList == Reverse(SelectSeq(chain, LAMBDA c : cleared[c].counter = 0))
     IN /\ cell' = [c \in Cells |->
                      IF c \in Range(freeList)
                        THEN [cleared[c] EXCEPT !.next = Succ(freeList, PosIn(freeList, c), NULL)]
                      ELSE IF c \in Range(chain) THEN cleared[c] ELSE cell[c]]
        /\ IF freeList = <<>>
             THEN EndBucket
             ELSE /\ el' = [el EXCEPT !.free = freeList]
                  /\ epc' = "free"
                  /\ UNCHANGED recentIndex
  /\ UNCHANGED <<now, head, pool, fresh, tpc, tl, hits, result>>

\* Lines 175-204 for bucket el.k, under its lock: clear every entry and move
\* those whose counter is zero to the local free_list (each pushed on its
\* front, so the last one unlinked comes first), then unlock.
ExpireBucket ==
  /\ epc = "sweep"
  /\ LET k == el.k
         chain == Chain(k)
         cleared == [c \in Range(chain) |-> ClearOutdated(cell[c], el.slot)]
         kept == SelectSeq(chain, LAMBDA c : cleared[c].counter # 0)
         freeList == Reverse(SelectSeq(chain, LAMBDA c : cleared[c].counter = 0))
     IN /\ cell' = [c \in Cells |->
                      IF c \in Range(kept)
                        THEN [cleared[c] EXCEPT !.next = Succ(kept, PosIn(kept, c), NULL)]
                      ELSE IF c \in Range(freeList)
                        THEN [cleared[c] EXCEPT !.next = Succ(freeList, PosIn(freeList, c), NULL)]
                      ELSE cell[c]]
        /\ head' = [head EXCEPT ![k] = IF kept = <<>> THEN NULL ELSE kept[1]]
        /\ IF freeList = <<>>
             THEN EndBucket
             ELSE /\ el' = [el EXCEPT !.free = freeList]
                  /\ epc' = "free"
                  /\ UNCHANGED recentIndex
  /\ UNCHANGED <<now, pool, fresh, tpc, tl, hits, result>>

\* Lines 206-209 after the unlock: free_entry() pushes the front of
\* free_list on the release pool under pool_mutex.
ExpireFree ==
  /\ epc = "free"
  /\ LET c == Head(el.free)
     IN /\ cell' = [cell EXCEPT ![c].next = pool]
        /\ pool' = c
  /\ IF Len(el.free) = 1
       THEN EndBucket
       ELSE /\ el' = [el EXCEPT !.free = Tail(@)]
            /\ UNCHANGED <<epc, recentIndex>>
  /\ UNCHANGED <<now, head, fresh, tpc, tl, hits, result>>

-----------------------------------------------------------------------------
(* The clock                                                               *)

\* A call of find_and_increase takes microseconds and a slot lasts
\* monitor_period / 12 seconds: at most one slot boundary passes during it.
Tick ==
  /\ now < MaxTime
  /\ tpc = "idle" \/ now = tl.slot
  /\ now' = now + 1
  /\ UNCHANGED <<head, cell, pool, fresh, tpc, tl, epc, el, recentIndex, hits, result>>

-----------------------------------------------------------------------------

Init ==
  /\ now = T0
  /\ head = [k \in Buckets |-> NULL]
  /\ cell = [c \in Cells |-> Blank]
  /\ pool = NULL
  /\ fresh = Cells
  /\ tpc = "idle"
  /\ tl = [ip |-> NULL, slot |-> T0, cur |-> NULL, loaded |-> 0]
  /\ epc = "unlocked"
  /\ el = [slot |-> T0, k |-> 0, free |-> <<>>]
  /\ recentIndex = -1
  /\ hits = [ip \in IPs |-> [t \in Times |-> 0]]
  /\ result = NoResult

Next ==
  \/ \E ip \in IPs : TouchBegin(ip)
  \/ TouchFound
  \/ TouchCreate
  \/ TouchIncSlot
  \/ TouchSlotStore
  \/ TouchLoad
  \/ TouchStore
  \/ Wakeup
  \/ ExpireRelock
  \/ ExpireSkip
  \/ ExpireStart
  \/ ExpireBucket
  \/ ExpireFree
  \/ Tick

Spec == Init /\ [][Next]_vars

-----------------------------------------------------------------------------
(* Properties                                                              *)

Entry == [ipaddr : IPs \cup {NULL},
          access_count : [Positions -> [counter : 0 .. MaxTouches, slot_index : 0 .. MaxTime]],
          counter : -MaxTouches .. MaxTouches,
          next : Cells \cup {NULL}]

TypeOK ==
  /\ now \in Times
  /\ head \in [Buckets -> Cells \cup {NULL}]
  /\ cell \in [Cells -> Entry]
  /\ pool \in Cells \cup {NULL}
  /\ fresh \subseteq Cells
  /\ tpc \in {"idle", "locked", "inc_slot", "slot_store", "load", "store"}
  /\ epc \in {"unlocked", "wait", "begin", "sweep", "free"}
  /\ el.k \in Buckets
  /\ recentIndex \in {-1} \cup Positions
  /\ hits \in [IPs -> [Times -> 0 .. MaxTouches]]

\* The release pool and the bucket chains (spec 4.2 (c), 5): every cell is
\* in exactly one of a bucket chain, the release pool, the expiring thread's
\* free_list, or malloc's reserve;
\* every list ends in NULL and holds no cell twice; every entry sits in the
\* bucket of its address.  Breaking it takes an expiring pass that unlinks
\* or frees wrongly, or an allocation racing one.
HeapIntegrity ==
  LET n == Cardinality(Buckets)
      lists == [l \in 1 .. n + 2 |-> IF l <= n THEN Chain(l - 1)
                                     ELSE IF l = n + 1 THEN PoolList ELSE el.free]
  IN /\ \A l \in DOMAIN lists :
          /\ Len(lists[l]) < Fuel
          /\ Cardinality(Range(lists[l])) = Len(lists[l])
     /\ \A l1, l2 \in DOMAIN lists :
          l1 # l2 => Range(lists[l1]) \cap Range(lists[l2]) = {}
     /\ Linked \cup Range(PoolList) \cup Range(el.free) \cup fresh = Cells
     /\ fresh \cap (Linked \cup Range(PoolList) \cup Range(el.free)) = {}
     /\ \A k \in Buckets : \A c \in Range(Chain(k)) : Hash[cell[c].ipaddr] = k

\* Spec 8, rate-limiter conservation: an entry's running sum equals the sum
\* of its slot counters whenever find_and_increase is not between its two
\* increments on it (lines 143-144).
RateConservation ==
  \A c \in Linked :
    (tpc \in {"load", "store"} => c # tl.cur) =>
      cell[c].counter = SumFunction([i \in Positions |-> cell[c].access_count[i].counter])

\* Spec 4.2 touch(): the IP's entry is located in its bucket, and created
\* only if absent, so no address has two entries in the table.
UniqueEntryPerIP ==
  \A c1, c2 \in Linked : c1 # c2 => cell[c1].ipaddr # cell[c2].ipaddr

\* The accesses of ip in the window of Slots slots ending at slot index w.
WindowHits(ip, w) ==
  SumFunctionOnSet(hits[ip], {t \in Times : w - Slots < t /\ t <= w})

\* The count accepting_request compares with the thresholds (line 565) is
\* the number of accesses from that IP in the sliding window, for the
\* window ending at the slot of the access or at any slot up to the read.
CountMatchesWindow ==
  result.ip # NULL =>
    \E w \in result.slot .. result.upto : result.count = WindowHits(result.ip, w)

=============================================================================
