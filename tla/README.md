# TLA+ models of tcp-proxy

These are TLA+ models of the concurrent core of `tcp-proxy`, checked with TLC.
Every definition is translated from the C sources under `src/`. `PROJECT.json`
maps each definition to the lines it models.

## The system and how its parts interact

`tcp-proxy` is a single-process TCP relay with a few threads.

- **Proxy thread** (`proxying.c`, `proxy_main`). It runs the event loop
  (`events.c`) over one epoll instance.
  - The listener handler `accepting_request` accepts a client and asks the
    policy gate for a decision, which uses the rate limiter and the database.
  - If the client is admitted, the handler connects to the backend, takes a
    `connection_info` record from a free pool, and registers both descriptors
    with the event loop. It then attaches the record to the list of live
    connections.
  - `do_proxying` relays one read/write per event. It counts client requests
    and closes the connection on EOF, on a write failure, or when the request
    cap is passed.
- **Main thread** (`main.c`, `min_timer.c`). It runs a timer that wakes
  every 5 seconds and calls `cron`, which acts once per minute:
  - it calls the database service's `close_idle`;
  - it calls `clean_idle_connections`, which closes connections idle longer
    than the expiring timeout;
  - it wakes the rate limiter's expiring thread.
  `clean_idle_connections` runs on the main thread concurrently with the
  proxy thread, and the two share the record list, the pool and the event
  table.
- **Rate limiter** (`auto_blacklist.c`). It keeps per-IP sliding-window
  counters in hashed buckets.
  - The proxy thread calls `find_and_increase` on every accept.
  - A dedicated expiring thread clears outdated slots and frees empty entries.
  - Each bucket has its own lock, and freed entries go to a release pool.
- **Policy gate** (`accepting_request` in `proxying.c`). Under `worker_mutex`
  on the proxy thread, it decides each accepted client's fate. In order:
  - the session lookup (`check_available`);
  - the textual whitelist prefix match on the `inet_ntop(AF_INET6)` form;
  - the database blacklist;
  - the rate-limiter count, with the failure-guessing probe onto the
    fallback channel;
  - the threshold and persist-threshold promotion, with the VIP exemption;
  - the long-running check on `success_counter`;
  - the clamp of the chosen channel to the backend list, and the backend
    connect.
  The admin commands `set default channel` and `set fall back channel` change
  the two channels without a lock.
- **Database service** (`db_service.c` over the MySQL driver `db_mysql.c`).
  One MySQL connection with a cache of prepared statements (`stmt_holder`),
  guarded by `connection_mutex`.
  - The proxy thread calls `check_available` on accept, then
    `connection_established` (three statements) or `connection_not_allowed`.
    From `close_event` it calls `connection_close` and `db_service_done`.
    It also runs the policy queries of `accepting_request` (`check_vip`,
    `connection_blacklisted`, `add_ip_to_auto_blacklist`, `fail_guessing`),
    `read_all_product_names` at start-up, and the plug-in's
    `add_kms_details` and `update_machine_owner`. Each of these connects,
    retrieves one statement and executes it, ignoring a failure. In
    `DbService` they are operations of the set `Ops`, and `StmtsOf` names
    the statement each one uses.
  - The main thread's `cron` calls `close_idle`.
  - A failed `check_available` query calls `try_reconnect`, which disconnects
    and connects again.
  - `mysql_close` detaches the statements of the handle it closes, so a
    statement prepared on an earlier handle always fails to execute.
- **Packet analyzer loader** (`packet_analyzer.c`). A `dlopen`ed plug-in with a
  `reference_count` of live handles.
  - The proxy thread allocates a handle on accept, calls `analyze` on relayed
    data and releases the handle on close. The idle reaper releases too.
  - The admin thread (`commands.c`) loads, unloads, enables it and sets safe
    mode. In safe mode a crashing plug-in is disabled and unloaded once the
    count reaches zero.
- Not modelled:
  - the admin commands that only print or change logging;
  - the configuration parser, loggers, signature, hash map and utility code.

  The table below gives the reason for each.

## Modules

| Module | Models | State | Actions |
|---|---|---|---|
| `AutoBlacklist` | `auto_blacklist.c` | The memory of the entries, which are cells with `next` pointers. Also: bucket heads, the release pool, the clock, and a pc and locals for the toucher (proxy thread) and the expirer (expiring thread). | `TouchBegin` reads the time and head before the lock. `TouchFound`/`TouchCreate` are the locked search/create. `TouchIncSlot`/`TouchSlotStore` and `TouchLoad`/`TouchStore` are the two unlocked `++`s, each split into a load and a store. `Wakeup` is the cron signal, lost when the thread is between its unlock and its next `cond_wait` (`ExpireRelock`). `ExpireSkip`/`ExpireStart` are the recent-index check. `ExpireBucket` is one bucket under its lock, moving emptied entries to the local `free_list`; `ExpireFree` is one `free_entry` after the unlock; `EndBucket` goes on to the next bucket or records `recent_index`. `Tick` advances the clock. |
| `MCAutoBlacklist` | TLC instance | Two IPs, one bucket, three cells. | |
| `MinuteTimer` | `min_timer.c` and `cron` in `main.c`, composed with `AutoBlacklist` | `second` (`time(NULL)`), `last_unit`, `cron`'s `last_min`, and all of `AutoBlacklist` except that its slot index `now` is `second / frequency_in_seconds`. | `TimerPoll` is one loop iteration in a new 5-second unit and calls `Cron`, which acts once per `tm_min` and calls `Wakeup` (blocking while a pass holds `expiring_mutex`). `ClockStep` is the sleep to the next unit. `Touch` is `TouchBegin` up to a horizon. The touch steps and the expiring steps are those of `AutoBlacklist`; the free `Tick` and `Wakeup` are replaced by the timer. |
| `MCMinuteTimer` | TLC instance | The instance of `MCAutoBlacklist`, driven by the timer. | |
| `EventTable` | `events.c` | The static arrays as one record `[fds, handlers, max, num]`, plus the epoll interest list `watched`. These are pure operators. | `FindFirstFree`, `AddHandle`/`Add` (`ev_add_event`, including an `epoll_ctl` failure), `Remove` (`ev_remove_event` with the recursive `Shrink`), `Target` (the `ev_looping` scan). |
| `Proxy` | `proxying.c` and its use of the event loop | The table, kernel descriptors, records (fields of `connection_info`), the list head `infos`, `pool`, `entries`, the `counter`, and the reaper's pc, snapshot and index. | `AcceptConnection`, `AcceptRefused` (the refusing paths, including `connect_host`'s; with `HostByName` a failed `gethostbyname` leaks the socket), `Relay` (data / write failure / EOF, with the request cap), `Idle` (the timeout elapses), and the reaper's `ReapSnapshot`, `ReapKeep`, `ReapSelect`, `ReapExpire`, `ReapDone`. |
| `ConnectionLifecycle` | The promise `proxying.c` makes about connections | `accepted` (`connection_counter`), the `open` connection ids, the `closed` ones. | `Serve`, `Refuse`, `Close(c)`. |
| `MCProxy` | TLC instance | Three records. It has a constraint bounding repeated closes. | |
| `PacketAnalyzer` | `packet_analyzer.c`, its callers in `proxying.c` and `commands.c`, `try_catch` of `exception.c` | The library generation (a `dlopen` handle), whether it is mapped, the `analyzer` pointer, `reference_count`, `enable`, `auto_unload`, `safe_mode`, each connection's handle, and a pc per thread (proxy, reaper, admin) with the value a split `++`/`--` loaded. Also whether SIGSEGV is blocked in the proxy thread's signal mask. | `Accept`, `AllocCall`, `IncLoad`/`IncStore` (the unlocked `++`), `AnalyzeBegin`/`AnalyzeCall` (the NULL test, then the call; a fault in safe mode goes through `TryCatch`, which disables and marks auto-unload the first time and is fatal once SIGSEGV is blocked), `Close` (the proxy's `close_event`), `ReapSelect`/`ReapClose` (the reaper picks a record, then waits for `worker_mutex` and runs `close_event` on it, even if the proxy closed it meanwhile), `ReleaseCall`, `DecLoad`/`DecStore`, `UnloadCheck`/`UnloadLib`, and the admin's `UnloadCommand`, `Load` (with `dlopen`/`dlsym` failure), `SetEnable`, `SetSafeMode`. |
| `MCPacketAnalyzer` | TLC instance | Two connections. | |
| `DbService` | `db_service.c`, the driver calls of `db_mysql.c` | `connected` as the link generation (0 = disconnected), the statement cache as the generation each statement was prepared on, the closed statements, `recent_use_time`/`connection_time` as the flags `recentUse`/`aged`, and per thread a pc, the operation, the index `k` into its statement sequence (`StmtsOf`), the retrieved statement and the two retry counters. | `Begin` (`connect_to_database`), `Retrieve`, `Create` (one pass of `create_statement`'s loop), `GiveUpCreate`, `Execute` (success; failure into `try_reconnect` for `check_available`; the next statement of `connection_established`), `ReconnectDisconnect`/`ReconnectConnect` (`reconnect_to_database` inside `safe_reconnect_to_database`'s loop), `CloseEventNoRecord` (`close_event` of a connection without a session), `Done` (`db_service_done`), `CloseIdle`, and the environment steps `IdleTimeout` and `AgeOut`. With `Stalls`, `IdleTimeout` may also pass while a thread is blocked in a prepare or execute (no read timeout is set). The driver operators `DbmysqlConnect`, `DbmysqlDisconnect`, `DbmysqlCreateStatement`, `DbmysqlLocalExecute` and `DbmysqlStmtClose` state what the MySQL calls do to handles and statements. |
| `PolicyGate` | `accepting_request` in `proxying.c`; the policy queries of `db_service.c`; the channel commands of `commands.c` | Per peer: the rate-limiter `counter`, the `aged` flag of the long-running check, and `success_counter`. Also the persistent `blacklist`, `user_counter`, the two channels, and `last`, a record of the latest accept (peer, session, count, whether listed, channel and outcome). | `Accept` (the whole handler, built from the pure `Decide` and the database results `ConnectionBlacklisted`, `CheckVip`, `AddIpToAutoBlacklist` and `FailGuessing`, each of which may fail, and `ConnectHost`), `AcceptNoPeer` (a `getpeername` failure), `Slide` and `Age` (the window moving and `max_persistent_time` passing), and `CmdDefaultChannel`/`CmdFallBackChannel` (`atoi` of the argument, then the setter). |
| `MCPolicyGate` | TLC instance | Four peers: an IPv4 client in the whitelist, an IPv4 VIP, an IPv4 client outside it whose session names channel 2 of 2, and an IPv6 client whose session is -1. | |

### Correspondence to the code

- **An action is a whole handler, or the part of it between two points where
  another thread can interleave.** Examples:
  - `AcceptConnection` is the complete admitted path of `accepting_request`:
    allocate, `add_event` twice, `attach`, `counter++`.
  - `Relay` is one `do_proxying` call. On a close it includes `close_event`
    and `free_connection_info`.
  - The reaper is split where `clean_idle_connections` takes and drops its
    locks:
    1. the snapshot under `info_mux`;
    2. the unlocked read of `recent`;
    3. detach/close/free under `worker_mutex`.
  - The proxy thread's relay handlers and `accepting_request`, and the
    reaper's close section, all hold `worker_mutex`. In `PacketAnalyzer` and
    `DbService`, `WorkerMutexFree` lets one of them start only while the
    other is outside its section. The reaper reads `recent` before it takes
    the mutex, so a record it picked may be closed by the proxy before it
    gets there. `close_idle` (main thread) and the admin thread take no
    lock.
- **Data is abstracted.**
  - Descriptors are small integers, taken as the lowest free number, as the
    kernel does.
  - Records, IPs and memory cells are model values.
  - Payload bytes are not modelled. A relay step's outcome is chosen from
    `{data, wfail, eof}`.
- **Time.**
  - In `AutoBlacklist`, time is a bounded clock, and a slot index is
    `time % Slots`, as in `current_time_index`.
  - In `Proxy`, idleness is the `stale` flag, which `Idle` sets and a relay
    clears. `Idle` fires only between reaper passes, because `tv` is read once
    per pass.
- **Undefined behaviour** is a state flag, not a nondeterministic memory
  outcome. Dereferencing a NULL `prev` in `detach` sets `segv`.
- **Addresses** in `PolicyGate` are sequences of text segments. `InetNtop6`
  gives the `::ffff:` prefix to an IPv4 client, because the listener is an
  `AF_INET6` socket. The whitelist test (`strncasecmp` with the prefix's
  length) is `IsPrefix` of a configured sequence. The text is cut into
  segments at the points where the configured prefixes end, so a prefix
  test on segments equals the test on characters. The addresses are
  lower case, so case does not matter.

### Refinement

`ConnectionLifecycle` states what the relay promises about connections,
with records, lists, descriptors and handles left out:
- every connection taken from the listening socket spends the next
  `connection_id`;
- a served connection is open until it is closed, exactly once;
- an id is never served twice.

`Proxy` implements it under `LifecycleMapping`, an `INSTANCE ... WITH` with
this mapping:
- `accepted` is `connection_counter`;
- `open` is the `connection_id`s of the records with `in_chain` set;
- `closed` is the ids that `close_event` ran for.

`ServesLifecycle == LifecycleMapping!Spec` is checked as a `PROPERTY` in
`px_relay`. With the reaper on, it is violated: the double free hands one
record to two accepts, so the first of the two connections leaves the list
without a close (see `px_reaper_double_free`).

## Runs

Passing runs. Each one finishes in under two minutes.

| Run | Checks | Shows |
|---|---|---|
| `ab_timer` | `TimerTypeOK`, `HeapIntegrity`, `SlotsExpire` | The expiring pass is started by the minute `cron` of the 5-second timer; the first wakeup may be lost while the expiring thread is still starting. Touches racing it keep every cell in exactly one acyclic list, in its IP's bucket. With a slot of 20 s in a window of two (the slot position changes from one minute to the next), every slot that leaves the window is eventually cleared (spec §8, sliding-window bound). The clock bound ends every behaviour, so deadlock is not checked. 62k states. |
| `px_relay` | `TypeOK`, `FreePoolCorrect`, `ListAccounted`, `ConnectionsDispatchable`, `SocketsAccounted`, `ServesLifecycle` | Without the reaper, accept/relay/close (including failing registrations) keep the pool, the list, `entries`, the event table and the open sockets consistent. `ServesLifecycle`: this detailed model implements `ConnectionLifecycle` (see Refinement). |
| `px_reaper_safety` | `NoSegfault` | With the reaper racing the relay, closing a record twice never makes `detach` dereference a NULL `prev`. |
| `pa_window` | `TypeOK`, `NoUnsafeCall` | Admin commands run only while the proxy is quiet (the maintenance window), and the reaper races the proxy's closes. No call goes through an unloaded plug-in, including after a safe-mode fault that unloads the library. `TypeOK` bounds `reference_count` by the number of connections. A second safe-mode fault ends the process (`pa_second_fault`), so this run does not check deadlock. |
| `db_single` | `TypeOK`, `OperationsComplete` | The proxy thread runs `check_available`, `connection_established`, `connection_not_allowed` and `connection_close`, and the main thread runs `close_idle`. Under `FairSpec`, every operation a thread begins returns it to idle, whatever the server answers: connects, retried creates, failing queries and bounded reconnects all end. The policy and plug-in queries are left out of this run. Each has the shape of `connection_not_allowed` (one statement, failure ignored), and each one added multiplies the state space by about four. |
| `pg_gate` | `TypeOK`, `VipsExempt`, `BlacklistedRefused`, `ThresholdEnforced` | The database answers correctly here, and the whitelist is written in the `::ffff:` form. Over every sequence of accepts, window slides, persistent ageing and channel commands: a VIP is never auto-blocked or persisted; a blacklisted client is refused; a rate-limited client over the threshold is refused, and over the persist threshold it is blacklisted. |

`AutoBlacklist_integrity.cfg` checks `TypeOK` and `HeapIntegrity` on
`AutoBlacklist` alone, where the expiring thread may be woken at any moment
(1.5M states, 35 s); it is kept beside the runs as the wider timing.

Violation runs. Each one shows a finding in `PROJECT.json`.

| Run | Property | What TLC finds |
|---|---|---|
| `ab_conservation` | `RateConservation` | The expirer clears an entry between the unlocked `++`s of `find_and_increase`. `entry->counter` then loses the subtraction. |
| `px_reaper_double_free` | `FreePoolCorrect` | The reaper closes and frees a record the relay already freed, so the pool contains it twice. |
| `pa_unload_race` | `NoUnsafeCall` | An admin unload between the proxy's `analyzer != NULL` test and its call through the pointer: the call goes into an unmapped library. |
| `db_stale_cache` | `CacheMatchesConnection` | `reconnect_to_database` disconnects without `close_all_statements`, so the cache keeps statements of the old connection. Here the proxy thread runs `check_available` and the policy queries. |
| `pa_double_release` | `HandlesOfLoadedAnalyzer` | The reaper picks a connection and waits for `worker_mutex` while the proxy closes it. `close_event` then runs again on the closed record and releases `packet_analyzer_data` a second time, because the pointer is never cleared. `reference_count` reaches 0 while another connection still holds a handle, and the auto-unload `dlclose`s the library under it. |
| `pa_second_fault` | `SafeModeContainsFaults` | In safe mode the first plug-in SIGSEGV is caught. The `longjmp` out of the handler leaves SIGSEGV blocked, because `setjmp` does not save the signal mask, so the next fault of a re-enabled analyzer kills the process. |

Further divergences met while modelling. No run checks these; each is a
hazard in `PROJECT.json`, with the definition that states it:
- `SlotsExpire` with a slot of 30 s (`MinuteTimer_aliasing.cfg`): spec
  §4.2 skips a second pass in the same *absolute* slot index, but
  `expiring()` compares the slot *position* `(t / frequency) % 12` with
  `recent_index`. `cron` starts a pass at the same second of every minute,
  so when a minute is a whole number of windows (`monitor-period` 12-23 or
  60-71 in the code) every pass after the first is skipped. Untouched
  entries then keep their stale counts and are never freed.
- `CountMatchesWindow` (`AutoBlacklist`): the expirer clears a slot between
  the unlocked increments, so the count compared with the thresholds differs
  from the accesses in the window.
- `ev_remove_event` decrements `num_of_events` on every call, so a second
  removal of a handle is not idempotent (spec §8).
- `ev_add_event` claims a slot before `epoll_ctl` and never returns it when
  that fails.
- `ReconnectExhaustionFatal` (`DbService`): after every reconnect fails,
  `safe_reconnect_to_database` returns and `try_reconnect` does not exit
  with 139.
- `UniqueEntryPerIP` (`AutoBlacklist`, `AutoBlacklist_UniqueEntryPerIP.cfg`):
  the bucket head is read before the lock. The search then walks a freed
  entry, and a second entry is created for the same IP.
- `AcceptedConnectionsRegistered` (`Proxy`, `Proxy_full.cfg`): with a full
  event table, the connection is accepted with handle -2 instead of being
  refused (spec §7).
- `VipsExempt` with a failing `check_vip` (`PolicyGate_vip_failure.cfg`):
  `check_vip` returns 0 on a database error, so a VIP over the threshold is
  blocked and persisted.
- `ThresholdEnforced` with a failing execution of `SQL_CHECK_VIP`
  (`PolicyGate_vip_exec_failure.cfg`): `executeUpdate` returns -1, and
  `accepting_request` tests `check_vip(ip) == 0`, so every client over the
  threshold is admitted as a VIP and never promoted to the blacklist.
- `BlacklistedRefused` with a failing `connection_blacklisted`
  (`PolicyGate_blacklisted_failure.cfg`): the query fails open, so a
  blacklisted client is admitted.
- `WhitelistedNotDropped` (`PolicyGate`, `PolicyGate_whitelist.cfg`): spec
  scenario 2 writes the whitelist prefix as `10.` for client 10.0.0.2. The
  code matches it against `::ffff:10.0.0.2`, so the client is dropped on its
  first accept.
- `CmdDefaultChannel`/`CmdFallBackChannel` (`PolicyGate`): `atoi` turns a
  mistyped argument into channel 0, which is then accepted.
- `NoUseAfterClose` (`DbService`, `DbService_idle_stall.cfg`, `Stalls = TRUE`):
  `recent_use_time` is set only at connect, and `db_mysql.c` sets no read
  timeout. A worker blocked in a prepare or an execute longer than the
  300 s `database_timeout` resumes on a statement that `close_idle` closed
  meanwhile. This needs a server that stalls for five minutes, so it is not
  a run.
- `SocketsAccounted` (`Proxy`, `Proxy_host_leak.cfg`, `HostByName = TRUE`):
  when `gethostbyname` fails, `connect_host` returns -1 without closing the
  socket it opened, so every refused connection to a backend given by
  name leaks a descriptor. `px_relay` gives backends as addresses.
- In `db_stale_cache`, `mysql_close` has detached the stale statements. Every
  `check_available` on them fails and reconnects again, until `close_idle`
  or `db_service_done` empties the cache.

The cfg files named above are kept so that each of these can be reproduced
with `tlc -config <cfg> <module>` (`MCAutoBlacklist`, `MCProxy`,
`MCPolicyGate`, `DbService`).

Every property of a passing run is also checked against a mutant of the code
it is about. `PROJECT.json` lists the mutants:
- a freed cell left linked;
- a wrong `recent_index`;
- a free that does not link;
- an attach that does not count or does not set `prev`;
- an ignored `epoll_ctl` failure;
- a refusal that leaks a socket;
- a request cap that is off by one;
- a `close_event` that decrements without a handle, an unload that keeps the `analyzer` pointer;
- `create_statement`'s loop bound off by one, and a reconnect loop that does not count its attempts;
- a close sequence that does not detach the record;
- a `cron` that dedups on the hour;
- in the gate: a threshold test on the count read before `find_and_increase` counts the access, persisting without the VIP check, a blacklisted peer that keeps the default channel, and `success_counter++` without an entry.

## Bounds and why they suffice

- **AutoBlacklist.** Two IPs and one bucket, so the IPs collide, as in any
  real bucket. Three cells, two slots, and a clock up to 5. That allows
  two window rotations and three frees and reuses.
  - Every finding needs only one slot boundary during a pass, and one freed
    entry that is reused.
- **MinuteTimer.** The `MCAutoBlacklist` instance with three touches. The
  clock runs from 40 s to 120 s in 5-second units, and touches start up to
  60 s. With a slot of 20 s, the passes at 45, 60 and 120 s alternate
  between the two positions, and every slot touched before 60 s leaves the
  window by 100 s: each obligation of `SlotsExpire` falls before the bound.
  `MinuteTimer_aliasing.cfg` uses a slot of 30 s, so the passes at 120 and
  180 s land on the position of the pass at 65 s.
- **EventTable** is driven by `Proxy`: three slots, so the table fills.
- **Proxy.** Three records, descriptors 3..7 with the listener on 3, and
  `MaxAllowed = 1`, so the cap is hit after two requests.
  - `px_relay` allows four accepts with epoll failures.
  - The reaper runs allow four accepts.
  - `MCConstraint` bounds the drift that the double close causes
    (`num_of_events` and the repeated-close counter), so that the reaper runs
    stay finite.
  - The runs reach every action and every disjunct of `Next`. The leaking
    refusal needs `HostByName = TRUE`, which `Proxy_host_leak.cfg` sets.

- **PacketAnalyzer.** Two connections and two loads, so a reload after an
  unload happens, and a connection can hold a handle of the first library
  while the second is loaded. Two connections are also what the double release needs: one closed
  twice, the other still holding a handle.
- **DbService.** Up to two connections (one reconnect succeeds), two
  reconnect attempts, three statement-creation tries, and every outcome of
  connect, prepare and execute. Each race the runs show needs a single
  reconnect. Two connections keep `db_single`, with its liveness check,
  near 230k states.
  The proxy thread issues all four operations, so a three-statement
  `connection_established` can span a close or a reconnect.
  The code's limits (20 reconnects, 60 tries) are constants. The behaviours
  at the limit are the same for small values.

- **PolicyGate.** Two backends, threshold 2 and persist threshold 3, and
  counts up to 4. So a client crosses both thresholds, and the probe window
  `(threshold - 7, threshold]` holds the even counts 0 and 2. The four peers
  cover every branch of the decision: a session channel past the list, a
  session of -1, an IPv6 client that bypasses the counter, a VIP, and a
  client outside the whitelist. The backends that are up are any subset.
  Channel commands take every value from -1 to 2, plus a word.

## Fairness

The safety runs assume no fairness. Two runs check liveness, each under
fairness only where the code guarantees it.
- **`Proxy`: none.** No run claims that idle connections are eventually
  reaped. A stale close of the reaper can put a record on the free pool
  twice (`px_reaper_double_free`). After that, the reaper can keep an idle
  connection open forever. `MCProxy`'s constraint also cuts the behaviours
  that would show this.
- **`DbService`: `WF_vars(Step(t))` for each thread.** Both threads are
  scheduled OS threads, and `connection_mutex` is held for one step.
  - Beginning an operation, time passing and `close_idle` are not fair.
  - The server's answers stay arbitrary: weak fairness of `Step(t)` lets a
    failure be chosen every time.

- **`MinuteTimer`: weak fairness of `TimerPoll`, `ClockStep`, the touch
  steps after `TouchBegin`, and the expiring steps.** Time passes; the
  timer loop runs on the main thread and never waits for more than a pass;
  the proxy and expiring threads finish what they started, holding a lock
  for microseconds. New touches are not fair: clients may stop.
  - Two timing assumptions are guards of `ClockStep`. The timer handles
    every 5-second unit before the next one starts. A woken expiring
    thread reads the time in the unit of its wakeup.

In `AutoBlacklist` alone the expiring thread is woken at any time and gets
no fairness. `wakeup()` locks `expiring_mutex`, which the expiring thread
holds for a whole pass, so a wakeup sent during a pass waits for it to
end. `cond_wait` in `expiring_main` has no predicate: a wakeup sent between
the unlock at the end of a pass and the next `cond_wait` is lost, and that
minute's pass is skipped (`Wakeup`'s second disjunct). In `MinuteTimer` a
pass ends within the unit of its wakeup, so the window is open only while
the thread starts. The first unit boundary can come at once after
`start_minute_timer` reads `last_unit`, so the first wakeup may be lost;
`SlotsExpire` holds with it.

## Not modelled, and the plan

| Part | Why / plan |
|---|---|
| The product-name cache | `read_all_product_names` is modelled as a query of `DbService`. The hash map its rows fill is written once at start-up and then only read under a read lock. |
| The policy queries' own statement use | `PolicyGate` models `check_vip`, `connection_blacklisted`, `add_ip_to_auto_blacklist` and `fail_guessing` by their results, including a failure (for `check_vip`, both the 0 of a missing connection or statement and the -1 of a failed execution). Their use of the statement cache is the pattern `DbService` checks. |
| `cron`'s `close_idle` and `clean_idle_connection` in `MinuteTimer` | They are actions of `DbService` and `Proxy`, where their schedule is free. Composing all three with the timer would multiply three state spaces. `day_of_year`, written by the timer and read by nobody, and `terminate_minute_timer`, which nothing calls, are left out. |
| `Proxy`'s `close_event` side effects | `Proxy`'s close actions keep the event table, descriptors, list and pool. The analyzer release is modelled in `PacketAnalyzer`. `connection_close` and `db_service_done` are modelled in `DbService`. `free(remote_ip)` frees a string no property reads. |
| `module_loader` as one step | `Load` is atomic. Until it returns, `pluggableAnalyzer` is NULL or `plugin_enable` is false, so no other thread observes its intermediate states except through a handle that has already outlived its library. |
| `for_each`, `terminate_thread` in `auto_blacklist.c` | These are a read-only listing and shutdown. |
| Shutdown of `proxy_main` | Plan: the final `clean_idle_connections` racing an in-flight relay. |
| Config parser, loggers, the MySQL result API, ECDSA, hash map, context, utils | These are startup-time parsing, I/O, library wrappers and cryptography, with no interleaving or state machine for TLC to explore. The hash map is used only single-threaded. Its `remove` does not unlink the node it frees, but nothing calls it. `(*ptr->prev)->next = ptr->next` writes the `next` field of the node the slot points to, not the slot itself. A push in front of a node also leaves that node's `prev` stale. |

