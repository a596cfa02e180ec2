--------------------------- MODULE PacketAnalyzer ---------------------------
(***************************************************************************)
(* The pluggable packet analyzer loader of src/src/packet_analyzer.c and   *)
(* the three threads that use it.  The packet analyzer has no lock; the  *)
(* proxy and reaper threads exclude each other by worker_mutex:           *)
(*   "proxy"  - accepting_request() allocates a handle per connection,    *)
(*              do_proxying() analyzes, and closes through close_event(); *)
(*   "reaper" - the main thread's clean_idle_connections(): it picks an   *)
(*              idle connection before it takes worker_mutex, then runs    *)
(*              close_event(), which releases the handle, even when the   *)
(*              proxy thread closed that connection in between;           *)
(*   "admin"  - the command thread: load module, unload module, analyzer  *)
(*              enable/disable and analyzer mode safe/fast (commands.c).  *)
(* A library loaded by dlopen() is a generation number; pluggableAnalyzer *)
(* and library hold a generation or 0 (NULL).  A call through a function  *)
(* pointer re-reads pluggableAnalyzer, as the C code does.                *)
(***************************************************************************)
EXTENDS Integers, FiniteSets

CONSTANTS
  Conns,          \* connections the proxy accepts (model values)
  NoConn,         \* "no connection" for a thread's local
  MaxLoads,       \* bound on successful dlopen() calls (generations)
  LoadOutcomes,   \* subset of {"ok", "dlopen_fail", "dlsym_fail"}
  CloseOutcomes,  \* possible results of dlclose(): TRUE = 0
  AllocResults,   \* TRUE: the plugin's allocate() returns a handle
  Reaping,        \* the reaper closes idle connections
  AdminQuiescent  \* the operator loads/unloads only with no traffic

ASSUME /\ MaxLoads \in Nat \ {0}
       /\ LoadOutcomes \subseteq {"ok", "dlopen_fail", "dlsym_fail"}
       /\ "ok" \in LoadOutcomes
       /\ CloseOutcomes \subseteq BOOLEAN /\ TRUE \in CloseOutcomes
       /\ AllocResults \subseteq BOOLEAN /\ TRUE \in AllocResults
       /\ Reaping \in BOOLEAN /\ AdminQuiescent \in BOOLEAN

Threads == {"proxy", "reaper", "admin"}
Closers == {"proxy"} \cup (IF Reaping THEN {"reaper"} ELSE {})
Gen == 0 .. MaxLoads     \* 0 is NULL

VARIABLES
  plugin,      \* pluggableAnalyzer
  library,     \* library (the dlopen handle)
  mapped,      \* generations dlopen'ed and not yet dlclose'd
  loads,       \* generations used so far
  refcount,    \* reference_count
  enable,      \* plugin_enable
  autoUnload,  \* auto_unload
  safeMode,    \* safe_mode
  conn,        \* per connection: "new", "open" or "closed"
  data,        \* info->packet_analyzer_data: generation that allocated it
  pc, cur, tmp,\* per thread: program counter, connection, loaded counter
  faults,      \* kinds of unguarded calls made into no or a wrong library
  segvBlocked, \* SIGSEGV is blocked in the proxy thread's signal mask
  freed        \* history: handles the plugin's release() has taken back

vars == <<plugin, library, mapped, loads, refcount, enable, autoUnload,
          safeMode, conn, data, pc, cur, tmp, faults, segvBlocked, freed>>

\* A call through pluggableAnalyzer reaches mapped code of generation g.
Callable(g) == g # 0 /\ g \in mapped

\* An unguarded fault kills the process: no thread takes a step after it.
Running == faults = {}

Goto(t, l) == pc' = [pc EXCEPT ![t] = l]

\* worker_mutex: accepting_request(), the relay handlers and the reaper's
\* detach/close_event section hold it, so a proxy or reaper sequence starts
\* only when the other thread is outside its own; a reaper that has picked
\* a connection and waits for the mutex does not hold it.  The admin
\* thread takes no lock.
WorkerMutexFree(t) ==
  \A u \in {"proxy", "reaper"} \ {t} : pc[u] \in {"idle", "reap_wait"}

\* The maintenance window for load/unload, when assumed: the operator
\* issues them with no connection open, and no client connects meanwhile.
Quiescent ==
  /\ \A c \in Conns : conn[c] # "open"
  /\ \A t \in {"proxy", "reaper"} : pc[t] = "idle"

-----------------------------------------------------------------------------
(* Proxy thread: analyzer_allocate() from accepting_request()             *)

Accept(c) ==
  /\ Running
  /\ pc["proxy"] = "idle" /\ conn[c] = "new"
  /\ WorkerMutexFree("proxy")
  /\ AdminQuiescent => pc["admin"] = "idle"
  /\ conn' = [conn EXCEPT ![c] = "open"]
  /\ cur' = [cur EXCEPT !["proxy"] = c]
  /\ Goto("proxy", IF plugin # 0 /\ enable THEN "alloc_call" ELSE "idle")
  /\ UNCHANGED <<plugin, library, mapped, loads, refcount, enable,
                 autoUnload, safeMode, data, tmp, faults, segvBlocked, freed>>

\* pluggableAnalyzer->allocate(), through the pointer read again.
AllocCall(ok) ==
  LET c == cur["proxy"] IN
  /\ Running
  /\ pc["proxy"] = "alloc_call"
  /\ faults' = IF Callable(plugin) THEN faults ELSE faults \cup {"allocate"}
  /\ data' = [data EXCEPT ![c] = IF ok THEN plugin ELSE 0]
  /\ Goto("proxy", IF ok THEN "inc_load" ELSE "idle")
  /\ UNCHANGED <<plugin, library, mapped, loads, refcount, enable,
                 autoUnload, safeMode, conn, cur, tmp, segvBlocked, freed>>

\* reference_count++ is a load and a store.
IncLoad ==
  /\ Running
  /\ pc["proxy"] = "inc_load"
  /\ tmp' = [tmp EXCEPT !["proxy"] = refcount]
  /\ Goto("proxy", "inc_store")
  /\ UNCHANGED <<plugin, library, mapped, loads, refcount, enable,
                 autoUnload, safeMode, conn, data, cur, faults, segvBlocked, freed>>

IncStore ==
  /\ Running
  /\ pc["proxy"] = "inc_store"
  /\ refcount' = tmp["proxy"] + 1
  /\ Goto("proxy", "idle")
  /\ UNCHANGED <<plugin, library, mapped, loads, enable, autoUnload,
                 safeMode, conn, data, cur, tmp, faults, segvBlocked, freed>>

-----------------------------------------------------------------------------
(* Proxy thread: analyze_packet() from do_proxying()                      *)

AnalyzeBegin(c) ==
  /\ Running
  /\ pc["proxy"] = "idle" /\ conn[c] = "open"
  /\ WorkerMutexFree("proxy")
  /\ enable /\ data[c] # 0 /\ plugin # 0
  /\ cur' = [cur EXCEPT !["proxy"] = c]
  /\ Goto("proxy", "analyze_call")
  /\ UNCHANGED <<plugin, library, mapped, loads, refcount, enable,
                 autoUnload, safeMode, conn, data, tmp, faults, segvBlocked, freed>>

\* try_catch() (exception.c) around safe_analyze_packet(): signal()
\* installs exception_handler, which the kernel enters with SIGSEGV added
\* to the thread's signal mask; its longjmp() back into try_catch() does
\* not restore the mask, because setjmp() (glibc, musl) does not save it.
\* A SIGSEGV raised while it is blocked kills the process.
TryCatch ==
  IF segvBlocked
    THEN /\ faults' = faults \cup {"guard"}
         /\ UNCHANGED <<enable, autoUnload, segvBlocked>>
    ELSE /\ enable' = FALSE /\ autoUnload' = TRUE
         /\ segvBlocked' = TRUE
         /\ UNCHANGED faults

\* pluggableAnalyzer->analyze(): a call into no or another library, or a
\* fault of the plugin itself, is a SIGSEGV.  In safe mode try_catch()
\* catches it and the analyzer is disabled and marked for unload.
AnalyzeCall(pluginFault) ==
  LET c   == cur["proxy"]
      bad == ~Callable(plugin) \/ data[c] # plugin
  IN
  /\ Running
  /\ pc["proxy"] = "analyze_call"
  /\ pluginFault => safeMode
  /\ IF safeMode /\ (bad \/ pluginFault)
       THEN TryCatch
       ELSE /\ faults' = IF bad THEN faults \cup {"analyze"} ELSE faults
            /\ UNCHANGED <<enable, autoUnload, segvBlocked>>
  /\ Goto("proxy", "idle")
  /\ UNCHANGED <<plugin, library, mapped, loads, refcount, safeMode, conn,
                 data, cur, tmp, freed>>

-----------------------------------------------------------------------------
(* analyzer_release() from close_event(), on the proxy or reaper thread    *)

\* Mutant: reference_count-- outside the data != NULL test.
CloseEventAlwaysDecrement(t, c) ==
  /\ conn' = [conn EXCEPT ![c] = "closed"]
  /\ cur' = [cur EXCEPT ![t] = c]
  /\ Goto(t, IF plugin = 0 THEN "idle"
             ELSE IF data[c] # 0 THEN "rel_call" ELSE "dec_load")

\* close_event() of connection c on thread t: packetAnalyzer->release()
\* with info->packet_analyzer_data, which neither close_event() nor
\* free_connection_info() sets back to NULL.
CloseEvent(t, c) ==
  /\ conn' = [conn EXCEPT ![c] = "closed"]
  /\ cur' = [cur EXCEPT ![t] = c]
  /\ Goto(t, IF data[c] # 0 /\ plugin # 0 THEN "rel_call" ELSE "idle")

\* do_proxying() closes a connection of the list (end of stream, a failed
\* write or the request cap).
Close(c) ==
  /\ Running
  /\ pc["proxy"] = "idle" /\ conn[c] = "open"
  /\ WorkerMutexFree("proxy")
  /\ CloseEvent("proxy", c)
  /\ UNCHANGED <<plugin, library, mapped, loads, refcount, enable,
                 autoUnload, safeMode, data, tmp, faults, segvBlocked, freed>>

\* clean_idle_connections() lines 244-272: c is in the snapshot taken
\* under info_mux and its `recent' is past expiring-timeout; the thread
\* now waits for worker_mutex.
ReapSelect(c) ==
  /\ Running
  /\ Reaping
  /\ pc["reaper"] = "idle" /\ conn[c] = "open"
  /\ cur' = [cur EXCEPT !["reaper"] = c]
  /\ Goto("reaper", "reap_wait")
  /\ UNCHANGED <<plugin, library, mapped, loads, refcount, enable,
                 autoUnload, safeMode, conn, data, tmp, faults, segvBlocked,
                 freed>>

\* Lines 273-282 under worker_mutex: detach (a no-op on a record the proxy
\* thread has closed meanwhile) and close_event(), whose !in_chain test
\* then passes either way, so a closed connection is closed again.
ReapClose ==
  /\ Running
  /\ pc["reaper"] = "reap_wait"
  /\ WorkerMutexFree("reaper")
  /\ CloseEvent("reaper", cur["reaper"])
  /\ UNCHANGED <<plugin, library, mapped, loads, refcount, enable,
                 autoUnload, safeMode, data, tmp, faults, segvBlocked, freed>>

\* pluggableAnalyzer->release(data), through the pointer read again.
ReleaseCall(t) ==
  LET c == cur[t] IN
  /\ Running
  /\ pc[t] = "rel_call"
  /\ faults' = IF Callable(plugin) /\ data[c] = plugin THEN faults
               ELSE faults \cup {"release"}
  /\ freed' = freed \cup {c}
  /\ Goto(t, "dec_load")
  /\ UNCHANGED <<plugin, library, mapped, loads, refcount, enable,
                 autoUnload, safeMode, conn, data, cur, tmp, segvBlocked>>

DecLoad(t) ==
  /\ Running
  /\ pc[t] = "dec_load"
  /\ tmp' = [tmp EXCEPT ![t] = refcount]
  /\ Goto(t, "dec_store")
  /\ UNCHANGED <<plugin, library, mapped, loads, refcount, enable,
                 autoUnload, safeMode, conn, data, cur, faults, segvBlocked, freed>>

\* reference_count-- and, at zero with auto_unload set, module_unload().
DecStore(t) ==
  /\ Running
  /\ pc[t] = "dec_store"
  /\ refcount' = tmp[t] - 1
  /\ Goto(t, IF refcount' = 0 /\ autoUnload THEN "unload_check" ELSE "idle")
  /\ UNCHANGED <<plugin, library, mapped, loads, enable, autoUnload,
                 safeMode, conn, data, cur, tmp, faults, segvBlocked, freed>>

-----------------------------------------------------------------------------
(* module_unload(), from the unload command or from analyzer_release()    *)

\* Mutant: pluggableAnalyzer is not cleared before dlclose().
UnloadCheckKeepPointer(t) ==
  /\ Running
  /\ pc[t] = "unload_check"
  /\ IF plugin # 0 /\ refcount <= 0
       THEN /\ Goto(t, "unload_lib") /\ UNCHANGED <<plugin, autoUnload>>
       ELSE /\ autoUnload' = (autoUnload \/ plugin # 0)
            /\ Goto(t, "idle") /\ UNCHANGED plugin
  /\ UNCHANGED <<library, mapped, loads, refcount, enable, safeMode, conn,
                 data, cur, tmp, faults, segvBlocked, freed>>

\* With the analyzer in use, only mark it for unload; otherwise clear the
\* pointer and go on to dlclose().
UnloadCheck(t) ==
  /\ Running
  /\ pc[t] = "unload_check"
  /\ IF plugin # 0 /\ refcount <= 0
       THEN /\ plugin' = 0 /\ Goto(t, "unload_lib")
            /\ UNCHANGED autoUnload
       ELSE /\ autoUnload' = (autoUnload \/ plugin # 0)
            /\ Goto(t, "idle") /\ UNCHANGED plugin
  /\ UNCHANGED <<library, mapped, loads, refcount, enable, safeMode, conn,
                 data, cur, tmp, faults, segvBlocked, freed>>

\* if (library != NULL) dlclose(library): the handle read now.
UnloadLib(t, ok) ==
  /\ Running
  /\ pc[t] = "unload_lib"
  /\ IF library # 0 /\ ok
       THEN mapped' = mapped \ {library} /\ library' = 0
       ELSE UNCHANGED <<mapped, library>>
  /\ Goto(t, "idle")
  /\ UNCHANGED <<plugin, loads, refcount, enable, autoUnload, safeMode,
                 conn, data, cur, tmp, faults, segvBlocked, freed>>

-----------------------------------------------------------------------------
(* Admin thread: commands.c                                                *)

AdminMayLoad == pc["admin"] = "idle" /\ (AdminQuiescent => Quiescent)

UnloadCommand ==
  /\ Running
  /\ AdminMayLoad
  /\ Goto("admin", "unload_check")
  /\ UNCHANGED <<plugin, library, mapped, loads, refcount, enable,
                 autoUnload, safeMode, conn, data, cur, tmp, faults, segvBlocked, freed>>

\* load_packet_analyzer(false, file) -> module_loader(): only when no
\* analyzer is loaded; dlopen() and dlsym() may fail.  Every dlopen() is
\* a new generation; a failed dlopen() overwrites the library handle.
\* One step: until it returns, pluggableAnalyzer is NULL or plugin_enable
\* is false, so allocate and analyze skip the plug-in, and release reaches
\* it only with a handle that already outlived its library.
Load(outcome) ==
  LET g == loads + 1 IN
  /\ Running
  /\ AdminMayLoad /\ plugin = 0
  /\ outcome # "dlopen_fail" => loads < MaxLoads
  /\ IF outcome = "dlopen_fail"
       THEN /\ library' = 0
            /\ UNCHANGED <<plugin, mapped, loads, enable, autoUnload>>
       ELSE /\ library' = g /\ mapped' = mapped \cup {g} /\ loads' = g
            /\ enable' = FALSE /\ autoUnload' = FALSE
            /\ plugin' = IF outcome = "ok" THEN g ELSE 0
  /\ UNCHANGED <<refcount, safeMode, conn, data, pc, cur, tmp, faults, segvBlocked, freed>>

\* set_enable(): plugin_enable = on_off && pluggableAnalyzer != NULL.
SetEnable(b) ==
  /\ Running
  /\ pc["admin"] = "idle"
  /\ enable' = (b /\ plugin # 0)
  /\ UNCHANGED <<plugin, library, mapped, loads, refcount, autoUnload,
                 safeMode, conn, data, pc, cur, tmp, faults, segvBlocked, freed>>

SetSafeMode(b) ==
  /\ Running
  /\ pc["admin"] = "idle"
  /\ safeMode' = b
  /\ UNCHANGED <<plugin, library, mapped, loads, refcount, enable,
                 autoUnload, conn, data, pc, cur, tmp, faults, segvBlocked, freed>>

-----------------------------------------------------------------------------

\* init_packet_analyzer(): load-plugin-on-boot and enable-plugin-on-boot.
Init ==
  /\ \E booted, on \in BOOLEAN :
       /\ plugin = (IF booted THEN 1 ELSE 0)
       /\ library = plugin /\ loads = plugin
       /\ mapped = (IF booted THEN {1} ELSE {})
       /\ enable = (booted /\ on)
  /\ refcount = 0 /\ autoUnload = FALSE /\ safeMode = FALSE
  /\ conn = [c \in Conns |-> "new"] /\ data = [c \in Conns |-> 0]
  /\ pc = [t \in Threads |-> "idle"] /\ cur = [t \in Threads |-> NoConn]
  /\ tmp = [t \in Threads |-> 0] /\ faults = {}
  /\ segvBlocked = FALSE /\ freed = {}

\* An unguarded fault kills the process: nothing happens after it.
Next ==
  \/ \E c \in Conns : Accept(c) \/ AnalyzeBegin(c)
  \/ \E ok \in AllocResults : AllocCall(ok)
  \/ IncLoad \/ IncStore
  \/ \E pf \in BOOLEAN : AnalyzeCall(pf)
  \/ \E c \in Conns : Close(c) \/ ReapSelect(c)
  \/ ReapClose
  \/ \E t \in Threads : ReleaseCall(t) \/ DecLoad(t) \/ DecStore(t)
                        \/ UnloadCheck(t)
  \/ \E t \in Threads, ok \in CloseOutcomes : UnloadLib(t, ok)
  \/ UnloadCommand
  \/ \E o \in LoadOutcomes : Load(o)
  \/ \E b \in BOOLEAN : SetEnable(b) \/ SetSafeMode(b)

Spec == Init /\ [][Next]_vars

-----------------------------------------------------------------------------
(* Properties                                                              *)

Labels == {"idle", "alloc_call", "inc_load", "inc_store", "analyze_call",
           "reap_wait", "rel_call", "dec_load", "dec_store", "unload_check",
           "unload_lib"}

TypeOK ==
  /\ plugin \in Gen /\ library \in Gen /\ mapped \subseteq 1 .. MaxLoads
  /\ loads \in Gen
  /\ refcount \in -Cardinality(Conns) .. Cardinality(Conns)
  /\ enable \in BOOLEAN /\ autoUnload \in BOOLEAN /\ safeMode \in BOOLEAN
  /\ conn \in [Conns -> {"new", "open", "closed"}]
  /\ data \in [Conns -> Gen]
  /\ pc \in [Threads -> Labels]
  /\ cur \in [Threads -> Conns \cup {NoConn}]
  /\ faults \subseteq {"allocate", "analyze", "release", "guard"}
  /\ segvBlocked \in BOOLEAN /\ freed \subseteq Conns

\* Handles the plugin handed out that release() has not taken back: those
\* of open connections and the one a closer is about to release.
Outstanding ==
  {c \in Conns : /\ data[c] # 0 /\ c \notin freed
                 /\ \/ conn[c] = "open"
                    \/ \E t \in Threads : pc[t] = "rel_call" /\ cur[t] = c}

\* Spec 4.7, "outstanding handles are drained before the underlying library
\* is unloaded": every outstanding handle belongs to the analyzer that is
\* loaded now, and its library is still mapped.  It takes reference_count
\* to match the live handles when analyzer_release() tests it for zero.
HandlesOfLoadedAnalyzer ==
  \A c \in Outstanding : data[c] = plugin /\ plugin \in mapped

\* No thread calls allocate(), analyze() or release() through a NULL
\* pluggableAnalyzer, into a dlclose'd library, or with a handle of another
\* library, outside the SIGSEGV guard of safe mode.
NoUnsafeCall == faults \cap {"allocate", "analyze", "release"} = {}

\* Spec 4.7 and 9, "a faulting analyzer is disabled ... and continue": in
\* safe mode no SIGSEGV of the plugin kills the process, however many
\* times the operator reloads and re-enables an analyzer after a caught
\* fault.  try_catch() must leave the guard as it found it.
SafeModeContainsFaults == "guard" \notin faults

=============================================================================
