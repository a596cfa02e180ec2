----------------------------- MODULE DbService -----------------------------
(***************************************************************************)
(* The database service of src/src/db_service.c: the connection guarded  *)
(* by connection_mutex, the lazily prepared statement cache stmt_holder,  *)
(* the reconnect loops, close_idle() and db_service_done().               *)
(*                                                                         *)
(* Two threads use it.  The proxy thread runs check_available() on every  *)
(* accept, and connection_close() then done() from close_event().  The    *)
(* main thread runs close_idle() from cron and, when the reaper closes    *)
(* connections, connection_close() and done() as well.  Each section      *)
(* under connection_mutex is one step; the statement cache and the         *)
(* statements are used outside it, as in the code.                         *)
(* A connection is a generation number (0: disconnected); a statement is  *)
(* <<name, generation it was prepared on>>.                               *)
(***************************************************************************)
EXTENDS Integers, Sequences, FiniteSets

CONSTANTS
  MaxConnects,      \* bound on successful connects (generations)
  RetryLimit,       \* safe_reconnect_to_database gives up after this many
  CreateRetries,    \* create_statement gives up after this many tries
  ConnectOutcomes,  \* possible results of db->connect()
  PrepareOutcomes,  \* possible results of mysql_stmt_prepare()
  ExecOutcomes,     \* possible server results of a statement execution
  Reaping,          \* the reaper closes connections on the main thread
  Stalls,           \* a server round trip may outlast database_timeout
  ProxyOps          \* the database operations of the proxy thread

ASSUME /\ MaxConnects \in Nat \ {0}
       /\ RetryLimit \in Nat /\ CreateRetries \in Nat \ {0}
       /\ ConnectOutcomes \subseteq BOOLEAN /\ TRUE \in ConnectOutcomes
       /\ PrepareOutcomes \subseteq BOOLEAN /\ TRUE \in PrepareOutcomes
       /\ ExecOutcomes \subseteq BOOLEAN /\ TRUE \in ExecOutcomes
       /\ Reaping \in BOOLEAN /\ Stalls \in BOOLEAN

Threads == {"proxy", "main"}
\* check_available() reconnects on an execution error; the others ignore it.
\* Besides the connection accounting, the proxy thread runs the policy
\* queries of accepting_request(), reload_product_names() when it starts,
\* and the plug-in's add_kms_details() and update_machine_owner() (with an
\* account, or without one) from analyze() on a relayed packet.
Ops == {"check", "close", "established", "not_allowed", "blacklisted", "vip",
        "add_blacklist", "guess", "product_names", "kms_details",
        "owner_add", "owner_update"}
ASSUME ProxyOps \subseteq Ops
\* The statements each operation retrieves and executes, in order;
\* connection_established() stops at the first it cannot prepare.
StmtsOf(o) ==
  CASE o = "check"         -> <<"SQL_CHECK_AVAILABLE">>
    [] o = "close"         -> <<"SQL_CONNECTION_CLOSE">>
    [] o = "established"   -> <<"SQL_CONNECTION_ESTABLISHED",
                                "SQL_CONNECTION_BEGIN", "SQL_LAST_INSERT_ID">>
    [] o = "not_allowed"   -> <<"SQL_CONNECTION_NOT_ALLOWED">>
    [] o = "blacklisted"   -> <<"SQL_BLACKLIST">>
    [] o = "vip"           -> <<"SQL_CHECK_VIP">>
    [] o = "add_blacklist" -> <<"SQL_ADD_TO_BLACKLIST">>
    [] o = "guess"         -> <<"SQL_CALL_FAILURE_GUESSING">>
    [] o = "product_names" -> <<"SQL_ALL_PRODUCT_NAMES">>
    [] o = "kms_details"   -> <<"SQL_ADD_DETAILS">>
    [] o = "owner_add"     -> <<"SQL_ADD_MACHINE_OWNER">>
    [] o = "owner_update"  -> <<"SQL_UPDATE_MACHINE_ACCESS">>
Gen == 0 .. MaxConnects
NoStmt == <<"none", 0>>
\* The database operations each thread issues: the proxy thread those of
\* accepting_request() and close_event() in ProxyOps, the main thread
\* connection_close() when the reaper runs.
OpsOf(t) == IF t = "proxy" THEN ProxyOps
            ELSE IF Reaping THEN {"close"} ELSE {}
\* The stmt_holder entries the operations use.
Stmts == UNION {{StmtsOf(o)[i] : i \in DOMAIN StmtsOf(o)} :
                o \in OpsOf("proxy") \cup OpsOf("main")}

VARIABLES
  link,       \* connected, and the generation of db_data's MYSQL handle
  gens,       \* generations used so far
  cache,      \* stmt_holder[i].stmt: generation it was prepared on, or 0
  closed,     \* statements closed by close_all_statements()
  recentUse,  \* recent_use_time is within the 300 s database_timeout
  aged,       \* connection_time is older than max-db-connection-time
  pc, op, k, st, tries, rtries, ret,  \* per thread; k indexes StmtsOf(op)
  gaveUp,     \* some try_reconnect() returned still disconnected
  faults      \* "use_after_close" once a closed statement is used

vars == <<link, gens, cache, closed, recentUse, aged, pc, op, k, st, tries,
          rtries, ret, gaveUp, faults>>

\* A use of a closed statement is a use after free: the process is gone.
Running == faults = {}

Goto(t, l) == pc' = [pc EXCEPT ![t] = l]

\* The statement thread t's operation retrieves next.
CurStmt(t) == StmtsOf(op[t])[k[t]]

\* Where an operation goes when it ends: close_event() calls done().
After(o) == IF o = "close" THEN "done" ELSE "idle"

-----------------------------------------------------------------------------
(* The MySQL driver (db_mysql.c) under db->connect, db->disconnect,       *)
(* db->createStatement, stmt->execute* and stmt->close                    *)

\* dbmysql_connect(): mysql_init() and mysql_real_connect() on the MYSQL
\* embedded in the driver data; a connection is a new handle generation.
DbmysqlConnect == link' = gens + 1 /\ gens' = gens + 1

\* dbmysql_disconnect(): mysql_close() of the handle, connected = false.
DbmysqlDisconnect == link' = 0

\* dbmysql_stmt_close(): mysql_stmt_close() and free() of the statements
\* named by S; a closed statement stays in closed.
DbmysqlStmtClose(S) == closed' = closed \cup {<<s, cache[s]>> : s \in S}

\* dbmysql_createStatement(): mysql_stmt_init() and mysql_stmt_prepare()
\* need an open handle; the server may refuse either.
DbmysqlCreateStatement(ok) == link # 0 /\ ok

\* dbmysql_local_execute(): mysql_close() detaches the statements of the
\* handle it closes, so mysql_stmt_execute() of a statement prepared on an
\* earlier handle fails; the server may fail any execution.
DbmysqlLocalExecute(stmt, ok) == stmt[2] = link /\ ok

-----------------------------------------------------------------------------

\* connect_to_database(): db->connect() when disconnected, under
\* connection_mutex; a connection gets a fresh connection_time.
Connected(ok) ==
  IF link = 0 /\ ok /\ gens < MaxConnects
    THEN DbmysqlConnect /\ aged' = FALSE
    ELSE UNCHANGED <<link, gens, aged>>

\* close_all_statements(), db->disconnect(), connected = false.
CloseAll ==
  /\ DbmysqlStmtClose({x \in Stmts : cache[x] # 0})
  /\ cache' = [s \in Stmts |-> 0]
  /\ DbmysqlDisconnect

-----------------------------------------------------------------------------
(* A database operation of a thread                                       *)

\* worker_mutex (proxying.c): accepting_request() (534-725), the relay
\* handlers (506-516) and the reaper's detach/close_event()/done() section
\* (273-288) hold it, so an operation begins only while the other thread
\* is outside its own.  close_idle() does not take it.
WorkerMutexFree(t) == \A u \in Threads \ {t} : pc[u] = "idle"

\* connect_to_database(false) at the start of the operation.
Begin(t, o, ok) ==
  /\ Running
  /\ pc[t] = "idle" /\ o \in OpsOf(t)
  /\ WorkerMutexFree(t)
  /\ Connected(ok)
  /\ recentUse' = TRUE
  /\ op' = [op EXCEPT ![t] = o]
  /\ k' = [k EXCEPT ![t] = 1]
  /\ tries' = [tries EXCEPT ![t] = 0]
  /\ Goto(t, IF link' # 0 THEN "retrieve" ELSE After(o))
  /\ UNCHANGED <<cache, closed, st, rtries, ret, gaveUp, faults>>

\* retrieve_statement(): clearParameters() on the cached statement, or
\* create_statement() when there is none.
Retrieve(t) ==
  LET s == CurStmt(t) IN
  /\ Running
  /\ pc[t] = "retrieve"
  /\ IF cache[s] # 0
       THEN /\ st' = [st EXCEPT ![t] = <<s, cache[s]>>]
            /\ Goto(t, "execute")
       ELSE /\ Goto(t, "create") /\ UNCHANGED st
  /\ UNCHANGED <<link, gens, cache, closed, recentUse, aged, op, k, tries,
                 rtries, ret, gaveUp, faults>>

\* Mutant: create_statement() loops while tried <= CreateRetries.
CreateRetryOffByOne(t, ok) ==
  LET s == CurStmt(t) IN
  /\ Running
  /\ pc[t] = "create"
  /\ IF DbmysqlCreateStatement(ok)
       THEN /\ cache' = [cache EXCEPT ![s] = link]
            /\ st' = [st EXCEPT ![t] = <<s, link>>]
            /\ Goto(t, "execute")
            /\ UNCHANGED <<tries, rtries, ret>>
       ELSE /\ tries' = [tries EXCEPT ![t] = @ + 1]
            /\ rtries' = [rtries EXCEPT ![t] = 0]
            /\ ret' = [ret EXCEPT ![t] = IF tries[t] + 1 <= CreateRetries
                                           THEN "create" ELSE "give_up"]
            /\ Goto(t, "rc_disconnect")
            /\ UNCHANGED <<cache, st>>
  /\ UNCHANGED <<link, gens, closed, recentUse, aged, op, k, gaveUp, faults>>

\* One pass of create_statement()'s loop: prepare on the current handle;
\* on failure try_reconnect() and loop while tried < CreateRetries; the
\* result, a statement or NULL, is stored in stmt_holder.
Create(t, ok) ==
  LET s == CurStmt(t) IN
  /\ Running
  /\ pc[t] = "create"
  /\ IF DbmysqlCreateStatement(ok)
       THEN /\ cache' = [cache EXCEPT ![s] = link]
            /\ st' = [st EXCEPT ![t] = <<s, link>>]
            /\ Goto(t, "execute")
            /\ UNCHANGED <<tries, rtries, ret>>
       ELSE /\ tries' = [tries EXCEPT ![t] = @ + 1]
            /\ rtries' = [rtries EXCEPT ![t] = 0]
            /\ ret' = [ret EXCEPT ![t] = IF tries[t] + 1 < CreateRetries
                                           THEN "create" ELSE "give_up"]
            /\ Goto(t, "rc_disconnect")
            /\ UNCHANGED <<cache, st>>
  /\ UNCHANGED <<link, gens, closed, recentUse, aged, op, k, gaveUp, faults>>

\* create_statement() returned NULL: the cached entry is set to NULL and
\* the operation does nothing more.
GiveUpCreate(t) ==
  /\ Running
  /\ pc[t] = "give_up"
  /\ cache' = [cache EXCEPT ![CurStmt(t)] = 0]
  /\ Goto(t, After(op[t]))
  /\ UNCHANGED <<link, gens, closed, recentUse, aged, op, k, st, tries, rtries,
                 ret, gaveUp, faults>>

\* executeQuery()/executeUpdate() on the statement retrieved: a statement
\* of a closed connection fails; the server may fail any execution.  On a
\* failure check_available() calls try_reconnect(); the other operations
\* ignore it, and connection_established() goes on to retrieve its next
\* statement.  close_event() calls done() after connection_close().
Execute(t, ok) ==
  LET success == DbmysqlLocalExecute(st[t], ok) IN
  /\ Running
  /\ pc[t] = "execute"
  /\ faults' = IF st[t] \in closed THEN {"use_after_close"} ELSE faults
  /\ IF op[t] = "check" /\ ~success
       THEN /\ ret' = [ret EXCEPT ![t] = "idle"]
            /\ rtries' = [rtries EXCEPT ![t] = 0]
            /\ Goto(t, "rc_disconnect")
            /\ UNCHANGED <<k, tries>>
       ELSE /\ IF k[t] < Len(StmtsOf(op[t]))
                    THEN /\ k' = [k EXCEPT ![t] = @ + 1]
                         /\ tries' = [tries EXCEPT ![t] = 0]
                         /\ Goto(t, "retrieve")
                    ELSE /\ Goto(t, After(op[t]))
                         /\ UNCHANGED <<k, tries>>
            /\ UNCHANGED <<ret, rtries>>
  /\ st' = [st EXCEPT ![t] = NoStmt]
  /\ UNCHANGED <<link, gens, cache, closed, recentUse, aged, op, gaveUp>>

-----------------------------------------------------------------------------
(* try_reconnect(): safe_reconnect_to_database() looping over            *)
(* reconnect_to_database() until connected or RetryLimit attempts failed   *)

\* Under connection_mutex: db->disconnect(), connected = false.  The
\* statement cache is left as it is.
ReconnectDisconnect(t) ==
  /\ Running
  /\ pc[t] = "rc_disconnect"
  /\ DbmysqlDisconnect
  /\ Goto(t, "rc_connect")
  /\ UNCHANGED <<gens, cache, closed, recentUse, aged, op, k, st, tries, rtries,
                 ret, gaveUp, faults>>

\* Mutant: the reconnect loop does not count its attempts.
ReconnectConnectNoCount(t, ok) ==
  /\ Running
  /\ pc[t] = "rc_connect"
  /\ Connected(ok)
  /\ recentUse' = TRUE
  /\ IF link' # 0 \/ rtries[t] + 1 > RetryLimit
       THEN /\ Goto(t, ret[t])
            /\ gaveUp' = (gaveUp \/ link' = 0)
       ELSE /\ Goto(t, "rc_disconnect") /\ UNCHANGED gaveUp
  /\ UNCHANGED <<cache, closed, op, k, st, tries, ret, faults, rtries>>

\* connect_to_database(true); on failure sleep and loop, or give up.
ReconnectConnect(t, ok) ==
  /\ Running
  /\ pc[t] = "rc_connect"
  /\ Connected(ok)
  /\ recentUse' = TRUE
  /\ rtries' = [rtries EXCEPT ![t] = @ + 1]
  /\ IF link' # 0 \/ rtries[t] + 1 > RetryLimit
       THEN /\ Goto(t, ret[t])
            /\ gaveUp' = (gaveUp \/ link' = 0)
       ELSE /\ Goto(t, "rc_disconnect") /\ UNCHANGED gaveUp
  /\ UNCHANGED <<cache, closed, op, k, st, tries, ret, faults>>

\* close_event() of a connection with no database record: no
\* connection_close(), straight to db_service_done().
CloseEventNoRecord(t) ==
  /\ Running
  /\ pc[t] = "idle" /\ "close" \in OpsOf(t)
  /\ WorkerMutexFree(t)
  /\ Goto(t, "done")
  /\ UNCHANGED <<link, gens, cache, closed, recentUse, aged, op, k, st, tries,
                 rtries, ret, gaveUp, faults>>

\* db_service_done(): past max-db-connection-time, close everything.
Done(t) ==
  /\ Running
  /\ pc[t] = "done"
  /\ IF link # 0 /\ aged THEN CloseAll ELSE UNCHANGED <<cache, closed, link>>
  /\ Goto(t, "idle")
  /\ UNCHANGED <<gens, recentUse, aged, op, k, st, tries, rtries, ret, gaveUp,
                 faults>>

\* close_idle() from cron on the main thread.
CloseIdle ==
  /\ Running
  /\ pc["main"] = "idle"
  /\ IF link # 0 /\ ~recentUse THEN CloseAll
                                ELSE UNCHANGED <<cache, closed, link>>
  /\ UNCHANGED <<gens, recentUse, aged, pc, op, k, st, tries, rtries, ret,
                 gaveUp, faults>>

-----------------------------------------------------------------------------
(* Time                                                                    *)

\* 300 s pass since the last connect_to_database().  recent_use_time is
\* set there and in every reconnect, and a retry sleeps 10 s at a time, so
\* an operation in flight outlasts it only inside one server round trip:
\* dbmysql_connect() sets no read timeout (db_mysql.c 117-152), and with
\* Stalls a mysql_stmt_prepare() or mysql_stmt_execute() may block that
\* long, the statement retrieved but not yet released.
IdleTimeout ==
  /\ Running
  /\ recentUse
  /\ \A t \in Threads : pc[t] = "idle" \/ (Stalls /\ pc[t] \in {"create", "execute"})
  /\ recentUse' = FALSE
  /\ UNCHANGED <<link, gens, cache, closed, aged, pc, op, k, st, tries, rtries,
                 ret, gaveUp, faults>>

\* The connection reaches max-db-connection-time.
AgeOut ==
  /\ Running
  /\ link # 0 /\ ~aged
  /\ aged' = TRUE
  /\ UNCHANGED <<link, gens, cache, closed, recentUse, pc, op, k, st, tries,
                 rtries, ret, gaveUp, faults>>

-----------------------------------------------------------------------------

\* new_database_service() with enable-database set: disconnected, nothing
\* prepared.
Init ==
  /\ link = 0 /\ gens = 0
  /\ cache = [s \in Stmts |-> 0] /\ closed = {}
  /\ recentUse = FALSE /\ aged = FALSE
  /\ pc = [t \in Threads |-> "idle"] /\ op = [t \in Threads |-> "check"]
  /\ k = [t \in Threads |-> 1]
  /\ st = [t \in Threads |-> NoStmt]
  /\ tries = [t \in Threads |-> 0] /\ rtries = [t \in Threads |-> 0]
  /\ ret = [t \in Threads |-> "idle"]
  /\ gaveUp = FALSE /\ faults = {}

Next ==
  \/ \E t \in Threads, o \in Ops, ok \in ConnectOutcomes : Begin(t, o, ok)
  \/ \E t \in Threads : Retrieve(t) \/ GiveUpCreate(t) \/ Done(t)
                        \/ ReconnectDisconnect(t) \/ CloseEventNoRecord(t)
  \/ \E t \in Threads, ok \in PrepareOutcomes : Create(t, ok)
  \/ \E t \in Threads, ok \in ExecOutcomes : Execute(t, ok)
  \/ \E t \in Threads, ok \in ConnectOutcomes : ReconnectConnect(t, ok)
  \/ CloseIdle \/ IdleTimeout \/ AgeOut

Spec == Init /\ [][Next]_vars

\* The steps of an operation thread t has begun.
Step(t) ==
  \/ Retrieve(t) \/ GiveUpCreate(t) \/ Done(t) \/ ReconnectDisconnect(t)
  \/ \E ok \in PrepareOutcomes : Create(t, ok)
  \/ \E ok \in ExecOutcomes : Execute(t, ok)
  \/ \E ok \in ConnectOutcomes : ReconnectConnect(t, ok)

\* Both threads are OS threads that are scheduled, and connection_mutex is
\* held only for one step of the other thread, so a thread inside an
\* operation keeps moving.  The server's answers stay arbitrary, and
\* nothing forces a thread to begin an operation or time to pass.
FairSpec == Spec /\ \A t \in Threads : WF_vars(Step(t))

-----------------------------------------------------------------------------
(* Properties                                                              *)

Labels == {"idle", "retrieve", "create", "give_up", "execute",
           "rc_disconnect", "rc_connect", "done"}

TypeOK ==
  /\ link \in Gen /\ gens \in Gen
  /\ cache \in [Stmts -> Gen]
  /\ closed \subseteq Stmts \X (1 .. MaxConnects)
  /\ recentUse \in BOOLEAN /\ aged \in BOOLEAN
  /\ pc \in [Threads -> Labels] /\ op \in [Threads -> Ops]
  /\ k \in [Threads -> 1 .. 3]
  /\ st \in [Threads -> (Stmts \X (1 .. MaxConnects)) \cup {NoStmt}]
  /\ tries \in [Threads -> 0 .. CreateRetries]
  /\ rtries \in [Threads -> 0 .. RetryLimit + 1]
  /\ ret \in [Threads -> {"idle", "create", "give_up"}]
  /\ gaveUp \in BOOLEAN /\ faults \subseteq {"use_after_close"}

\* Spec 4.3 and 5, "one connection mutex around every call that touches
\* the SQL client or the statement cache": no thread executes a statement
\* that close_all_statements() (close_idle() or done(), possibly on the
\* other thread) has closed.
NoUseAfterClose == faults = {}

\* A cached prepared statement belongs to the live connection: every
\* statement in stmt_holder was prepared on the MYSQL handle now
\* connected, so using it can succeed.
CacheMatchesConnection ==
  link # 0 => \A s \in Stmts : cache[s] \in {0, link}

\* Every database call of the proxy and main threads returns, even with the
\* server refusing every connect, prepare and execution: create_statement()
\* and safe_reconnect_to_database() give up after their retry limits, so
\* the event loop is never stuck inside the database service.
OperationsComplete == \A t \in Threads : pc[t] # "idle" ~> pc[t] = "idle"

\* Spec 4.3 and 7, "exhausted retry is fatal with code 139": try_reconnect()
\* never returns with the database still disconnected.
ReconnectExhaustionFatal == ~gaveUp

=============================================================================
