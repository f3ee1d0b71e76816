------------------------------- MODULE Reload -------------------------------
(***************************************************************************)
(* The serving process of rel: requests going through                      *)
(* boot.ReloadableHandler, the SIGUSR1 goroutine running boot.Reloader,    *)
(* the main goroutine that shuts the process down, and the connection pool *)
(* the three share.                                                        *)
(*                                                                         *)
(* A snapshot is the pair of what it was built from: the introspection of  *)
(* the database (db, a schema version) and the files on disk (files, a     *)
(* version of the well-known queries and templates).                       *)
(***************************************************************************)
EXTENDS Naturals

CONSTANTS Requests,   \* HTTP requests; one that ended may come again as another
          Conns,      \* the slots of the connection pool (pg.pool_size)
          NoConn,     \* no connection
          MaxSchema,  \* bound: schema versions run over 1..MaxSchema
          MaxFiles    \* bound: file versions run over 0..MaxFiles

ASSUME ReloadAssumption == /\ NoConn \notin Conns
                           /\ MaxSchema \in Nat \ {0}
                           /\ MaxFiles \in Nat

VARIABLES
  \* boot.ReloadableHandler
  maintenance,  \* the 503 switch, guarded by mu with inflight
  inflight,     \* the requests registered for cancellation
  wg,           \* the WaitGroup: the requests that called Add and not yet Done
  inner,        \* the snapshot whose handler is the current pointer
  \* the requests
  reqPc,        \* where each one is in ServeHTTP and its inner handler
  view,         \* the snapshot whose handler it was dispatched to
  held,         \* the connection it holds
  cancelled,    \* the requests whose context Drain cancelled
  \* the pool
  connState,    \* of each slot: "closed", "idle" or "busy"
  doomed,       \* busy connections that a Reset destroys at their release
  scratch,      \* schema the temp tables of the connection are shaped like, 0 for none
  poolClosed,
  \* the SIGUSR1 goroutine
  rlPc, sigPending, sigClosed,
  rlDb,         \* Reloader.db
  newDb,        \* db of the running Reload
  newSnap,      \* the snapshot Build returned
  outcome,      \* how reload.cmd and the reintrospection went
  \* the main goroutine
  mainPc,
  \* outside the process
  schema,       \* the schema version of the database
  files,        \* the version of the files on disk
  helper,       \* the snapshot typescript.helper_path was generated from, whole or cut short
  \* observation only
  requested,    \* files version when the last SIGUSR1 was sent
  attempted     \* files version when the last Reload began

handlerVars == <<maintenance, inflight, wg, inner>>
reqVars     == <<reqPc, view, held, cancelled>>
poolVars    == <<connState, doomed, scratch, poolClosed>>
localVars   == <<rlDb, newDb, newSnap, outcome>>
reloadVars  == <<rlPc, sigPending, sigClosed, rlDb, newDb, newSnap, outcome>>
outsideVars == <<schema, files, helper>>
ghostVars   == <<requested, attempted>>

vars == <<handlerVars, reqVars, poolVars, reloadVars, mainPc, outsideVars, ghostVars>>

Snapshots == [db : 1..MaxSchema, files : 0..MaxFiles]

\* The handler of the request is running.
Handling == {"serving", "writing"}

\* Process start (boot.Start): the first snapshot is built and served before
\* the listener opens; the helper file was written from it.
Init ==
  /\ maintenance = FALSE
  /\ inflight = {}
  /\ wg = {}
  /\ inner = [db |-> 1, files |-> 0]
  /\ reqPc = [r \in Requests |-> "none"]
  /\ view = [r \in Requests |-> inner]
  /\ held = [r \in Requests |-> NoConn]
  /\ cancelled = {}
  /\ connState = [c \in Conns |-> "closed"]
  /\ doomed = {}
  /\ scratch = [c \in Conns |-> 0]
  /\ poolClosed = FALSE
  /\ rlPc = "idle"
  /\ sigPending = FALSE
  /\ sigClosed = FALSE
  /\ rlDb = 1
  /\ newDb = 1
  /\ newSnap = inner
  /\ outcome = "ok"
  /\ mainPc = "serving"
  /\ schema = 1
  /\ files = 0
  /\ helper = inner
  /\ requested = 0
  /\ attempted = 0

-----------------------------------------------------------------------------
(* A request: ServeHTTP and the handler it dispatches to.                  *)

\* ServeHTTP during maintenance: the fixed 503 page. (Requests can come as long
\* as the process lives: a connection accepted before the shutdown, or kept
\* open when ListenAndServe failed, may still bring one.)
Refuse(r) ==
  /\ reqPc[r] = "none"
  /\ maintenance
  /\ reqPc' = [reqPc EXCEPT ![r] = "refused"]
  /\ UNCHANGED <<handlerVars, view, held, cancelled, poolVars, reloadVars, mainPc, outsideVars, ghostVars>>

Recycle(r) ==
  /\ reqPc[r] = "refused"
  /\ reqPc' = [reqPc EXCEPT ![r] = "none"]
  /\ UNCHANGED <<handlerVars, view, held, cancelled, poolVars, reloadVars, mainPc, outsideVars, ghostVars>>

\* ServeHTTP outside maintenance, up to the unlock: the request enters the
\* in-flight map and the WaitGroup in the section that checked the switch.
Register(r) ==
  /\ reqPc[r] = "none"
  /\ ~maintenance
  /\ inflight' = inflight \cup {r}
  /\ wg' = wg \cup {r}
  /\ reqPc' = [reqPc EXCEPT ![r] = "registered"]
  /\ UNCHANGED <<maintenance, inner, view, held, cancelled, poolVars, reloadVars, mainPc, outsideVars, ghostVars>>

\* The pointer is loaded after the unlock; the handler then runs.
LoadInner(r) ==
  /\ reqPc[r] = "registered"
  /\ view' = [view EXCEPT ![r] = inner]
  /\ reqPc' = [reqPc EXCEPT ![r] = "serving"]
  /\ UNCHANGED <<handlerVars, held, cancelled, poolVars, reloadVars, mainPc, outsideVars, ghostVars>>

\* Pool.Acquire: an idle connection, or a new one in a free slot. It fails
\* on a cancelled context and on a closed pool, and the handler then returns.
Acquire(r, c) ==
  /\ reqPc[r] = "serving"
  /\ held[r] = NoConn
  /\ r \notin cancelled
  /\ ~poolClosed
  /\ \/ connState[c] = "idle"
     \/ connState[c] = "closed" /\ \A d \in Conns : connState[d] # "idle"
  /\ connState' = [connState EXCEPT ![c] = "busy"]
  /\ held' = [held EXCEPT ![r] = c]
  /\ UNCHANGED <<handlerVars, reqPc, view, cancelled, doomed, scratch, poolClosed, reloadVars, mainPc, outsideVars, ghostVars>>

\* A write: the connection's temp tables are created on first use, in the
\* shape the request's snapshot knows, and taken as they are afterwards.
PrepareWrite(r) ==
  /\ reqPc[r] = "serving"
  /\ held[r] # NoConn
  /\ r \notin cancelled
  /\ scratch' = [scratch EXCEPT ![held[r]] = IF @ = 0 THEN view[r].db ELSE @]
  /\ reqPc' = [reqPc EXCEPT ![r] = "writing"]
  /\ UNCHANGED <<handlerVars, view, held, cancelled, connState, doomed, poolClosed, reloadVars, mainPc, outsideVars, ghostVars>>

\* conn.Release: a connection a Reset or a Close met busy is destroyed, and
\* so is one that broke (pgx closes it when a cancelled context cuts a query).
Release(r) ==
  /\ reqPc[r] \in Handling
  /\ held[r] # NoConn
  /\ \E destroyed \in BOOLEAN :
       /\ held[r] \in doomed \/ poolClosed => destroyed
       /\ connState' = [connState EXCEPT ![held[r]] = IF destroyed THEN "closed" ELSE "idle"]
       /\ scratch' = [scratch EXCEPT ![held[r]] = IF destroyed THEN 0 ELSE @]
       /\ doomed' = doomed \ {held[r]}
  /\ held' = [held EXCEPT ![r] = NoConn]
  /\ reqPc' = [reqPc EXCEPT ![r] = "serving"]
  /\ UNCHANGED <<handlerVars, view, cancelled, poolClosed, reloadVars, mainPc, outsideVars, ghostVars>>

\* The inner handler returns.
Return(r) ==
  /\ reqPc[r] = "serving"
  /\ held[r] = NoConn
  /\ reqPc' = [reqPc EXCEPT ![r] = "returned"]
  /\ UNCHANGED <<handlerVars, view, held, cancelled, poolVars, reloadVars, mainPc, outsideVars, ghostVars>>

\* The deferred function: out of the map under mu, then wg.Done and cancel.
Deregister(r) ==
  /\ reqPc[r] = "returned"
  /\ inflight' = inflight \ {r}
  /\ reqPc' = [reqPc EXCEPT ![r] = "deregistered"]
  /\ UNCHANGED <<maintenance, wg, inner, view, held, cancelled, poolVars, reloadVars, mainPc, outsideVars, ghostVars>>

WgDone(r) ==
  /\ reqPc[r] = "deregistered"
  /\ wg' = wg \ {r}
  /\ cancelled' = cancelled \ {r}
  /\ reqPc' = [reqPc EXCEPT ![r] = "none"]
  /\ UNCHANGED <<maintenance, inflight, inner, view, held, poolVars, reloadVars, mainPc, outsideVars, ghostVars>>

\* A handler whose context was cancelled unwinds.
Unwind(r) == r \in cancelled /\ (Release(r) \/ Return(r))

ServeHTTP(r) ==
  \/ Refuse(r) \/ Recycle(r) \/ Register(r) \/ LoadInner(r)
  \/ \E c \in Conns : Acquire(r, c)
  \/ PrepareWrite(r) \/ Release(r) \/ Return(r)
  \/ Deregister(r) \/ WgDone(r)

-----------------------------------------------------------------------------
(* The SIGUSR1 goroutine: for range sigusr1 { Reload }.                    *)

\* Mutant of Signal: an unbuffered channel, so a signal that finds the
\* goroutine busy is lost.
SignalUnbuffered ==
  /\ ~sigClosed
  /\ sigPending' = (sigPending \/ rlPc = "idle")
  /\ requested' = files
  /\ UNCHANGED <<handlerVars, reqVars, poolVars, rlPc, sigClosed, localVars, mainPc, outsideVars, attempted>>

\* signal.Notify delivers into a channel of capacity 1: a signal that finds
\* it full is dropped. The operator may have edited the files before.
Signal ==
  /\ ~sigClosed
  /\ sigPending' = TRUE
  /\ requested' = files
  /\ UNCHANGED <<handlerVars, reqVars, poolVars, rlPc, sigClosed, localVars, mainPc, outsideVars, attempted>>

EditFiles ==
  /\ files < MaxFiles
  /\ files' = files + 1
  /\ UNCHANGED <<handlerVars, reqVars, poolVars, reloadVars, mainPc, schema, helper, ghostVars>>

ReceiveSignal ==
  /\ rlPc = "idle"
  /\ sigPending
  /\ sigPending' = FALSE
  /\ rlPc' = "begin"
  /\ attempted' = files
  /\ UNCHANGED <<handlerVars, reqVars, poolVars, sigClosed, localVars, mainPc, outsideVars, requested>>

\* The range loop ends once the channel is closed and drained.
ReloaderExit ==
  /\ rlPc = "idle"
  /\ ~sigPending
  /\ sigClosed
  /\ rlPc' = "exited"
  /\ UNCHANGED <<handlerVars, reqVars, poolVars, sigPending, sigClosed, localVars, mainPc, outsideVars, ghostVars>>

\* Mutant of BeginMaintenance: the switch is forgotten.
BeginMaintenanceNoSwitch ==
  /\ rlPc = "begin"
  /\ rlPc' = "drain"
  /\ UNCHANGED <<handlerVars, reqVars, poolVars, sigPending, sigClosed, localVars, mainPc, outsideVars, ghostVars>>

BeginMaintenance ==
  /\ rlPc = "begin"
  /\ maintenance' = TRUE
  /\ rlPc' = "drain"
  /\ UNCHANGED <<inflight, wg, inner, reqVars, poolVars, sigPending, sigClosed, localVars, mainPc, outsideVars, ghostVars>>

\* Drain: the WaitGroup reached zero before the timeout, ...
DrainDone ==
  /\ rlPc = "drain"
  /\ wg = {}
  /\ rlPc' = "cmd"
  /\ UNCHANGED <<handlerVars, reqVars, poolVars, sigPending, sigClosed, localVars, mainPc, outsideVars, ghostVars>>

\* Mutant of DrainTimeout: waits on without cancelling anything.
DrainTimeoutNoCancel ==
  /\ rlPc = "drain"
  /\ rlPc' = "drainWait"
  /\ UNCHANGED <<handlerVars, reqVars, poolVars, sigPending, sigClosed, localVars, mainPc, outsideVars, ghostVars>>

\* ... or the timeout fired and every registered request is cancelled, ...
DrainTimeout ==
  /\ rlPc = "drain"
  /\ cancelled' = cancelled \cup inflight
  /\ rlPc' = "drainWait"
  /\ UNCHANGED <<handlerVars, reqPc, view, held, poolVars, sigPending, sigClosed, localVars, mainPc, outsideVars, ghostVars>>

\* Mutant of DrainWait: goes on as soon as the contexts are cancelled.
DrainWaitUnguarded ==
  /\ rlPc = "drainWait"
  /\ rlPc' = "cmd"
  /\ UNCHANGED <<handlerVars, reqVars, poolVars, sigPending, sigClosed, localVars, mainPc, outsideVars, ghostVars>>

\* ... and the wait goes on, unbounded.
DrainWait ==
  /\ rlPc = "drainWait"
  /\ wg = {}
  /\ rlPc' = "cmd"
  /\ UNCHANGED <<handlerVars, reqVars, poolVars, sigPending, sigClosed, localVars, mainPc, outsideVars, ghostVars>>

\* reloadcmd.Run: the migration may change the schema whether it succeeds or
\* fails (dmut may succeed and reload.cmd fail). db starts as the old one.
RunCmd ==
  /\ rlPc = "cmd"
  /\ schema' \in {schema, schema + 1} \cap 1..MaxSchema
  /\ newDb' = rlDb
  /\ \/ rlPc' = "introspect" /\ outcome' = "ok"
     \/ rlPc' = "build" /\ outcome' = "cmdFailed"
  /\ UNCHANGED <<handlerVars, reqVars, poolVars, sigPending, sigClosed, rlDb, newSnap, mainPc, files, helper, ghostVars>>

\* pgxpool.Reset (external): idle connections are closed at once, with their
\* temp tables, busy ones when they are released.
ResetPool ==
  /\ doomed' = {c \in Conns : connState[c] = "busy"}
  /\ connState' = [c \in Conns |-> IF connState[c] = "busy" THEN "busy" ELSE "closed"]
  /\ scratch' = [c \in Conns |-> IF connState[c] = "busy" THEN scratch[c] ELSE 0]
  /\ UNCHANGED poolClosed

\* Mutant of ReIntrospect: the error is logged and the nil db used (0).
ReIntrospectIgnoresError ==
  /\ rlPc = "introspect"
  /\ rlPc' = "build"
  /\ \/ newDb' = schema /\ ResetPool /\ UNCHANGED outcome
     \/ newDb' = 0 /\ outcome' = "introspectFailed" /\ UNCHANGED poolVars
  /\ UNCHANGED <<handlerVars, reqVars, sigPending, sigClosed, rlDb, newSnap, mainPc, outsideVars, ghostVars>>

\* Mutant of ReIntrospect: rl.db is already replaced here, so that a failed
\* Build leaves the old snapshot serving and the new db for the next Reload.
ReIntrospectEarlyDb ==
  /\ rlPc = "introspect"
  /\ rlPc' = "build"
  /\ \/ newDb' = schema /\ rlDb' = schema /\ ResetPool /\ UNCHANGED outcome
     \/ outcome' = "introspectFailed" /\ UNCHANGED <<newDb, rlDb, poolVars>>
  /\ UNCHANGED <<handlerVars, reqVars, sigPending, sigClosed, newSnap, mainPc, outsideVars, ghostVars>>

\* pg.ReIntrospect, and the branch of Reload on its error.
ReIntrospect ==
  /\ rlPc = "introspect"
  /\ rlPc' = "build"
  /\ \/ newDb' = schema /\ ResetPool /\ UNCHANGED outcome
     \/ outcome' = "introspectFailed" /\ UNCHANGED <<newDb, poolVars>>
  /\ UNCHANGED <<handlerVars, reqVars, sigPending, sigClosed, rlDb, newSnap, mainPc, outsideVars, ghostVars>>

\* Mutant of Build: the TypeScript helper is written as part of the build.
BuildWritesHelper ==
  /\ rlPc = "build"
  /\ \/ /\ newSnap' = [db |-> newDb, files |-> files]
        /\ helper' = newSnap'
        /\ rlPc' = "swap"
     \/ rlPc' = "end" /\ UNCHANGED <<newSnap, helper>>
  /\ UNCHANGED <<handlerVars, reqVars, poolVars, sigPending, sigClosed, rlDb, newDb, outcome, mainPc, schema, files, ghostVars>>

\* Build runs in every case, against db; its failure ends the Reload.
Build ==
  /\ rlPc = "build"
  /\ \/ newSnap' = [db |-> newDb, files |-> files] /\ rlPc' = "swap"
     \/ rlPc' = "end" /\ UNCHANGED newSnap
  /\ UNCHANGED <<handlerVars, reqVars, poolVars, sigPending, sigClosed, rlDb, newDb, outcome, mainPc, outsideVars, ghostVars>>

Swap ==
  /\ rlPc = "swap"
  /\ inner' = newSnap
  /\ rlPc' = "setDb"
  /\ UNCHANGED <<maintenance, inflight, wg, reqVars, poolVars, sigPending, sigClosed, localVars, mainPc, outsideVars, ghostVars>>

SetDb ==
  /\ rlPc = "setDb"
  /\ rlDb' = newDb
  /\ rlPc' = "helper"
  /\ UNCHANGED <<handlerVars, reqVars, poolVars, sigPending, sigClosed, newDb, newSnap, outcome, mainPc, outsideVars, ghostVars>>

\* WriteTypeScriptHelper: a failure is logged; the file is then untouched, or
\* truncated, holding nothing but what the new snapshot put there.
WriteTypeScriptHelper ==
  /\ rlPc = "helper"
  /\ helper' \in {newSnap, helper}
  /\ rlPc' = "end"
  /\ UNCHANGED <<handlerVars, reqVars, poolVars, sigPending, sigClosed, localVars, mainPc, schema, files, ghostVars>>

\* The deferred EndMaintenance, on every path.
EndMaintenance ==
  /\ rlPc = "end"
  /\ maintenance' = FALSE
  /\ rlPc' = "idle"
  /\ UNCHANGED <<inflight, wg, inner, reqVars, poolVars, sigPending, sigClosed, localVars, mainPc, outsideVars, ghostVars>>

Reloader ==
  \/ ReceiveSignal \/ ReloaderExit
  \/ BeginMaintenance \/ DrainDone \/ DrainTimeout \/ DrainWait
  \/ RunCmd \/ ReIntrospect \/ Build \/ Swap \/ SetDb
  \/ WriteTypeScriptHelper \/ EndMaintenance

-----------------------------------------------------------------------------
(* The main goroutine.                                                     *)

\* SIGTERM or SIGINT: srv.Shutdown stops accepting connections, ...
Terminate ==
  /\ mainPc = "serving"
  /\ mainPc' = "shutdown"
  /\ UNCHANGED <<handlerVars, reqVars, poolVars, reloadVars, outsideVars, ghostVars>>

\* ... and returns once the running ones ended, or after 10 seconds.
ShutdownReturns ==
  /\ mainPc = "shutdown"
  /\ mainPc' = "stopReloader"
  /\ UNCHANGED <<handlerVars, reqVars, poolVars, reloadVars, outsideVars, ghostVars>>

\* ListenAndServe failed: no Shutdown, the running requests go on.
ServeError ==
  /\ mainPc = "serving"
  /\ mainPc' = "stopReloader"
  /\ UNCHANGED <<handlerVars, reqVars, poolVars, reloadVars, outsideVars, ghostVars>>

\* Mutant of StopReloader: signal.Stop without closing the channel.
StopReloaderNoClose ==
  /\ mainPc = "stopReloader"
  /\ mainPc' = "waitReloader"
  /\ UNCHANGED <<handlerVars, reqVars, poolVars, reloadVars, outsideVars, ghostVars>>

\* stopReloader: signal.Stop and close, ...
StopReloader ==
  /\ mainPc = "stopReloader"
  /\ sigClosed' = TRUE
  /\ mainPc' = "waitReloader"
  /\ UNCHANGED <<handlerVars, reqVars, poolVars, rlPc, sigPending, localVars, outsideVars, ghostVars>>

\* Mutant of WaitReloader: does not receive from reloadDone.
WaitReloaderSkipped ==
  /\ mainPc = "waitReloader"
  /\ mainPc' = "closePool"
  /\ UNCHANGED <<handlerVars, reqVars, poolVars, reloadVars, outsideVars, ghostVars>>

\* ... then wait for the goroutine, a buffered signal still being served.
WaitReloader ==
  /\ mainPc = "waitReloader"
  /\ rlPc = "exited"
  /\ mainPc' = "closePool"
  /\ UNCHANGED <<handlerVars, reqVars, poolVars, reloadVars, outsideVars, ghostVars>>

\* Pool.Close (external): idle connections are closed, Acquire fails from
\* here on, and Close returns when the busy connections have come back.
ClosePool ==
  /\ mainPc = "closePool"
  /\ poolClosed' = TRUE
  /\ connState' = [c \in Conns |-> IF connState[c] = "busy" THEN "busy" ELSE "closed"]
  /\ scratch' = [c \in Conns |-> IF connState[c] = "busy" THEN scratch[c] ELSE 0]
  /\ mainPc' = "closeWait"
  /\ UNCHANGED <<handlerVars, reqVars, doomed, reloadVars, outsideVars, ghostVars>>

Exit ==
  /\ mainPc = "closeWait"
  /\ \A c \in Conns : connState[c] = "closed"
  /\ mainPc' = "stopped"
  /\ UNCHANGED <<handlerVars, reqVars, poolVars, reloadVars, outsideVars, ghostVars>>

Stopping == ShutdownReturns \/ StopReloader \/ WaitReloader \/ ClosePool \/ Exit

\* The process is gone: nothing of it moves any more.
Stopped == mainPc = "stopped" /\ UNCHANGED vars

Next ==
  \/ /\ mainPc # "stopped"
     /\ \/ \E r \in Requests : ServeHTTP(r)
        \/ Reloader
        \/ Signal \/ EditFiles
        \/ Terminate \/ ServeError \/ Stopping
  \/ Stopped

Spec == Init /\ [][Next]_vars

\* What the scheduler and the code guarantee: the goroutines run; a request
\* gets through the wrapper's own code; a handler whose context is cancelled
\* unwinds (handler.go: "every handler here is expected to honor ctx
\* promptly (pgx does)"). reload.cmd and dmut are bounded by their timeouts;
\* reintrospection and Build are taken to return. Nothing is assumed of a
\* handler that was not cancelled, nor of the operator and the clients.
Fairness ==
  /\ WF_vars(mainPc # "stopped" /\ Reloader)
  /\ WF_vars(Stopping)
  /\ \A r \in Requests :
       /\ WF_vars(mainPc # "stopped" /\ LoadInner(r))
       /\ WF_vars(mainPc # "stopped" /\ Unwind(r))
       /\ WF_vars(mainPc # "stopped" /\ Deregister(r))
       /\ WF_vars(mainPc # "stopped" /\ WgDone(r))

FairSpec == Spec /\ Fairness

-----------------------------------------------------------------------------
(* Properties.                                                             *)

\* Every variable keeps its type: in particular Reload never builds from a
\* missing *pg.DbInfos, and a request holds a slot of the pool or nothing.
TypeOK ==
  /\ maintenance \in BOOLEAN
  /\ inflight \subseteq Requests
  /\ wg \subseteq Requests
  /\ inner \in Snapshots
  /\ reqPc \in [Requests -> {"none", "refused", "registered", "serving", "writing", "returned", "deregistered"}]
  /\ view \in [Requests -> Snapshots]
  /\ held \in [Requests -> Conns \cup {NoConn}]
  /\ cancelled \subseteq Requests
  /\ connState \in [Conns -> {"closed", "idle", "busy"}]
  /\ doomed \subseteq Conns
  /\ scratch \in [Conns -> 0..MaxSchema]
  /\ poolClosed \in BOOLEAN
  /\ rlPc \in {"idle", "begin", "drain", "drainWait", "cmd", "introspect", "build",
              "swap", "setDb", "helper", "end", "exited"}
  /\ sigPending \in BOOLEAN
  /\ sigClosed \in BOOLEAN
  /\ rlDb \in 1..MaxSchema
  /\ newDb \in 1..MaxSchema
  /\ newSnap \in Snapshots
  /\ outcome \in {"ok", "cmdFailed", "introspectFailed"}
  /\ mainPc \in {"serving", "shutdown", "stopReloader", "waitReloader", "closePool", "closeWait", "stopped"}
  /\ schema \in 1..MaxSchema
  /\ files \in 0..MaxFiles
  /\ helper \in Snapshots
  /\ requested \in 0..MaxFiles
  /\ attempted \in 0..MaxFiles

\* The steps of Reload after Drain.
Drained == {"cmd", "introspect", "build", "swap", "setDb", "helper", "end"}

\* From the moment Drain returns until EndMaintenance, no handler runs and no
\* connection is in use: reload.cmd's DDL meets no lock of a request, and
\* Reset no busy connection (handler.go: "reload.cmd's own DDL needs those
\* handlers to have actually released their locks before it starts").
DrainedDuringMigration ==
  rlPc \in Drained =>
    /\ \A r \in Requests : reqPc[r] \notin Handling
    /\ \A c \in Conns : connState[c] # "busy"

\* A write always goes through temp tables shaped like the schema of the
\* snapshot that serves it, whatever sequence of failed migrations,
\* reintrospections and builds came before (info.go, ReIntrospect: "A
\* connection holds temp tables built for the previous schema ... and a
\* fresh one holds none").
ScratchMatches ==
  \A r \in Requests : reqPc[r] = "writing" => scratch[held[r]] = view[r].db

\* The pool is closed only once the SIGUSR1 goroutine is gone: no Reload
\* introspects, resets or builds on a closed pool (main.go: "otherwise
\* shutdown could race a reload using the same pool").
PoolClosedLast == poolClosed => rlPc = "exited"

\* typescript.helper_path never describes a schema or files that were not
\* yet served when it was written (reload.md: "rewritten only once the new
\* routes and queries are the ones being served").
HelperNeverAhead == helper.db <= inner.db /\ helper.files <= inner.files

\* The wrapper and Reload implement Serving: a handler runs against one
\* snapshot, and Swap never happens under a running handler.
S == INSTANCE Serving WITH served <- inner,
                           active <- {r \in Requests : reqPc[r] \in Handling}

RefinesServing == S!Spec

\* Maintenance mode always ends, whatever fails in the Reload and however
\* long a request would have run (reload.go: "never stuck in maintenance
\* mode").
MaintenanceEnds == maintenance ~> ~maintenance

\* Every SIGUSR1 is followed by a Reload that begins after it and so sees the
\* files as they were when it was sent, although signals arriving while one
\* is pending are dropped, and one pending at shutdown is still served.
SignalHonoured == \A v \in 1..MaxFiles : requested >= v ~> attempted >= v

\* Once it stops serving, the process exits if the handlers still running
\* keep coming back: main, the reloader and the pool do not wait on each
\* other in a circle.
ShutdownCompletes ==
  (\A r \in Requests : []<>(reqPc[r] \notin Handling))
     => (mainPc # "serving" ~> mainPc = "stopped")

\* What reload.md says of a failed reintrospection: it "leaves the previous
\* schema, registry, and templates running untouched". The code rebuilds
\* against the old schema and swaps, so this does not hold.
FailedIntrospectionKeepsSnapshot ==
  [][inner' # inner => outcome # "introspectFailed"]_vars

-----------------------------------------------------------------------------
(* The inductive invariant behind the safety properties.                   *)

\* The WaitGroup counts exactly the requests between Register and WgDone.
WgInv ==
  \A r \in Requests :
    r \in wg <=> reqPc[r] \in {"registered", "serving", "writing", "returned", "deregistered"}

\* Maintenance covers the Reload, and after Drain nobody is left.
DrainInv ==
  /\ rlPc \in Drained \cup {"drain", "drainWait"} => maintenance
  /\ rlPc \in Drained => wg = {}

\* Connections in use and requests holding one match.
HeldInv ==
  /\ \A r \in Requests : held[r] # NoConn => reqPc[r] \in Handling /\ connState[held[r]] = "busy"
  /\ \A r \in Requests : reqPc[r] = "writing" => held[r] # NoConn
  /\ \A r1, r2 \in Requests : held[r1] = held[r2] /\ held[r1] # NoConn => r1 = r2
  /\ \A c \in Conns : connState[c] = "busy" => \E r \in Requests : held[r] = c

\* A running handler is the current one.
ViewInv == \A r \in Requests : reqPc[r] \in Handling => view[r] = inner

\* How the Reloader's db, the running Reload's db and snapshot relate to the
\* served snapshot at each step.
DbInv ==
  /\ rlPc # "setDb" => rlDb = inner.db
  /\ rlPc = "introspect" => newDb = inner.db
  /\ rlPc = "swap" => newSnap.db = newDb
  /\ rlPc \in {"setDb", "helper"} => newSnap = inner /\ newDb = inner.db

\* Temp tables have the served schema's shape; while a build from another
\* introspection is under way there are none.
ScratchInv ==
  /\ \A c \in Conns : scratch[c] \in {0, inner.db}
  /\ \A r \in Requests : reqPc[r] = "writing" => scratch[held[r]] # 0
  /\ rlPc \in {"build", "swap"} /\ newDb # inner.db => \A c \in Conns : scratch[c] = 0

PoolInv ==
  /\ poolClosed => rlPc = "exited"
  /\ mainPc \in {"closePool", "closeWait", "stopped"} => rlPc = "exited"

\* Versions only grow: what is served, what is being built, what exists.
VersionInv ==
  /\ helper.db <= inner.db /\ helper.files <= inner.files
  /\ inner.db <= schema /\ inner.files <= files
  /\ rlPc \in {"introspect", "build", "swap"} => inner.db <= newDb /\ newDb <= schema
  /\ rlPc = "swap" => /\ inner.db <= newSnap.db /\ newSnap.db <= schema
                      /\ inner.files <= newSnap.files /\ newSnap.files <= files

IInv == /\ TypeOK /\ WgInv /\ DrainInv /\ HeldInv /\ ViewInv
        /\ DbInv /\ ScratchInv /\ PoolInv /\ VersionInv
=============================================================================
