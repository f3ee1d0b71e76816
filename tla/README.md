# A formal model of rel

rel serves a Postgres database over HTTP. A query sent to `/rel` is resolved
against an introspected schema, compiled to SQL and run in one transaction
under the caller's role. Routes, middleware, templates, uploads and single
sign-on sit beside it. On SIGUSR1 the process migrates the database, reads the
schema again and replaces everything it serves.

The modules here are translated from the Go code under `src/`. TLC checks them
on small instances; TLAPS proves the main safety properties for every value of
the constants. `PROJECT.json` maps each definition to the lines it models.

## The system

| Part | State | Operations | What makes it hard |
|---|---|---|---|
| `boot/handler.go` | 503 switch, in-flight map, WaitGroup, handler pointer | ServeHTTP, BeginMaintenance, Drain, Swap, EndMaintenance | requests racing the switch, Drain's timeout, a pointer loaded outside the lock |
| `boot/reload.go`, `snapshot.go` | Reloader.db, the running reload's db and snapshot | Reload, Build, WriteTypeScriptHelper | every step may fail and the later ones still run |
| `cmd/rel/main.go` | signal channel, goroutines | SIGUSR1 loop, shutdown | signals dropped, shutdown during a reload |
| pool (`pgxpool`, `pg/info.go`, `query/write_temp.go`) | connections, temp tables on each | Acquire, Release, Reset, Close, ensureTempTables | temp tables outliving a schema change |
| `relexec`, `server/rel.go` | transaction, savepoint, kept rows, held body | Prepare, Execute | a batch failing half way, bytes already sent, a commit whose answer is lost |
| `reqauth`, `dbauth`, `jwt` | session, cookies, role of the transaction | Authenticate, Begin, Open, Renew | a begin that fails half way |
| `query/write*.go` | temp rows, node and row ids | ExecuteWriteNode, phases 1 and 2 | ids shared by the writes of a batch, the order of dependent rows |
| `route` | middleware chain, upload temp files | GateMiddleware, handleRoute, handleUploadRoute | two connections per request, files and rows that disagree |
| `reloadcmd` | a subprocess | Run | timeouts, pipes kept open |
| `sso` | discovery state under a mutex | ensureReady, login, callback | slow providers |
| `static`, `wellknown`, `websec`, `config`, `querystring`, `cborenc`, `tsgen` | none after loading | pure functions | search orders, boundaries |

## Modules

| Module | Role |
|---|---|
| `Serving` | abstract: one snapshot is served, replaced as a whole, and only while no handler runs |
| `Reload` | handler, Reloader, main goroutine and pool together |
| `RelExec` | one `/rel` request from parsing to the connection's release |
| `Query` | a query tree: resolution against the schema, what of it is writable, what its SELECT returns |
| `Write` | the write engine: a batch of write items over temp tables, in one transaction |
| `Registry` | route declarations, the shapes of functions, the sorted registry |
| `StaticFiles` | `static.Resolve` over search directories |
| `Session` | tokens, their verification and renewal, the role of a request |
| `Routes` | requests through gate, routes, templates, static files, `/rel` and uploads, over one pool |
| `Secret` | `jwt.secret` from files, generated and written when missing |
| `KeyPair` | the SAML certificates and keys, on disk |
| `StartUp` | waiting for Postgres, dmut, reload.cmd, introspection, with a clock |
| `SignOn` | OpenID and SAML sign-ins and the session that follows, for one browser |
| `Boot` | the four above together: starts, builds, reloads, crashes |
| `MCReload`, `MCWrite`, `MCRoutes`, `MCBoot` | instances for TLC |
| `ReloadProofs`, `RelExecProofs` | theorems about Reload and RelExec |
| `BootProofs` | theorems about Boot: the wait for Postgres, the key pairs, the session |
| `RegistryProofs` | theorems about what BuildRegistry returns and what is looked up in it |
| `RoutesSteps` | lemmas: what each step of Routes does to the handler, the pool and the disk, and where a handler can be |
| `RoutesProofs`, `EffectsProofs`, `GateProofs` | theorems about Routes: types, the pool and the staging files; effects, answers and files; gates and cookies |

### Reload

A snapshot is a pair of versions: the schema it was introspected from (`db`)
and the files it was built with (`files`: well-known queries and templates).
Requests, the SIGUSR1 goroutine and the main goroutine each have a program
counter, and each critical section of `handler.go` is one action.

- `Register` is ServeHTTP from the lock to the unlock. `LoadInner` is the load
  of the pointer, which happens after it. The deferred function is
  `Deregister`, under the lock, then `WgDone`.
- `DrainDone`, `DrainTimeout` and `DrainWait` are the select in Drain and the
  unbounded wait after it.
- `RunCmd` may change the schema whether it succeeds or fails: dmut may succeed
  and reload.cmd fail after it. `ReIntrospect` resets the pool when it succeeds.
  `Build` runs in every case. Its failure ends the reload through the deferred
  `EndMaintenance`.
- A pool slot is closed, idle or busy. `scratch` is the schema version its temp
  tables were shaped for, 0 when it has none. `Release` may destroy the
  connection, since pgx closes one whose query was cut by a cancelled context.
- `Signal` fills a channel of capacity one. `requested` and `attempted` are
  observation variables that record which file version a signal asked for and
  a reload began with.

Abstractions. A request holds one pooled connection at a time; the gate and
templates, which hold a second, are in Routes. Nothing but a
reload changes the schema. The pool's idle health check is covered by
connections that break. The listener's error path calls `os.Exit` after the
pool is closed; both endings are `Exit`.

### RelExec

An item is what Execute branches on: its kind (a read, a write, a write that
takes the fast path and builds its own rows, a delete), `rollback`, and
`returns: "none"`. The effect of item *i* on the database is *i* itself, for a
read too, because a read may call a function that writes. `pending` is what the
open transaction holds, `mark` what it held at the savepoint, `durable` what is
committed. A row carries the effects visible when it was read, so properties can
speak about what a client was shown.

The body is a sequence of tokens. `held`, `released` and `out` are holdWriter:
nothing is sent while the body fits. Every statement may fail, leaving the
transaction aborted or the connection lost, and every write that goes to the
client may fail. A commit may succeed, be refused, or lose its answer, in which
case it may have been executed or not. A commit of an aborted transaction is
Postgres' silent rollback.

`Deferred` is Execute's deferred function and handleRel's choice between an
error answer and a cut body. `Release` gives the connection back; one that is
not idle is destroyed.

Abstractions. A separator goes with what follows it, an envelope's keys with
the bracket before them, so the buffer is counted in tokens. Rows are few and
their values are not modelled. Node ids and temp rows belong to the write
engine.

### Query and Write

A tree is a sequence of nodes with their joins, selects and write modes. `Query`
resolves it as `node_resolve.go` and `expression_resolve.go` do, with the errors
of each step, and evaluates the SELECT that `sql.go` compiles on tables of small
integers. `Write` runs a batch: `StartItem` takes an item through denormalize (its
objects become numbered temp rows) and chooses the path, `RunStatement` runs one
statement of phase 1 or 2, `FinishItem` closes the item or undoes it to its
savepoint, and `ReadBack` reads the answers when the last item has run. The
statements are what `write_dml.go` compiles: insert, update, upsert with its key
write-backs, recovery of keys, delete. Constraints (keys, foreign keys, NOT NULL) and serials are those
of Postgres.

Abstractions. Relations are tables, and columns integers: functions, views,
composite and generated columns are left out, as is `on_conflict` by name (the
code ignores it). A statement that fails ends the batch; RelExec says what
becomes of the transaction.

### Registry, StaticFiles, Session and Routes

`Registry` computes the routes and middleware of a set of functions: comments and
configuration, the rules a shape must satisfy, collisions, reserved paths, the
order. Paths are sequences of segments. `Routes` takes the result and runs
requests on it. Each request has a program counter; a step goes from one wait
(for the pool, Postgres, the client or the disk) to the next. `Acquire` waits for
an idle connection or for the client to give up. A call leaves an effect in its
transaction, `durable` is what is committed. The swap of an upload is one step per
system call (`SwapStat` to `SwapDrop`), so that two uploads interleave anywhere,
each rename may fail, and the process may die in between.

Abstractions. What a function answers is chosen from the site's `responses`, and
`header` stands for every side-effecting key but `jwt`. Rendering is a success or
a failure. The body of a request is its content type, size, parts and whether it
can be read and decoded.

### StartUp, Secret, KeyPair, SignOn and Boot

`Boot` runs a process through its life: `Load` reads the configuration, the steps
of `StartUp` follow, then a build with the sign-on endpoints and key pairs, then
serving. A Reload goes through the same commands and builds again. `Crash` may
happen anywhere, in the middle of writing a file too, and the process starts again
with what the disk holds.

- The clock of `StartUp` counts half seconds within a step. A sleep may oversleep
  by `Slack`. The command is a child with two pipes; it may exit, hang, block on a
  pipe whose reader gave up at a line that is too long, or leave a process behind
  that keeps the pipes open.
- A generated secret or key pair is a number. A file holds such a number or what
  makes it useless. A write that fails or is cut off leaves the old content or a
  useless one.
- A browser has one state cookie, one session cookie and several tabs. A request
  carries the cookies of when it was sent; its answer changes those of later.
- `endpoint[p].holder` is the mutex of a provider.

Abstractions. Signatures are equality of secrets, a flow's random state is its
name, and the protocols succeed or fail. Scenarios fix the configuration and
what a browser does, so that the parts are not multiplied with each other where
they do not interact.

## Runs

| Run | Result | Question |
|---|---|---|
| `reload_safety` | pass, 1,074,602 states | does anything run during a migration, do writes use stale temp tables, does shutdown race a reload, is Serving implemented |
| `reload_liveness` | pass, 205,696 states | does maintenance end, is every signal honoured, does the process stop |
| `reload_docs` | violation | does a failed reintrospection leave the running snapshot alone, as the documentation says |
| `relexec_safety` | pass, 6,722,632 states | is a batch all or nothing, and does the answer say what happened |
| `relexec_rollback` | violation | does `rollback` undo a read's effects, as the documentation says |
| `relexec_closed` | violation | is a body that was closed always committed, as the documentation says |
| `write_batch` | pass, 16,785 states | is the payload stored, are exactly the unmentioned rows deleted, is a batch what its items are one by one |
| `write_scope` | violation | does a delete stay under its parent when the key has two columns |
| `write_leftout` | violation | does an update keep what a row leaves out |
| `routes` | pass, 135,574 states | do gates come first, do answers and files agree with the database, does anything leak, does every request end |
| `boot` | pass, 134,794 states | do waits keep to their budget, do key pairs match, are sessions earned and kept, does everyone return |
| `keypair` | violation | is an entry's own certificate scoped to that entry |

Bounds. `reload_safety` has two requests, so that one can register while another
drains; two connections, so that one is idle with temp tables while another is
busy; two schema versions, so that a migration that is not reintrospected can be
followed by one that is. One file edit suffices for properties about order.
Requests and connections are interchangeable in the specification and in each
property, so symmetry is sound; the liveness run does not use it.
`reload_liveness` has one schema version: liveness does not depend on it. It has
one connection for two requests, so that one waits for the other.
`relexec_safety` has three items, so that a failing or rolled-back item has one
before and one after it, of any kinds; buffers of 0 and 4 tokens, so that a body
streams from its first byte, fits, or overflows in the middle of an item or of
the batch; and results of at most one row. The two violation runs need one item.

`write_batch` has pairs of items out of a list that has every write mode, both
directions of joins, a relation joined to itself, three levels, generated keys,
conflicts on other columns, narrowed columns and payloads of every form. Two
items are enough for one to see the numbers, temp rows or database of the other.
`routes` has three connections for two requests. Pairs are chosen where requests
meet: two uploads on one path, an upload and a reader, two requests that each
need two connections; everything else a request can meet is tried alone, on
servers with and without gates, an anonymous role and templates. `boot` has three
starts or builds: one that leaves something behind, one that finds it, one more
that finds the result. The budgets (2.5, 12 and 15.5 seconds with a first delay of
half a second and a cap of five) reach the doubling, the cap, and a deadline
inside and between attempts. A token lasts 4 and a session 5, so that a session
ends by age as well as by being left alone, and can be renewed twice.

Deadlock is checked in every run. The ends (`Stopped`, `Done`, `AtEnd`) are steps
of their own.

Each property of a passing run has a mutant: a definition changed as a plausible
bug would change it, under which TLC finds the property violated.

### Fairness

`FairSpec` assumes weak fairness of the SIGUSR1 goroutine and of the main
goroutine once it stops, and for each request of the wrapper's own code
(`LoadInner`, `Deregister`, `WgDone`) and of `Unwind`, a handler whose context
was cancelled. The first two are Go's scheduler. The last is what `handler.go`
relies on: "every handler here is expected to honor ctx promptly (pgx does)".
Nothing is assumed of a handler that was not cancelled: Drain must do without.
reload.cmd, reintrospection and Build are taken to return. For
`ShutdownCompletes` the handlers are required to come back from time to time,
because `Pool.Close` waits without a bound for those that
`srv.Shutdown`'s ten seconds left running.

`Routes` assumes weak fairness of each request's steps: Postgres and the disk
answer, and the client sends its bytes or goes away. Nothing forces a client to
give up waiting for a connection, so `EveryRequestEnds` depends on the pool: with
as many requests as connections, each behind a gate, all of them wait for a second
connection until their clients leave. The run has one connection more than it has
requests; a request never holds more than two at a time.

`Boot` assumes weak fairness of the process' own code and timers, and of the
kernel that kills the command and closes its pipes. It assumes nothing of the
command, of a process the command leaves behind, of a provider asked for its
metadata, and of the callback function: the code waits for the last three without
a limit. `EveryoneReturns` is therefore conditional on their coming back.

## What the runs show to differ from the documentation

- **Failed reintrospection.** `reload.md` says that it "leaves the previous
  schema, registry, and templates running untouched". The code builds a new
  snapshot against the old schema and swaps it in, so edited files take effect.
- **Rollback of a read.** `complex-query.md` recommends `rollback` for "a
  side-effecting function/view (a read)". Only writes get a savepoint, so the
  read's effects are committed.
- **Closed bodies.** `batching.md` says a client that sees a closed array has
  seen a complete response, because a failing one stops short. The array of a
  single item is closed before the commit, and past the buffer it has been sent
  when the commit fails. A JSON batch is right: its bracket follows the commit,
  which `ClosedBatchIsCommitted` checks.
- **Deletes under a composite key.** `writing.md` says a delete-bearing mode
  deletes rows "that exist under its parent". Each column of the key is compared
  on its own, so with two parents in the payload the children of a third, whose
  key mixes theirs, are deleted.
- **Columns left out.** `writing.md` says an update keeps "a column the row leaves
  out". A row that leaves out a joined to-one object has its foreign key set to
  NULL.
- **Half a key pair.** `authentication.md` says an entry's own certificate is
  "scoped to that entry alone". An entry that sets only one of the two paths
  overwrites the shared file for the other, and the next build pairs the shared
  certificate with a key that is not its own.

Met while modelling, and part of the models, without a run of their own:

- `waitReady`'s last attempt is not clipped when the sleep before it ended after
  the deadline (`WaitIsBounded` allows that one).
- A process that outlives reload.cmd with its pipes keeps the server in
  maintenance past `reload.timeout`, and so does, in a build, a provider that
  never answers. The OpenID callback does not retry discovery; the SAML one does.
- A second OpenID login in another tab replaces the state cookie of the first, so
  the first fails, and its failure clears the cookie of the second.
- A renewal in flight during a logout sets the session cookie again.
- A crash while `$GEN$` writes leaves a file of another length, which every later
  start refuses.
- Two racing swaps may end in an error answer although the upload is committed,
  with the older file restored over the newer one, which is then kept only as a
  backup. A crash leaves staging and backup files.
- An item of a batch that takes the general path is read back after the later
  items have run, and shows their effects on its rows.
- `static.Resolve` joins an `index.html` found in one search directory to the
  directory found in another.

## Proofs

`ReloadProofs` proves `TypeOK`, `DrainedDuringMigration`, `ScratchMatches`,
`PoolClosedLast`, `HelperNeverAhead` and `RefinesServing` for any sets of
requests and connections and any bounds, from `ReloadAssumption` (`NoConn` is no
connection, the bounds are naturals). None is inductive alone. The invariant
`IInv` adds:

- `WgInv`: the WaitGroup holds exactly the requests between registration and
  Done. With `DrainInv` (the switch is on throughout a reload, and after Drain
  the WaitGroup is empty) no handler runs after Drain.
- `HeldInv`: busy connections and requests that hold one match, one to one.
- `ViewInv`: a running handler is the current one. It makes the refinement work,
  since a Swap then meets no handler.
- `DbInv`, `ScratchInv`: how Reloader.db, the running reload's db and the served
  snapshot relate at each step. While a build from another introspection is
  under way no connection has temp tables, so whether the build succeeds or
  fails the next write creates its own.
- `PoolInv`, `VersionInv`: the reloader has ended before the pool is closed, and
  versions only grow.

`Refinement` shows that initial states map to initial states and that each step
maps to a step of Serving or to a stutter, using `IInv`.

`RelExecProofs` proves `TypeOK`, `AllOrNothing`, `SuccessIsCommitted`,
`ErrorIsRolledBack` and `HeldUntilCommitted` for batches of any length, any
number of rows and any buffer, from `RelExecAssumption`. `IInv` adds:

- `TransactionInv`: as long as Execute goes on the transaction is healthy, and
  what it holds is known at each point of the two loops (the lasting writes
  before the item at hand; at the commit, exactly `Lasting`).
- `DurableInv`: nothing is durable before the commit and everything after it.
- `HoldInv`: until the buffer overflows nothing has been sent.

Its second half adds `RolledBackInvisible` and `ClosedBatchIsCommitted`, from the
same assumption. `BInv` is `IInv` with:

- `RowsInv`: the rows kept aside for an item, those at hand and those in the body
  show, of the writes that are rolled back, the item's own and no other. It needs
  `TransactionInv` for what a row can see at each point, and `ReadbackInv`: a write
  that is to be undone is read back while it is there.
- `ClosedInv`: as long as not everything is durable neither the buffer nor what was
  sent holds the bracket that closes the batch.

`BootProofs` has three theorems. They hold for any scenarios that satisfy `BootAssumption` (the
configured values have their types), any number of starts, tabs, sign-ins and
entries, and a crash at any step:

- `WaitKeepsItsBudget` is `WaitIsBounded` for every budget, delay, cap and slack.
  `WaitInv` adds that an attempt begun before the deadline ends by it, that one
  begun later is the only one and follows a sleep that lasted too long (or a budget
  that is not positive), and that a sleep was to end before the deadline.
- `PairsMatch` is `PairMatches` for every configuration that keeps its files
  apart. This hypothesis, `Apart`, says that no path is listed twice or both as a
  certificate and as a key, and that two entries use the same lists or have no file
  in common. The `keypair` run shows what happens without it. `KInv` adds that a
  key that is on disk has its certificate beside it (`KeyHasCert`: the certificate
  is written first, and only to a list without a key), that a list being written
  has no key yet (`WritingInv`), and that what an entry once published is still
  what its files hold (`TrustInv`).
- `SessionsAreEarned` is `SessionIsEarned` for every `max_age`, `renew_after` and
  `max_session_age`. `SInv` adds that every token in the browser's hands has the
  full lifespan and goes back to a sign-in (`Good`), that a process whose secret
  will be there at the next start has the one its files hold (`SecretInv`), and
  that a session that has not lapsed was last used before its renewal fell due, or
  renewed then, and is signed with the secret of the process or, between two
  processes, of the files (`KeptInv`).

Those about Routes hold for any requests and connections, any sites and any
scenarios that satisfy `RoutesAssumption`: functions and configuration are what an
introspection can return (`Introspected`: sequences of entries with paths of
segments), a response's `jwt` is absent, null or a role, and requests are told
apart from the labels of answers. Crashes, failing renames and clients that leave
are among the steps. Every safety property of the `routes` run is proved.

- `RegistryProofs` first proves that `Sorted` lists a finite set once and in order
  when the order is one (`SortedIs`), by induction over the rank of an element.
  `RegistryIsWellFormed` says of any registry that each middleware is listed once,
  an outer path before an inner one, and that no two routes have one path and a
  method in common. From that follow `ChainCovers` (the chain of a path is exactly
  the middleware in front of it, outer before inner) and `ReachedIsOne` (dispatch
  finds one route at most, for any path and method).
- `RoutesSteps` reads each action of a handler as one of 28 outcomes
  (`StepIs`), each a relation between the handler before and after: it raises, it
  renders, it begins a transaction, it commits. The three modules after it split
  on these and not on the actions. It also proves what holds of a handler by where
  it is (`Typing`, with `Stage` and `Answering`), which excludes outcomes, and that
  the file and each backup hold one content at most (`Filed`).
- `RoutesProofs` proves `TypeOK` and `NothingLeaks`. `Sound` adds to `Typing` that
  every connection is idle, or held for a use that its owner's place in the code
  still releases (`Holding`, in `Pool`), and that a staging file belongs to a
  request that will remove it (`DiskTyping`).
- `EffectsProofs` proves `AnswerMatchesDatabase`, `FileIsCommitted` and `ContentKept`.
  `Inv` adds `Committed` (what is durable of a request, by where it is and what it
  has answered), `Pending` (its open transaction holds what it has done so far,
  the effects of its gates included, or the commit would not make them durable),
  `Stored` (what is in a file, a backup or an answer was committed) and `Kept`. The
  last is stronger than `ContentKept`: the newest content is in place or in a
  backup *whose owner is not about to delete it*, which is what a second swap that
  runs between two renames of the first could break.
- `GateProofs` proves `GatedFirst` and `LastWordWins`. `Gated` says that what a
  handler has heard and the chain it still has make up the whole chain of its
  target (`InChain`), and that past the gate the chain is what it heard first
  (`PastChain`); with `ChainCovers` that is `GatedFirst`. `Words` follows the
  accumulated side effects: at each point they are the last value that was set,
  and the cookies so far are renewals only, or none.

Only model-checked: liveness (`EveryoneReturns`, `EveryRequestEnds` and those of
`reload_liveness`), which the prover does not reach, and the properties of `Write`.
Five of these compare its result with one that folds over trees, statements and
rows. What a fold computes for every input needs induction over that data, and the
library's induction theorems take a predicate as a parameter, which the provers
cannot instantiate. `RegistryProofs` gets around this for the naturals (`NatSet`:
induction as a fact about a set), and has no counterpart for trees. The type
invariant of `Write` is not out of reach in the same way, but is not proved: it
would need the same kind of lemmas for the sorting of rows.

## Not modelled

Text and bytes without state: the syntax of queries and query strings
(`query/*_parse.go`, `querystring`), SQL text, value encodings (JSON, CBOR,
TypeScript), template rendering, log output, error wording, CORS and CSP headers.
Loading that happens once and is then read-only: merging of configuration sources,
well-known queries, the catalogue queries of introspection. Libraries: pgx and its
pool (modelled from its use), dmut, the sign-on protocols and their cryptography.
Views, functions as relations, and composite, generated and computed columns in
the write engine. `PROJECT.json` gives the reason part by part.
