# Verification of sql-mcp

TLA+ models of sql-mcp, an MCP server that gives agents bounded, read-only by
default access to SQL databases, with TLC configurations that check them on
small instances and TLAPS proofs for every instance. Paths below are relative
to the repository; `api_client_sql.py` is
`src/sql_mcp/api/api_client_sql.py` and so on.

## Inventory

| Part | State it keeps | Operations | Interacts with |
|---|---|---|---|
| `SqlApi` run path (`api_client_sql.py` 60-650) | engines, operation locks, executor, `_worker_slots`, `_futures`, `_closed`; per call a `_ConnectionRunContext` | `engine`, `_submit`, `_run_with_timeout`, `_AsyncSqlOperation`, `_cancel_pending_operation`, `_run_locked_operation`, `_execute_on_connection`, `_finalize_connection_run`, `dispose` | caller threads or event loop tasks, worker threads, SQLAlchemy pools, drivers |
| Result envelope and cells (`api_client_sql.py` 651-820) | none beyond a call | convert and clip cells, fetch, copy rows, name columns, flag truncation | result cursors |
| Registry, entitlements, write gate (316-412, 911-923) | fixed registry and allowlist; entitlements belong to the identity service | `resolve_connection`, `_assert_writes_allowed` | `identity_scoped_resources` |
| Scripts and batches (925-1118) | one transaction | `execute`, `execute_script` | database, driver, scanner |
| Reading operations (870-910, 1124-1680) | none beyond a call | `query`, `explain`, `sample_rows`, paged listings, `ping`, `ping_all`, `server_version`, `active_connections`, `pool_status`, `capabilities` | registry, dialects, run path |
| Catalog (1390-1520) and knowledge-graph ingestion (`kg_ingest.py`, the ingest tool in `mcp/mcp_sql.py`) | node and link lists of one mapping | `schema_catalog`, `catalog_to_entities`, `ingest_entities` | Inspector, graph service |
| Statement scanner and gates (`safety.py`) | position in the text, which loop it is in | strip, split, classify | every statement |
| Configuration and process-wide client (`auth.py`) | the cached client, `_api_lock` | `get_api`, `reset_api`, parsing of settings | environment, `SqlApi`, dialects |
| Dialect registry (`dialects.py`) | a constant table | `get_dialect`, `build_url`, `dialect_for_url` | configuration, reading operations |
| MCP tools (`mcp/mcp_sql.py`) | none | `sql_list_dialects`, which runs no operation, and `sql_ingest_schema`, which runs `schema_catalog` in an `asynchronous_sql_execution` block; the tools for the other operations are derived from the facade outside this repository | event loop, `get_api` |
| Facade, server start, connector contracts, PGWire credentials | none | delegation, declarations, a command | |

What is hard:

- **Concurrency in the run path.** A call lives in two or three threads at
  once: the caller that waits with a deadline, the worker that runs the
  statement, and a canceller that interrupts the driver behind the worker's
  back. `dispose()` may come at any point. State is guarded by five different
  locks, and decisions are made on values read under one of them and used
  after it is released. What must hold: slots of the bounded pool are neither
  lost nor given back twice; what a caller is told about its write is true; an
  expired write stays out if that can be known in time; a connection has one
  user; nothing survives dispose; every caller is answered.
- **A client replaced under its callers.** `reset_api()` disposes of a client
  that others hold, and `get_api()` builds the next one from settings that may
  change while it reads them. What must hold: one open client, none left
  behind; no write starts under settings that were revoked before a reset.
- **Partial failure.** Statements, commits, resets, the network, one ping of
  many and the building of a client can fail at each step. What must hold: a
  script is all or nothing; what is reported as failed did not happen, unless a
  server's acknowledgement was lost; a failure locks nobody out.
- **Stale decisions.** Entitlements are looked up two or three times in one
  call. What must hold: a statement runs only where it was allowed and
  checked, and a report is about the connection it names.
- **Bounds.** Rows, bytes, cells, columns, objects, nodes and links are all
  capped, one cap inside another. What must hold: the caps hold, what is cut
  off is reported, and nothing is cut off that other parts need.
- **A scanner.** Five loops hand a text to each other character by character.
  What must hold: offsets stay, exactly what is not code is blanked, and what
  passes the gates is what they say.

`PROJECT.json` lists each hazard at its line with the properties that cover
it, and those that no property covers with the reason.

## Modules

| Module | Models | Proofs |
|---|---|---|
| `CallContract` | abstract: what a call promises about its transaction | implemented by `SqlRun` |
| `ClientLife` | abstract: what a client promises about its calls from its disposal on | implemented by `SqlRun` and by each client of `ClientCache` |
| `SqlRun` | the run path: callers, workers, cancellation, `dispose` | `SqlRunProofs` |
| `ClientCache` | `get_api`, `reset_api` and the calls on the client, while settings change | `ClientCacheProofs` |
| `Configuration`, `Dialects` | settings to registry to client; dialects to URLs and back (functions) | used by `ClientCache`, `ReadCalls` |
| `Entitlement` | `resolve_connection` (function) | used by `ScriptRun`, `ReadCalls` |
| `ScriptRun` | the write gate, the checks, the transaction by dialect | `ScriptRunProofs` |
| `ReadCalls` | every reading operation, `ping_all`, paging | `ReadCallsProofs` |
| `Scanner` | `safety.py`: the scanner and both gates | `ScannerProofs` |
| `ResultEnvelope` | `_result_envelope` and its helpers | `ResultEnvelopeProofs` |
| `Cells` | `_json_safe_value` | `CellsProofs` |
| `CatalogIngest` | `schema_catalog`, `catalog_to_entities`, the ingest tool | `CatalogIngestProofs` |

How they compose: `SqlRun` is one client; `ClientCache` is a sequence of them,
each reduced to `ClientLife`, which `SqlRun` implements. `ScriptRun` and
`ReadCalls` are what a worker does between `Connect` and `Release` of
`SqlRun`, and what its caller does before. `CatalogIngest`, `ResultEnvelope`
and `Cells` are the data of one such call.

Each `MC` module gives the constants of its module values for TLC. Operators
marked `\* faulty` are not part of the specifications: they are plausible
mistakes in the code, each of which makes TLC reject one of the properties,
and show that the property depends on the code it is about.

### SqlRun

Three kinds of process interleave: the caller of each call (`pc`), the worker
of each call (`wpc`), the disposer (`dpc`). An action is a section of code
between two points at which another process can observe or disturb it, so a
lock that guards one section is implicit in its atomicity; the operation lock,
which is held over many, is explicit (`shared`, `holding`).

| Action | Code |
|---|---|
| `Call` | `engine()` under `_engine_lock` |
| `AcquireSlot`, `Submit`, `Register` | `_submit`: the semaphore; `_executor_lock`; `_futures_lock` |
| `TakeResult` | `future.result()` and `finally` with a future that is done |
| `Expire`, `Abort` | the deadline of `_run_with_timeout` or `_wait`; cancellation of the awaiting task |
| `ReadDriver`, `Interrupt`, `Withdraw`, `Settle` | `_cancel_pending_operation`, `Future.cancel`, the `finally` clause |
| `CompleteLater` | the done callback, or `_cleanup_when_done` |
| `Start`, `LookupLock`, `Enter` | executor thread, `_acquire_operation_lock`, `_run_locked_operation` |
| `Connect`, `ConnectFails` | `eng.connect()` with a `StaticPool` or `QueuePool`, `set_driver_connection` |
| `StatementEnds`, `StatementFails`, `Commit`, `CommitFails` | `_execute_on_connection` |
| `Finalize`, `Release` | `_finalize_connection_run`, the `with` blocks |
| `Shutdown`, `Snapshot`, `ClearCaches`, `CloseEngine` | `dispose()` under its three locks, then engine by engine |

Sections merged into one action touch nothing that another process reads in
between: the release of a slot with the removal from `_futures`; the
connection with its publication in the context; the end of a statement with
the check of `timed_out` that follows it (a deadline between them is a
deadline before the statement ends, to anyone who looks); the driver's
interrupt with the record of its success, except that the hazard of reading
`cancel_supported` before it is recorded is kept, since the worker may finish
before `Interrupt`. The queue of the executor is a set, so that any order of
service is included.

`_run_with_timeout` takes every `TimeoutError` of `future.result()` for the
deadline, also one that the driver raised: `TakenForDeadline` lets the caller
cancel, and report as expired, a call whose worker has already failed.

Outside the code: a pool hands out an idle connection or opens one within its
limit; a `StaticPool` hands the same one to everyone, and closing it leaves the
next caller with a new, empty in-memory database; an interrupt may make
whatever the connection is doing fail; a remote commit may happen and its
acknowledgement be lost; session resets may fail remotely, and locally when an
interrupt hits them; so may the ping of a connection in memory, which its pool
then closes.

`Writes` are calls whose statement the database runs inside the transaction.
DDL that commits by itself is the subject of `ScriptRun`.

### ClientCache, Configuration, Dialects

Each tool call is a thread. `Enter`, `ReadConnections`, `ReadWrites` and
`Construct` are `get_api` under `_api_lock`, cut where it reads the
environment, which `Reconfigure` changes at any time; building may raise at
each of them. `BeginReset`, `Dispose` and `Clear` are `reset_api` under the
same lock. `Check`, `Submit`, `Start`, `Expire` and `End` are the call on the
client it was given, which may have been disposed of at any point in between.

`window` records the settings that were in force at some time since the
building of the last client was begun; it is read by no action. What the code
can promise is stated with it: a client torn between two configurations is
possible, but each of its settings was in force in the window, and once the
settings rest and a reset has been made the window is one configuration.

`Configuration` is the parsing of the settings as functions: the order of
precedence of `SQL_CONNECTIONS`, `SQL_URL`, discrete fields and the in-memory
fallback; names, limits, the write allowlist, the default; what
`SqlApi.__init__` rejects. The text of a setting is a record of what JSON
parsing gives, or `Malformed`. `Blank` is a setting without a text; white space
alone counts as none where the code strips it, while as `SQL_DIALECT` or
`SQL_HOST` it selects the discrete fields like any text. The settings that one
function reads are read at once; between the functions they may change. `Dialects` is the table with its aliases.

### ScriptRun

`execute` and `execute_script` (`op`). `Gate`, `Check` and `Engine` are the
places where an operation resolves a connection, between which `Regrant` may
change what the caller is entitled to. `Execute`, `ExecuteFails`,
`CommitFails` and `Commit` are the transaction. A statement is one of five
kinds; what its database does with the transaction depends on dialect and
kind: MySQL and Oracle commit at DDL and at statements like it, the driver of
SQLite begins a transaction only at DML. `pending` are effects a rollback
undoes, `durable` those it does not. A server may have committed when COMMIT,
or a statement that commits by itself, raises, because its answer was lost
(`Remote`); on SQLite it has not. `AnswerIsTrue` therefore lets a failure leave
something behind only there: at the end of a transaction on a server.

What an identity may use (`Grants`) is a set of names, or `NoIdentity` when it
is not authenticated or its credential has expired: `_entitled` then raises,
and every look-up is refused until the grants change again.

### ReadCalls

`TakeNames`, `Resolve`, `LookUpDialect`, `Engine`, `Run` and `RunFails` are
the sequence that the reading operations share, each entering it where its
code does: `query`, the lists and `sample_rows` resolve once, `ping` and
`pool_status` twice, `explain` and the others that need the dialect three
times. `ping_all` makes one `ping` after another and turns what they raise
into entries (`Conclude`); without an identity `connection_names()` raises
before the first of them, and `ping_all` with it (`TakeNames`). `NextPage` is a caller that advances by the length
of the page it got, while `Create` and `Drop` change the tables.

### Scanner

A text is a sequence of items: whole words, the characters that steer the
scanner, white space. `Keep`, `OpenLiteral`, `InLiteral` and so on are single
turns of the five loops of `strip_literals_and_comments`; `mode` is the loop.
The gates are functions of the text that comes out (`ReadOnly`, `Managed`,
`SingleStatement`, `PragmaReads`). The reference (`Code`, `RefusedBy`) does
not scan: it says of each element where it ends, a literal at the first run
of its quote that leaves an odd number of quotes, and takes as code what is
in no such element.

### ResultEnvelope, Cells

`TakeRow`, `StopAtBytes` and `RowsCopied` are the loop of
`_collect_bounded_rows`; `Fetched`, `Deduped` and `truncated` are what
`fetchmany(cap + 1)`, `_dedupe_columns` and the last lines of
`_result_envelope` compute. A row is the length of its JSON text. A name is a
sequence, so that `a__2` made from `a` can meet an `a__2` that is there.

In `Cells` a value is a tree whose leaves are sizes. `JsonSafe` follows the
recursion of `_json_safe_value` by the number of levels it may still go down:
text clipped, bytes cut and encoded, the items of containers capped, mapping
keys merged when their text is the same, and every level measured as JSON and
clipped again. A container carries the bytes of its JSON text. How long
`str(value)` is where the depth is exceeded is a constant, `StrSize`, and
`str(normalized)` is taken to be as long as the JSON text. Text is taken to
need no escapes, and a key to have one character: the sizes are those of the
JSON text under these conditions.

### CatalogIngest

`ReflectObject`, `CatalogEnds` and `ReflectionFails` are `schema_catalog`;
`OpenObject`, `AddKey`, `AddPart`, `PassPart` and `MappingEnds` are the nested
loops of `catalog_to_entities`; `Submit` is `ingest_entities`, whose service
commits everything or raises. A name is a sequence of words, as dots join them
in identifiers.

## Runs

| Run | What is checked | Bounds |
|---|---|---|
| `sqlrun_memory` | types; one user per connection; the database is lost by expiry only; dispose is final; `CallContract` and `ClientLife` are implemented | a write of an event loop task and a read of a thread on an in-memory database, two workers, `dispose` at any point |
| `sqlrun_pool` | slots add up and answers are true | two writes and a read compete for two slots, one worker and one remote connection; the writes are interchangeable (symmetry) |
| `sqlrun_fair` | every call is answered; slots, registrations, connections and locks come back; a write that expired in time stays out | a write by an event loop task whose statement ends and a read whose statement may not, one worker, one pooled connection, with `dispose` |
| `client_cache` | one open client; the settled configuration; dialects survive; revoked writes do not start; `get_api` returns; each client keeps `ClientLife` | a write and a read, one reset, any number of changes between four environments: a grant, its revocation, names that differ in white space, one that cannot be built |
| `script_run` | all or nothing, true answers, only where checked | scripts of up to four statements of five kinds with limit three, four connections on three dialects, any change of entitlements, an expired identity included |
| `read_calls` | reports are about their target; `ping_all` is complete; `capabilities` is true; a pager sees every name once | four connections, one under an alias, one the registry does not know and one whose backend SQLAlchemy does not know, any change of entitlements, three tables that come and go once each, limits below, at and above the cap: 2.7 million states |
| `scanner` | offsets, nothing opens, the mask is exact, reads are reads | every text of up to four of twelve items, every sequence of up to four of fourteen openers and closers, every one of up to three words and marks for the gates, pragmas with up to four more |
| `result_envelope` | caps, honest truncation, distinct plain names | up to three rows of three sizes, four columns, limits below and above them |
| `cells` | cells are bounded, nothing is lost without a mark or marked in vain | leaves below, at and above a limit of 100 bytes, in containers of up to three with two allowed, nested up to and beyond the depth limit |
| `catalog_ingest` | every node linked, every key kept, distinct identifiers, honest flag | pairs of small objects; four tables with three and six foreign keys; six views; dotted names; five values of `max_objects` |

Why these bounds are enough: two calls are what it takes to meet on a
connection, a lock, a slot or a client, and three to have one that waits for a
slot, one that waits for the worker and one that runs; every call may fail,
expire and be aborted at every point. One reset gives two clients, and the
second is already built with the first one's callers still under way. Limits
are chosen so that each is reached and each is missed by one. In
`catalog_ingest` four tables with three keys use the credit of links up to its
last unit at every cap. The scanner looks at most two characters ahead and
keeps one of seven modes, so four fragments make every pair of elements touch,
nest and stay open. Where a theorem exists (below) the bound does not matter.

`CHECK_DEADLOCK` is off, except in `client_cache`, because calls, scripts,
scans and ingests end.

Two runs end in a violation on purpose: each checks what a document or comment
says of the program and shows how the code departs from it.

| Run | Claim | What happens |
|---|---|---|
| `sqlrun_torn` | dispose closes no connection beneath an active worker (comment in `dispose`) | a future that runs before it is registered is overlooked |
| `script_run_sqlite` | a script is all or nothing (`execute_script`) | a DDL statement before the first DML is outside the transaction |

### Where the properties stop

Some properties hold only with a condition, or only of a part, because the
code does no more. What was met on the way:

- A deadline that passes between the worker's last look at `timed_out` and its
  commit reports a timeout for a write that commits (`ExpiredWriteStaysOut`
  speaks of the time before; in `CallContract` a timeout means that the
  outcome is unknown).
- The database of an in-memory connection is lost when the worker notices its
  expiry before the interrupt is recorded as supported: it then invalidates
  the only connection, although every call shares one database
  (`DatabaseLostByExpiryOnly` bounds this to expired calls).
- Columns `a, a, a__2` come out as two columns named `a__2`, and rows lose a
  value (`PlainNamesDistinct` leaves such names out).
- On MySQL and Oracle `GRANT`, `ANALYZE` and others commit implicitly and are
  not among the keywords `_assert_script_ddl_is_atomic` looks for
  (`Transactional` leaves them out).
- `max_objects` of the ingest tool caps nodes and not reflected objects: with
  1, only the schema node is ingested. `source_truncated` tells of the catalog
  and not of this cap, nor of columns beyond `max_rows`.
- Identifiers in the graph join names with dots, so dotted names can meet
  (`NodesDistinct` is about names without them).
- `SQL_CONNECTIONS` keeps white space around a name and
  `SQL_WRITE_CONNECTIONS` does not, so a padded connection can never be
  granted writes, although the error tells the user to add its exact name.
- Two keys of a mapping with the same text (`1` and `"1"`) become one without
  a mark (`KeysDistinct`), and bytes over about three quarters of the cell
  limit become clipped text, so their own mark never survives.
- `view_definition` and `table_ddl` cut long text without a mark, and the
  `truncated` flag of a result ignores clipped cells.
- A caller that pages without naming a connection can be given another one
  between two pages (`EveryNameOnce` is about a named one).
- A client built while the settings change may mix two configurations until
  the next reset (`SettledConfiguration`, `RevokedWritesDoNotStart`).

### Fairness

`SqlRun!FairSpec` assumes weak fairness of each caller (its thread or task is
scheduled and its timer fires, and the driver's `cancel` or `interrupt` call
returns) and of callbacks and cleanup tasks. Of workers and databases it
assumes something only for the calls in `Ends`: threads are scheduled, the
statement ends, and locks and pools are handed on. The others may run for
ever; that is why the deadline is needed, and `EveryCallAnswered` fails
without `Expire`. That a statement ends is not something the code can enforce
everywhere, so `EverythingReturned` is about calls in `Ends`. No fairness is
assumed of `Call`, `Abort` or the disposer, which need not happen.

`ClientCache!FairSpec` assumes that threads inside `get_api` and a reset that
has begun go on, and nothing of statements, of changes of the settings, or
that anybody resets. Weak fairness is enough for the lock, because only
finitely many calls and resets compete for it.

## Theorems

Each module's invariant is first checked by TLC and then proved inductive; the
constants are arbitrary up to the named assumptions in the modules
(`OpsAssumption`, `EnginesAssumption`, `LimitsAssumption` and so on: the set of
calls is finite, limits are positive, sequences are sequences).

- **SqlRunProofs.** The invariant is `TypeOK`, `Lives`, `AllDebts`, `Balance`
  and `Disposal`. `Life` ties caller, future, worker and database of one call
  together, since a caller answers from a result that was left long before;
  `Debts` and `Balance` say who owes a slot, without which a release cannot be
  shown to stay below the semaphore's bound; `Disposal` orders `_closed`
  before the emptying of the caches. From it: `TypeCorrect`, `SlotsAddUp`,
  `AnswersAreTrue`, `DisposeIsFinal`, `NothingLeftQueued`; `KeepsContract` and
  `LifeIsKept`, that each step is one of `CallContract` and of `ClientLife` or
  changes nothing there; and `ExpiredWritesStayOut`, since the worker of a
  write that expired in time can only turn to its end. A second invariant,
  `PInv`, is about connections: one of a `QueuePool` is idle or used by one
  worker; until `dispose` clears the caches the operation lock of an in-memory
  database is registered before any worker looks for it, one worker holds it,
  and whoever is on the connection does; the database has one connection until
  a call expires. From it `NobodySharesAConnection` and
  `DatabaseOutlivesItsCalls`. For every number of calls, workers, engines and
  connections.
- **ClientCacheProofs.** Clients are built one after another and all but the
  cached one are closed; a call waits in the queue of an open client only; and
  each write setting of the cached client, and of the one being built, was in
  force in the window. From it `CacheTyped`, `CacheOneOpen`,
  `RevokedWritesStayOut`, `ResetIsEnough`, and `ClientsKeepLife`, that each
  step is one of `ClientLife` for each of two clients or changes nothing there;
  for any number of calls, resets and environments. `DialectsAreKept` comes
  from the table of dialects and the parsing alone: no two dialects share a
  backend, so the way back from a URL can only end where it began.
- **ScannerProofs.** Output and input are aligned, and what was put out opens
  nothing, although the last item may be half of an opener whose other half
  is still to be read. From it `ScannerTyped`, `ScannerAligned` and
  `ScannerExhaustive`. A second invariant ties the scanner to the reference:
  in its main loop it stands where an element of the reference starts, in any
  other loop the element it is in started before and can end no earlier than
  where it stands. From it `ScannerExact`; with a lemma on the joined words of
  the text that comes out, `ScannerReads`; and `ReadsAreManaged`, that the
  words a read may begin with are none that control a transaction. For every
  text.
- **ResultEnvelopeProofs.** The loop invariant says where the copy stopped and
  why. From it `EnvelopeTyped`, `EnvelopeBounded`, `EnvelopeHonest`; and
  `EnvelopeDistinct` by counting repetitions.
- **ScriptRunProofs.** One invariant per phase: nothing has run before the
  engine is chosen; while statements run, they run on a writable connection
  for which the script was checked, because a resolved name resolves to itself
  or not at all, and nothing is durable yet where the database is
  transactional. From it `ScriptTyped`, `ScriptAtomic`, `ScriptAnswers`,
  `ScriptPlacement`.
- **CatalogIngestProofs.** A node pays for its own link and, if it is a table,
  for three foreign keys. `Credit` says that the links made and the keys of the
  table at hand never exceed what the nodes have paid, so the cap on links,
  four per node, cannot be reached before the cap on nodes. With `KeysInHand`,
  which follows each key from the table to its link, this gives
  `CatalogLinked` and `CatalogKeysKept`; `Honest` gives `CatalogHonest`,
  and `CatalogTyped` the caps. `Owned`
  says that each node belongs to an object that the mapper has opened, and
  that what it has yet to open or to add has no node; a path that begins with
  a name of one word can be taken apart again, so `CatalogDistinct`.
- **ReadCallsProofs.** `Route` follows a call through its look-ups: a name
  that was resolved, or given, is the only one later look-ups can return,
  because `resolve_connection` answers a name with itself or raises. `Pings`
  says which entry of `ping_all` is being made and that those before it are
  about their names; `Truth`, that the call was not stopped where
  `capabilities` says it works, nor the other way round. `Pager` is about
  ranks: as long as nothing was dropped, a table that was there from the start
  was seen or its rank in the listing is at least the number of names seen; as
  long as nothing was created, the tables seen increase and precede every
  table of such a rank. From it `TypeCorrect`, `ReportsAreAboutTheTarget`,
  `PingAllAnswersForEach`, `CapabilitiesAreTrue`, `EveryNameComesOnce`, for
  any registry, set of tables, limit and cap. `InstalledAssumption` is about
  SQLAlchemy: it has no dialect of its own under the names `postgres`, `pg`,
  `pgsql` and `sqlite3`, so no engine is made for a URL with one of these, and
  the name in the URL and that of the dialect agree where a session is made
  read-only. Without it `CapabilitiesTrue` would not hold, since the registry
  knows these names as aliases.

- **CellsProofs.** What `_json_safe_value` computes is proved by induction on
  the levels it may still go down. `SizeBounded` bounds the bytes of a cell
  and `CellsNarrow` its items and its depth, which give `CellsBounded`;
  `CleanIsWhole`, that a cell without a mark is the whole value, gives
  `LossesAreMarked`: the conditions of a value are those of its parts
  (`Inherited`), and a container comes through as a whole if its items do
  (`ItemByItem`); `FitIsWhole` gives `NothingMarkedInVain`, because no item of
  a container has more bytes than the container (`ContainerSize`). For any
  values, sizes, limits and depth. `ValuesAssumption` says what a value is
  (each part of one is a value, and a mapping has as many keys as items) and
  `StrSizeAssumption` that a text has a length.

Induction over the positions of a text or a sequence, and over levels, is done
with the least number at which a claim fails (`LeastNumber` in
`ScannerProofs` and `CellsProofs`, from `WellFoundedInduction`), since the
induction theorems that take an operator cannot be used. For the same reason
that the recursive functions of `Cells` exist is proved once for all of them
(`Recursion`), by building one up to each number.

Model-checked only:

- `EveryCallAnswered`, `EverythingReturned`, `GetApiReturns`: liveness is
  outside the prover. Every other property that a run checks is a theorem.

The type invariants of `Scanner`, `ResultEnvelope`, `ScriptRun` and
`CatalogIngest` are proved and not run.

## Not modelled

- What drivers do inside a call, beyond that it ends, fails or does neither.
- The event loop as such. A task whose loop stops before its cleanup task has
  run, and an operation that is made but never awaited, keep their slots in
  the code; the model always lets the cleanup run.
- MCP tools, facade, server start: argument passing, lazy import and the
  start of a library server. What `sql_ingest_schema` does with a catalog is in
  `CatalogIngest`, the block in which it runs `schema_catalog` in `SqlRun`
  (`Async`). Its switch `allow_kg_ingest()` is left out: a call that it turns
  away changes nothing.
- Connector contracts (`connector_contracts.py`, 630 lines) and response
  models: constant records and types without functions.
- PGWire credentials: a command that computes and prints, without state.
- `describe_connections`, which redacts URLs, and what reflection copies from
  the inspector into each record.
- Parameter batches: they are part of a statement, but an empty one is
  modelled.
- Whether a driver is installed: `engine()` may fail.
- In the catalog, foreign keys into other schemas and columns beyond
  `max_rows`.

## Plan

Done: run path, envelope, scripts, catalog, scanner, process-wide client,
reading operations, cells, and the proofs above. What is left, in order:

1. An event loop around `_AsyncSqlOperation`: a loop that stops, an operation
   never awaited, and which slots they keep.
2. Referred schemas in `CatalogIngest`.
