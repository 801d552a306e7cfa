# Formal models of nest-profiler

nest-profiler records what a NestJS application does for one request, command or
message (an *entrypoint*): its timings, queries, logs, outgoing calls and exceptions.
A profile is opened when the entrypoint starts, filled by instrumentation, closed,
passed through collectors and analysis, and stored for a dashboard. This directory
holds TLA+ models of the parts where the order of events matters, the TLC
configurations that check them on small instances, and proofs checked by TLAPS that
hold for every instance.

Source paths below are relative to `src/packages/nest-profiler/src/` unless they
start with `src/`. `PROJECT.json` maps every definition to the lines it stands for.

## 1. Inventory

| Component | State it keeps | Operations | What is hard about it | Modelled by |
|---|---|---|---|---|
| HTTP request lifecycle (`middleware/profiler.middleware.ts`, `interceptors/profiler.interceptor.ts`, `exception-filters/`, `utils/http-capture.util.ts`, `utils/profile-runtime-state.ts`) | the live profile; latches `deferCollection`, `settled`, `completed`, `exceptionRecorded`; the measured transport | open, intercept, emit, throw, catch, write, finish, close | three actors may close one profile; the response may start before and end after the handler; clients go away; failures cross several layers | `RequestLifecycle` |
| Collection and analysis (`collectors/collector-registry.service.ts`, `analysis/profiler-analyzer.ts`, `services/profiler-core.service.ts`) | entries under the collectors' private keys; the panels | `collectAll`, `analyzeProfile`, `buildTrace` | collectors drain destructively, hang, throw; a panel may be an error | `RequestLifecycle`, `PerformanceRules`, `ProfilePages` |
| GraphQL adapter (`src/packages/nest-profiler-graphql`) | the operation mark on the profile | enrich profile, enrich response, match a driver's answer | the status and errors are known only from the envelope, after the root resolver | `RequestLifecycle`, `Discovery` |
| Deferred work and shutdown (`services/profiler-core.service.ts`) | the set of tracked promises | track, flush, shut down | work arrives while a flush waits; an adapter hangs | `DeferredWork` |
| File storage (`storage/file-storage.adapter.ts`) | files, temporary files, sidecar; per process an index, a cache, a lock chain | save, findAll/query/findOne, clear, load, evict | processes share the directory; reads leave the lock; processes die between two file operations | `FileStorage` |
| SQLite storage (`storage/sqlite/`) | the table; per process a row counter and a sweep counter | save, evict, clear, configure, list queries | the counter is kept by hand between awaits, beside other calls and other processes | `SqliteStorage`, `ListQuery` |
| Memory storage and summaries (`storage/memory-storage.adapter.ts`, `profile-summary.ts`) | a map in insertion order | save, evict, query | profiles go between the queries of one page | `Dashboard`, `ListQuery` |
| Trace builder (`trace/build-trace.ts` and its helpers) | none: spans and entries in, one tree out | gather, infer parents, widen | parents that are missing, unknown or out of order | `TraceTree` |
| Instrumentation and tracer (`instrument/`, `services/tracer.service.ts`, `trace/run-in-span.ts`) | proxies and their caches; the active span of each context; a re-entrancy mark per method | decorate, read a member, call, await, settle | calls of several requests interleave over shared providers; methods call themselves; what is wrapped must behave as before | `MethodSpans`, `InstrumentChoice` |
| Failures (`analysis/to-exception-entry.ts`, `utils/source-context.util.ts`) | a bounded cache of source files | capture an error, its causes, its frames | a stack is text others write parts of, and files are read because of it | `ExceptionEntries` |
| Performance rules (`analysis/builtin-rules.ts`, `profiler-error.ts`) | none | tag entries and the profile, aggregate | a rule that throws halfway; one id from several collectors | `PerformanceRules` |
| Dashboard and list (`controllers/`, `list-filters/`, `storage/profiler-query.ts`, `guards/`) | none between requests | filter, sort, page, show a profile, explain a query | one page is several queries, the store moves between them; equal keys across pages; two storages answer alike | `Dashboard`, `ListQuery`, `ProfilePages` |
| Runtime metrics (`runtime/`) | a running total, a window, a bounded history | sample, observe, stop | the observer reports late; a reading fails | `RuntimeMetrics` |
| Redaction and safe data (`utils/redact*.ts`, `safe-data.utils.ts`), logger adapter | none | bound, mask | cycles, BigInts and depth reach a profile along four paths | `CapturedData`, `Masking` |
| Browser client (`client/`) | the diagram's theme, script, renders, viewport | open, flip, render, resize, drag | the theme flips while the script loads or a render runs | `SchemaDiagram` |
| Module wiring (`nest-profiler.module.ts`, `collector-module.builder.ts`, every `*.module.ts`, `optional-peer.util.ts`) | what is registered with the core | build, configure, initialise | packages on, off and global in every mix; prefixes; broken peers | `ModuleWiring` |
| Package `ai` | open operations, calls, tools; agents' frames; process-wide settings and prices | the SDK's callbacks, capture, price loads | operations run concurrently, end twice or late; usage is reported at two levels; a truncated text still hides its secret | `AiTelemetry`, `AiSetup`, `AiContent` |
| Package `http` | phases under way, pending handshakes, interceptor pairs | send, answer, retry, time | undici publishes phases without saying whose; sockets are reused; hosts retry and replace | `HttpClient`, `AxiosCalls`, `ClientRequestTimer` |
| Package `mongoose` | patched prototypes; an override on the document being saved | save, query, aggregate, bulk write, cursor, schema panel | overlapping saves of one document; a cursor ends in several ways | `MongoCommands`, `SchemaGraph` |
| Packages `typeorm`, `mikro-orm`, `cache`, `validator` | layers of wrappers over shared objects | install, remove, call, stream, schema panel, explain | a driver hands one runner out again; applications share a store | `DriverQueries`, `SchemaGraph`, `ProfilePages` |
| Package `event-emitter` | the emissions under way | emit, call a listener, await it | listeners nest and settle after the emitter returned | `EventProfiling`, `Discovery` |
| Package `rabbitmq` | headers of the messages | publish, deliver, redeliver | three parties may have set the trace id | `Messaging`, `RabbitSurface`, `Discovery` |
| Package `commander` | the runs; a wrapper per command | parse, run, persist, close | the profile is stored before the caller is told, whatever fails | `CommandRuns`, `Discovery` |
| Packages `auth`, `config`, `routes` | what is read at bootstrap or collection | read, mask, list | configuration and users carry secrets under any key | `SecretPanels`, `Discovery` |

How they interact: the middleware puts the profile in an `AsyncLocalStorage` context;
instrumentation appends entries to the profile found there, each package under a key of
its own. The interceptor or the finish hook closes the profile and hands it to the core
service, which runs the collectors, builds the trace, runs the analysis and calls the
storage adapter, tracking the promise. The dashboard reads the adapter. Requests share
nothing but the tracked set, the store and the process-wide patches; one request is
modelled by itself and the shared parts by theirs.

Correctness, per component:

- *Lifecycle*: a profile is closed once and collected once, whoever gets there first;
  nothing recorded by the request's own work is lost; one failure is one exception
  entry; what is stored last is the final profile; every profile is stored in the end.
- *Collection*: order and destructive drain are respected, one bad collector costs its
  own panel, one bad rule its own tags.
- *Deferred work*: a flush that returns leaves nothing in flight; shutdown closes the
  store after the work or after its bound, and always.
- *Stores*: a saved profile is kept until it expires, is cleared or is the oldest over
  the cap; a read returns what was saved before it; the store stays within the cap and
  does not evict below it; the list's filters mean the same in memory and in SQL.
- *Instrumentation packages*: each operation leaves one entry, on the profile it ran
  for, with its own outcome, and the application behaves as if nothing were wrapped.
- *Panels and pages*: everything that is there is shown once and in its place, and what
  is masked by its key or its shape is masked wherever the redaction still sees that key
  or shape (section 6 names where it does not).

## 2. Modules

| Module | What it is |
|---|---|
| `RequestLifecycle` | one request over one profile: middleware, guard, interceptor, handler kinds, filters, transport, finish hook, pipeline, save |
| `ProfileRecord` | the abstract record: opened, closed once, collected once, stored after closing |
| `MCRequestLifecycle` | model values, and the refinement mapping onto `ProfileRecord` |
| `RequestLifecycleProofs` | type correctness, "the pipeline runs once", "one failure, one entry"; what comes of a request: its panels, status, duration and stored document; the refinement of `ProfileRecord` |
| `DeferredWork`, `DeferredWorkProofs` | the tracked set, flushes, shutdown |
| `FileStorage`, `MCFileStorage` | the directory, its processes and their calls |
| `FileStorageProofs` | the lock, type correctness, and the three promises of the store |
| `SqliteStorage`, `MCSqliteStorage` | the table, its processes and their calls |
| `SqliteStorageProofs` | type correctness and the exactness of the counter |
| `MethodSpans`, `InstrumentChoice` | the spans of wrapped calls; which members are wrapped, and what the wrapper hands back |
| `TraceTree`, `PerformanceRules` | the tree made of a profile's spans; the rules and their tags |
| `Dashboard`, `ListQuery`, `ProfilePages` | the pages of the list beside saves and expiry; the filters on two storages; the tabs, views and query plans |
| `RuntimeMetrics`, `CapturedData`, `ExceptionEntries`, `SchemaDiagram`, `SchemaGraph` | the sampler; captured values; captured failures; the diagram in the browser; what is in it |
| `MCCore` | model values for these, for `AiContent` and for `SecretPanels`, one explored at a time |
| `AiTelemetry`, `AiSetup`, `AiContent` | the AI SDK's callbacks; what the process holds; what is kept of a content |
| `HttpClient`, `AxiosCalls`, `ClientRequestTimer` | fetch and axios calls with their phases; interceptors, retries and breakdowns; node's request timer |
| `MongoCommands`, `DriverQueries` | Mongoose commands; the wrappers of TypeORM, MikroORM, the cache and the validation pipe |
| `EventProfiling`, `Messaging`, `CommandRuns` | entrypoints that are not HTTP: listeners, messages, commands |
| `PackageProofs` | commands, awaited listeners, emissions and Mongoose's entries, one section each |
| `TelemetryProofs` | what folds compute; the sampler's accounts, the entries of the AI package, the spans of calls |
| `RabbitSurface`, `Discovery`, `ModuleWiring` | what the broker is configured with; the Discover views; how an application comes up |
| `Masking`, `SecretPanels` | redaction over texts in a value; the Config and Security panels |
| `MCPackages`, `MCHttpClient` | model values for the packages, one explored at a time; `HttpClient` by itself for the violated run |
| `MCPackagesProofs` | HTTP calls, driver calls, prices and the request timer; then all packages together |

JavaScript runs one callback at a time, so an action is the code between two awaits;
a file operation or an SQL statement is atomic and a step of its own. Operators named
after a fault (`BackfillCollects`, `ReaddirEarly`, ...) are wrong variants of the
operator they stand beside. No specification uses them: they replace it in the mutants
of `PROJECT.json`, to show that each property can fail.

The parts collected by `MCCore` and by `MCPackages` share no state in the program: they
meet only in the profile, where each owns a key. A behaviour therefore picks one part
(`subject`) and leaves the others in an initial state; exploring their product would
multiply the states and add no interaction. The invariants that join the properties of
several parts look at the part the behaviour picked. Parts that do interact are in one
module (fetch with axios in `HttpClient`, the cache with the ORMs' wrappers over the
applications that share them in `DriverQueries`) or one extends the other (`Discovery`
takes `RabbitSurface`, `AiContent` and `SecretPanels` take `Masking`). `AiContent` and
`SecretPanels` are explored with the core because they walk texts and trees with
RECURSIVE operators, which `MCPackages` must not reach to be proved about. Variables and
operators carry a two-letter prefix per module so that they can be extended together.

### RequestLifecycle

`handler` ranges over the kinds of route that the code tells apart (a value, nothing,
an HTML page, a REST body with a `query` field, a stream, an `@Res()` handler, a
GraphQL operation, a GraphQL request no resolver sees). `phase` is where the framework
is. `Use`, `Intercept`, the `Emit*` actions, `Throw`, `ResolverThrows`, `FilterCatches`,
`Finish` and `Close` are the code's handlers; `GuardRejects`, `AppFilterCatches`,
`Reply`, `ReplyFails`, `Write` and `EndResponse` are what NestJS, the application and
Node do between them (the part that records what is written is the code's). A pipeline
is a job with the collector it is at and the entries it has drained; `CollectNext`,
`CollectLast` and `CollectRejects` are one collector's answer each, a failure standing
for a throw and for the registry's timeout alike.

Abstracted: bodies are none / whole / part / a GraphQL envelope with errors, statuses
ok / error, entries are counted per collector, a stream is told by its chunks. Headers,
redaction and the panels' content are left out. `history` is read by no action's
guard except where it bounds the inputs (`failures`, `entries`, `emissions`).

### DeferredWork

`work` is the state of each promise given to `track`; `pending` is the code's set;
a flush is a drain that awaits a snapshot of the set, again and again. `Timeout` is the
5 s bound of shutdown, which may fire whenever it is armed.

### FileStorage

`queue` is the lock's chain of promises: the first call in it runs. `files` maps a
profile to the version saved last, which also stands for the file's mtime (two saves
of one profile are assumed to get different mtimes). `reads` holds every `readProfile`
in flight, which runs in three steps (stat, read, parse) because those of `findAll` and
`query` run outside the lock. `Seed`, `Scan`, `SweepTemps`, `Reconcile`,
`SummarizeLoad` are the start; `Readdir`, `Reconcile`, `SummarizeRead` the
synchronisation before a read; `Write`, `Rename`, `Stat`, `Unlink`, `Persist` a save.
Writing and renaming the sidecar is one step that may fail; when two processes write it
together it may end up unreadable.

Left out: a profile's file that cannot be written or parsed, a directory that cannot be
listed, filters and pages (`query`, `distinct`).

### SqliteStorage

Each statement of `save`, `evict` and `clear` is a step (`Select`, `Insert`, `Sweep`,
`Count`, `Trim`, `Delete`), and so is the code after its await where it touches the
counters (`Inserted`, `Counted`, `Trimmed`, `Deleted`). `Restart` is a process that dies
with its calls and runs `configure`. `drift` marks a process whose counter may be off
because calls of its own interleaved or another process wrote; a re-count by a call that
is alone clears it.

### MethodSpans and InstrumentChoice

`spStack` is the JavaScript stack: `Invoke` pushes a call, `AwaitInside` takes it off at
an await and `Continue` brings it back on an empty stack, so several tasks interleave.
`spStores` are the context's stores (the active span, the depth), `spTracing` the
methods whose re-entrancy mark is set. A method decorated with `@Span` on an instrumented
provider opens two spans, `span` in the proxy's wrapper and `inner` in the decorator's.
`StartSpan`/`EndSpan` are the manual tracer,
`CaptureError` the error records. `InstrumentChoice` models `instanceDecorator` and the
proxy's `get` trap over providers whose members may be private, bound, inherited,
excluded, aliased or frozen; its calls matter for the receiver they run on and for the
frame they leave in an error.

### TraceTree and PerformanceRules

`buildTrace` is one step: `Gathered` collects the lifecycle phases and each
contributor's spans, `Inferred` gives a parent to the spans that report none, and the
last pass (`DeepestFirst`) widens windows. The rules run one per step so that one may
throw between two others; `ruAsked` is the history of what they asked for, and
`AggregateTags` what the list shows.

### Dashboard, ListQuery and ProfilePages

A page of the list is several steps (`RequestPage`, `PassGuard`, `QueryPage`,
`QueryLastPage`, `CountAll`, `Respond`) with saves, expiry and `clear` between them.
`ListQuery` translates a query string into filters and answers them twice, by the
in-memory predicate and by the SQL, over summaries; a text is a sequence of chunks that
JavaScript and SQLite lower-case differently. Each store has its own end of a time to
live (`LiveAt`), and the catch-all section offers the options of all types (`OfferedBy`).
`ProfilePages` takes the data further: the registry's order, groups, badges, split views,
the home page, `EXPLAIN`, and the reading of the plans. A captured SQL text is the words
its statements start with: the runner looks at the first to decide whether the text is
measured, and a driver that takes several statements runs those after it as they are
(`Runs`). A plan is a tree of nodes.

### RuntimeMetrics, CapturedData, ExceptionEntries

`rtPending` are collections the observer has not delivered; `Sample` may fail. A value
of `CapturedData` is a rooted graph, so sharing and cycles are there, and Maps, which
bounding turns into lists of pairs (`KindOf`, `KeyOf`); the four ways into
a profile (body, log line, driver parameters, headers) each apply their own sanitisers,
and `SaveCaptured` is the `JSON.stringify` that decides whether the profile exists. A
body too long is replaced by a preview of its text (`Truncated`), `clear` when something
it held under a secret key can be read there.
`ExceptionEntries` captures errors with causes in a circle, payloads that are cut the
same way, and stacks with forged frames; `exReads` is the set of files read because of
them.

### SchemaGraph and SchemaDiagram

The three ORMs' metadata become one normal form, then a diagram: entities, relations
told once from either side, embedded shapes; a Mongoose Map is two paths and so two
columns. In the browser, the script's load and the
renders are queues; a render carries the theme it was asked for.

### AiTelemetry, AiSetup, AiContent, Masking, SecretPanels

The SDK is external: it starts an operation, reports model calls over attempts, runs
tools and ends or fails, two operations at a time. An operation's frame comes from the
agents it is called through. `AiSetup` has two applications registering with one
process: the integration, the levels, the price registry with its reloads (from a source
that answers, fails or throws where it is called), the patched harness. `AiContent`
applies a field's level to a value: mask, scrub, cut, with the margin by which more is
scanned than kept. `Masking` is `redact`/`redactString` on texts; a credential is a run
of characters between two delimiters, which is what makes a cut through it visible.
`SecretPanels` reads the configuration once and the user when the profile is collected.

### HttpClient, AxiosCalls, ClientRequestTimer

A call of `HttpClient` goes through `Send`, undici's marks, `Answered`/`Refused` and
`BodyRead`; connections (`BeforeConnect`, `Connected`, `ConnectError`) are published
without the call they are for and attributed by socket. `AxiosCalls` puts the host's
interceptors around the profiler's in four orders, with retries on the same config, and
follows a response's objects, in every graph of three, to the breakdown they hold.
`ClientRequestTimer` has listeners on pooled sockets that outlive their request unless
detached.

### MongoCommands and DriverQueries

All saves are of one document, edited between them: `mgDocument` holds who has
Mongoose's lock on it and the chain of `$__delta` overrides that saves put on it;
`mgOwnDelta` is what each save found there. Any number of saves may be refused while one
is under way, and each puts back what it found; a save nothing profiles puts nothing
back. `SaveEnds` is Mongoose giving the lock back, `SettleSave` the wrapper's `finally`
some microtasks later, between which another save may start. Queries, aggregates, bulk
writes and cursors are calls with their own settling. `DriverQueries` installs and
removes wrappers (`dqLayers`) over a driver, a logger and a store, while calls are under
way; a driver may hand out one runner or a fresh one.

### EventProfiling, Messaging, CommandRuns

`evStack` is the stack of emissions and listeners; a listener that awaits leaves it and
settles later, in a branch of the emitter's context. A message is delivered in any order
and again until its handler succeeded; its headers are the caller's, the publisher's and
the profiler's. A command is parsed, run, persisted and only then reported over, while
the application may close.

### RabbitSurface, Discovery, ModuleWiring

`RabbitSurface` is a set of pure operators: connections, handlers and module options to
subscriptions and topology. `Discovery` registers its sources in any order of bootstrap
and renders them. `ModuleWiring` follows Nest's phases: built, instantiated, configured,
routed, started; a provider sees what its module, its imports and the global modules
export. Peers are specifiers whose package is installed, absent, without the file asked
for, refusing its manifest or broken.

## 3. Runs

| Run | Instance | What it shows |
|---|---|---|
| `request_lifecycle` | every kind of route; 2 collectors, both may fail, one taggable; 2 emissions, 2 entries, 2 chunks of which 1 fits the buffer; a store that may refuse; a response that may not take listeners | nine safety and action properties, that the profile is eventually stored, and that the request implements `ProfileRecord` |
| `failing_collector` | collector 1 may fail | *violated*: a failed taggable collector loses the profile |
| `served_status` | serialising may fail | *violated*: the stored status is not the one served |
| `deferred_work` | 3 promises, one of which may hang; a test's flush and shutdown's | the flush is complete, shutdown waits and ends |
| `file_storage` | a server that saves a profile twice and clears, a command that saves and reads; cap 1; one death or one failed sidecar write; one profile may expire | saves stay indexed, survive until evicted oldest first, and are read back |
| `stale_sidecar` | one process, one restart, one failed write | *violated*: a stale summary survives the next start |
| `swept_temps` | a start beside a save | *violated*: the save fails |
| `sqlite_storage` | a server with three saves (one of them a re-save) and a clear, a command that saves; cap 1, a sweep every 2 saves, one restart, two overlapping calls | the counter is exact and the cap kept for calls that did not interleave |
| `over_eviction` | four concurrent saves, cap 2 | *violated*: the table falls below the cap |
| `packages` | twelve parts, one at a time; 409 thousand distinct states | see below |
| `core` | fourteen parts, one at a time; 377 thousand distinct states | see below |
| `caller_headers` | two fetch calls, one with a `Request`, propagation on | *violated*: the headers of the `Request` are not sent |

`packages` checks:

- `OneEntryPerCall`: a model call through retries and tools, an HTTP call, a Mongoose
  command or cursor, a driver call through the wrappers of several applications and an
  emission whose listeners nest each leave one entry, on the profile they ran for and
  with their own outcome.
- `AiPanelIsHonest`: usage is counted at one level, names, outputs and costs are those of
  the call, prices those of the source configured last or none; the guard of the price
  load is set while one is in flight, and outlives it only when a source threw where it
  was called.
- `HttpCallsAreTold`: no instant counts twice, a handshake is reported by one call, and no
  listener outlives its request.
- `MongoEntriesTellWhatWasSent`: an entry of a save that succeeded tells the delta Mongoose
  sent, under overlapping, refused and repeated saves and beside saves that leave their
  override on the document; a save started between the end of another and its `finally` is
  excepted.
- `AwaitedHandlersStored`: the profile of a listener that was awaited is stored, if
  it can be, before its emitter goes on.
- `SurfacesAreWhole`: every handler is listed, consumers continue the trace they were
  published in, an application comes up with the profiler whole whatever is off beside
  it, and each attempt of an axios call has an entry, whatever the host's interceptors.
- `CommandOutcomeKept`: the caller of a command is told the command's own outcome, when
  its profile is stored or could not be.

`core` checks:

- `SpansAreTheCalls`: the span of a profiled call hangs under the innermost one of its
  nearest traced caller, a decorator's span under that of the method it decorates; each is
  closed once, the inner first, failures marked where they happened.
- `TraceShowsTheCalls`: every timed span of a profile is in its tree once, hangs from the
  root, and lies in its parent's window; and what is wrapped to be timed works as it did
  bare, what is excluded is not traced, and the frames of an error name the class they
  belong to.
- `EveryProfileListedOnce`: walking the pages of all sections meets each live profile
  once.
- `SectionsListWhatIsAsked`: a rendered page is a page of the store as it was, with the
  counts that belong to it; a filter selects what its label names, in memory and in SQL,
  which differ only by the profiles whose age is the time to live.
- `TagsSummariseTheProfile`: one tag per id with the worst severity and the largest
  count, whichever rule threw.
- `PausesCountedOnce`: samples, lost samples and the open window add up to the total.
- `CapturesAreSafeAndWhole`: what is captured can be stored; a member under a secret key
  is masked in a body, within the depth redaction walks, unless it is an entry of a Map
  or shows in the preview of a body too long; the payload of an exception short enough
  to be kept shows no secret; a chain of causes ends, only the project's sources are
  read, entries keep what they must; of an AI call nothing is kept that the field's
  level forbids, whatever the cuts; the Config and Security panels show everything with
  its secrets masked.
- `PagesShowTheirData`: the diagram has each thing once and ends in the theme in force;
  tabs, views, badges and plans are those of the stored profile; explaining a text of one
  statement runs it only if it starts with SELECT.

Each also checks the types of its parts (`PackagesTypeOK`, `CoreTypeOK`), where the
bounds of the code are: the pending handshakes, the memory storage's cap, the history.

Why the bounds are enough. *Lifecycle*: two collectors give a first and a last, with an
await between them; two chunks are the least that make a stream without an event-stream
header, and the second overflows the buffer; two emissions are the least that meet the
`settled` latch. *DeferredWork*: the drain loop needs a second round, so two promises,
and one that hangs. *FileStorage*: with a cap of one the second profile evicts the
first; two states of one profile make a stale cache or summary visible; the second
process supplies foreign files, foreign evictions and the start beside running calls.
*SqliteStorage*: three rows cross the cap with one to spare, and a sweep falls on every
second save so that trims happen with and without one. *packages*: two of everything
that runs concurrently (operations, calls, requests on one socket, applications over one
store), three calls where the third tells a stale state left by the other two (a
document's deltas with two saves refused, a reused runner), one pending handshake so
that the second overflows the queue, three deliveries of two messages so that one is
redelivered after another. *core*: two tasks over two methods with up to three calls
meet re-entrancy across requests; three entries give a container, a child and a
grandchild that arrives out of order; pages of one row over at most three profiles meet
every page boundary; a time to live of two lets a profile of the list reach its age on
either side of it; graphs of four values hold a shared member, a cycle and a path beyond
the depth; a stack limit of 4, a cause limit of 2 and a cache of 2 files are all
exceeded; texts have a credential on either side of each cut and across it. Inputs that
are data (schemas, hosts, configurations, plans) are chosen, not enumerated: each
combines the cases the code tells apart.

Each property is checked to be breakable: `PROJECT.json` pairs it with a mutant of one
mapped definition (a dropped latch, a counter not reduced, a listing outside the lock...)
under which TLC finds it violated.

### Fairness

`RequestLifecycle` assumes that promises settle (a collector's by the registry's
timeout), that a handler emits or throws, that the framework answers, that a started
response is ended and that Node emits `finish` or `close`; it does not assume that any
entry is captured or any chunk written. Each is weak fairness of the action, which is
all an event loop gives. `DeferredWork` assumes that continuations run, that calls of
adapters outside `Hanging` settle, and that the shutdown timer fires (it is unref'd, but
the hook that awaits it is what the process is kept for); nothing is assumed of hanging
ones. The storage modules, `packages` and `core`
are checked for safety only and assume none: their properties speak of what holds once a
call has settled, and whether it settles is the driver's, the broker's or the SDK's
affair. Their configurations allow a deadlock because every behaviour ends when its
calls are over.

## 4. Proofs

All are checked by TLAPS for every value of the constants that the named assumptions of
the modules allow; TLC evaluates those assumptions in the runs. A theorem that is listed
with a property states that property, as its run checks it.

### What is assumed

The assumptions give the constants their domains. Those that say something of the program:

- `FileAssumption`: two saves of one profile are made by one process. A token is a random
  UUID made by the process that serves the entrypoint, and only that process holds the
  live profile; both `OwnSavesIndexed` and `ReadsSeeSaves` need it, since the states of a
  profile are ordered by that process's lock.
- `CmAssumption`, `MgAssumption`, `HcAssumption`, `CrAssumption`, `DqAssumption`,
  `AiAssumption`, `RtAssumption`: the value that stands for "none yet" is none of the
  values it stands in for (outcomes, calls, sockets, entries, counts); `null` and
  `undefined` are no such value in the code. The providers are any sequence, in which a
  provider may come twice, as `DiscoveryService` may list one.
- `MqAssumption`: likewise, for trace ids and names of headers; `AxAssumption`: a number of
  retries is a natural number; `WiAssumption`: a host imports modules of this repository.
- `AsAssumption`: a usage is a record of four counts of tokens, naturals each.
- `EvAssumption` gives the records their fields: handlers and emissions are any
  sequences. Bounds such as `EvMaxExecs` are any natural number.

### `RequestLifecycle`

- `TypeCorrect`: one lemma per action. The lemmas about `Written`, `Replied`,
  `EndedWith` and `Completed` say that what the wrappers leave is a transport or a
  response. The panel's type is the substantial part: a failed collector's panel holds
  no entries.
- `RunsOnce`: `PipelineRunsOnce` is not inductive, since nothing in it prevents a second
  close. `RunsWhenClosed` is: on a watched profile the number of pipelines is one if
  the profile is closed and zero otherwise, and none has run while the request is not
  opened. Every step then keeps the profile as it was, closes it and starts the one
  pipeline, or belongs to a profile no hook watches.
- `OneEntry`: the exceptions of an HTTP route never outnumber its failures. The
  strengthening (`Covered`) is that they are one fewer while a failure is on its way to a
  filter that would record it, and that no such route ever has a GraphQL envelope for a
  body. A step records nothing, or records one failure where it catches it.

The other results rest on one invariant, `IndInv` (theorem `Inductive`): types,
`RunsWhenClosed`, and for a request the finish hook watches

- `HookWatches`: the hook runs once and leaves the profile closed; before it, only an
  emission that is not streamed closes it;
- `NothingStarted`: while the profile is open no collector was drained and nothing stored;
- `OnePipeline`: a closed profile's one pipeline is under way with everything due in a
  panel behind it, in the hands of the running `collect()`, or under a key in front of
  it (`Gathers`); or every panel is there.

Steps are sorted by what they are to the profile: an emission that closes it, the hook,
the pipeline, or anything else (`Elsewhere`), for which a few lemmas say once what it
leaves alone.

- `DueReached`: the third part of `OnePipeline`, when the pipeline is over.
- `StreamMeasured`: only the hook measures a stream, since a streamed emission does not
  close.
- `ToolbarFinished`: `PanelsFilled`, every collector before the running one has its panel.
- `FailureServed`: `StatusServed`, a profile the hook closed holds the status the
  transport was left with; that no later step changes it is `ElsewhereTransport` (the
  status is settled once the response has ended).
- `ResponseBuiltOnce`: the action property `ClosedOnce`, from `IndInv` on both sides of
  a step.
- `StoredFinal`: `StoredLast`, whatever changed a closed profile since its last save has
  a save to come, unless a save was lost or a failure came late.
- `RecordImplemented`: the refinement. Initial states map to `ProfileRecord`'s; a step of
  the request opens, closes, collects into or stores the record, or stutters. That it
  is collected into once is `OnePipeline`; that nothing is collected or stored while it is
  open is `NothingStarted`. A request whose response takes no listeners maps to a record
  that is never opened.

### `DeferredWork` and `SqliteStorage`

- `PendingIsInFlight`: the tracked set is the work in flight.
- `FlushIsComplete`: the loop leaves only with an empty set (`TurnEmpties`), which by
  the previous theorem is no work in flight.
- `ShutdownWaits`: `ShutdownInv` adds what holds before the store is closed, that a
  drained shutdown whose timer did not fire has nothing left of what was tracked
  before it.
- `TableTypeCorrect`: among the types, that a trim is never asked for nothing;
  `DecideType` is the reason.
- `CounterIsExact`: `CounterExact` speaks of a process at rest. `CounterInv` adds, for a
  process that has not drifted, that at most one of its calls is in flight and by how
  much the counter is off at each of that call's awaits (`Followed`): the row just
  inserted, the rows just trimmed. `StepKeeps` reduces a step to what it does to its own
  process; a change of the table by another one is a drift (`WriteDrifts`).

### `FileStorage`

- `LockHeld`: the lock's discipline, on which everything else rests. `Queues` and
  `Discipline` say that a process's queue holds exactly its calls that are under way and
  have not left the lock, each once, and that whoever works on the index or the files is
  its head; `Paths` says which operation may be at which step, and that a process still
  loading has saved nothing.
- `TypeCorrect`: domains; a call is in its process's queue exactly while it may touch
  the index; no file is read for a call that is over.
- `OwnIndexed`: `OwnTold` follows one profile of one process from its rename on. While
  the file is there, the index holds the version on disk or the save in hand is about to
  evict it; and the lock's holder, if it is a listing, has the profile among the names it
  listed and no read of it pending, so that it cannot overwrite the index with less. The
  invariant is about the holder because the index is only ever wrong through a listing
  that began before the save.
- `SavesSurvive`: `Known` (nothing anywhere mentions a profile never renamed into place)
  and `Evictions`: what a call is about to unlink has expired or as many newer profiles
  as the cap were written. The second is stable because nothing leaves `written`, which
  is why it holds although other processes evict from indexes that are out of date.
- `ReadsAreFresh`: four invariants. `InOrder`, a profile's states are saved in the order
  of the queue; `Monotone`, hence a file that was never removed only moves to later
  states; `MtimesFirst`, the stat precedes the content, so a cached or read version is
  never older than the mtime it is kept under, and a cache hit is no older than the
  file; `ReadsSought`, what a read owes is among the listed names, then in the index or
  being read, then in the answer.

### The packages

- `CommandsTold`: `BuiltAsItEnds` says which profiles a run has built from where it
  stands; it is a function of the stage because `WrappedOnce` gives a command one wrapper
  however often its provider is listed, and `BootsFirst` lets no command run before the
  wrapping is over. `ToldWhenOver` and `Kept` follow it to the caller and the store.
- `AwaitedStored`: `Stacked` describes the stack of frames: whoever is on it is still
  dispatching or running, and a listener stands right above the emission that called it.
  `Awaiting` says that a listener under its await is one its emission waits for, so that
  `emitAsync` cannot fulfil before (`FulfilledAfterAll`). The lemmas on sequences
  (`AppendFacts`, `PrefixFacts`, `UpdateFacts`) are what pushing, unwinding and settling
  need, at any depth of nesting.
- `MongoTold`: the chain of overrides on the document has any length and any order, since
  refused saves put back what they found and unprofiled ones nothing. `MgSaves` says what
  is kept of it: the override of the save under way is on the document, and in whatever a
  save it refused would put back (`Observed`), as long as every save refused was refused
  by the save under way or by one that ended and whose `finally` is due (`Refusals`).
  Hence Mongoose reaches that override when it computes the delta, what it keeps is what is
  sent (`AsSent`), and `MgTold` carries that to the entries.
- `MongoRecordedOnce`: `MgOnce` adds how many entries a call has at each of its stages,
  and for a cursor that its entry was told by the way it ended.
- `EmissionsRecordedOnce`: `EvTold` says that a dispatch leaves its entry with its last
  step and on the profile it was emitted from; `EvOwned` that a listener's branch and
  what it emits in turn belong to the emission above it.

### What is counted and traced: `TelemetryProofs` and `MCPackagesProofs`

The models count with folds over sequences and sets, which the library defines by
`CHOOSE` of a recursive function. `FoldUnique` and `FoldExists` say that there is one
such function over every finite set; both take a smallest counterexample (`Smallest`)
where one would use induction, which the prover's induction theorems do not allow. From
them follow what a sum is of one element more or one element changed (`Total`, `Held`).

- `RuntimeCountsPausesOnce`: `RtBalanced` is the equation of the two accounts;
  `RtCharged` relates the baseline of an open profile to the running total and to what was
  observed since, which needs the sampler not to have stopped in between.
- `AiEntriesToldOnce`: `OpOK` is about one operation: what its log holds, as a function
  of where the SDK stands (`OpStaged`), how its calls are numbered (`OpLogged`), which
  is the last one and what was folded into it (`OpLast`), and whether its usage was reported
  by calls or is due from the turn. Operations share the spans, each handed out once,
  and the panel's total; `AiPathsOK` and `FrameFacts` say what is on the stack of agents'
  frames when an entry is named.
- `WaterfallIsTheCalls`: the code never looks at a call's callers, it reads the store
  the call runs in; `SpInv` says that the two agree. `SpNested` gives that store as
  active span the call's own (the decorator's, where it opened two), or else what is
  active above it, and `SpDeep` the depth its callers opened; `SpApart` lets two
  executions share no store, which is what an unprofiled call that writes the depth of
  its caller's store needs, and two calls no span (`SpOwns` covers both of a call's).
  `SpStacked` says that a method marked as being traced is on the stack, so that a call
  that goes untraced for it finds it among its callers, and `SpRecorded` when a span has
  its one record: those of a promise in two microtasks, the inner one's first. `Climbed`
  goes up the callers of a call to what the recursive functions `SpanAbove` and
  `MethodSpansAbove` return.
- `PhasesFit`: `Ordered` puts the marks of a request in the order of time and relates the
  first of them to whether its socket was fresh; `SocketsApart` gives a keep-alive
  socket one open request. The phases are differences of successive marks (`PhasesEach`),
  so that they add up to at most the whole.
- `MessagesContinueTheTrace`: `MqSent` says what a message carries as a function of who
  sent it (the trace of a profile never changes, so it is the same when the message is
  read), and `MqTraced` that each consumer's profile adopted what `AdoptedTrace` finds on
  its message, or kept its own; `MqAdopts` relates the two through the names of headers that
  publisher and consumer may or may not share.
- `AxiosAttemptsTold`: three of the four parts of `AxiosCallsAreTold`, for any chain of
  interceptors with the profiler's pair in it and at most one that retries, any number of
  retries and any answers. `AxCounted` gives the number of entries from where the call
  stands: its attempt, its place in the chain, and how many attempts wait for a retry to
  come back (`AxNested`, their chain of `outer`). A retry sent ahead of the profiler's
  handler leaves its attempts waiting, so that all entries come after the last answer and
  tell of it; a retry sent behind it finds its attempt recorded. `AxAnswered` is what the
  handlers made of the answer so far, `AxMarked` what the config carries from one attempt to
  the next, and `EntryTells` what an entry keeps of both, also once it is in the panel.
  The fourth part, the timings, goes through `SelectSeq`.
- `EntriesOnceEverywhere`, `AiPanelHonest`, `HttpPanelHonest` and `PackagesTyped` are
  what `MCPackages` checks, for every instance. `PackageInv` is the invariant of the
  part that moves: `AiAll`, `MgInv` with `MgOnce`, `EvInv` with `EvTold`, `CmInv`,
  `MqInv`, `CrInv` from above, and
  - `HcInv`: a call has left its one entry exactly if it is over (`HcAllRecorded`); a
    socket has its handshake attributed to one call, the first that used it
    (`Handshakes`), whatever order undici published the connections in;
  - `DqInv`: a target has one wrapper if it carries the mark and none otherwise, and the
    marks of the factory and of the logger outlive the application that set them
    (`LayeredOnce`); so a call goes through one wrapper, which records it when it
    settles, whatever was installed or removed while it was under way (`CallOK`);
  - `AsInv`: as long as no configuration raced a load, a load under way is the only one,
    of the source configured last and with the guard set, and a guard without a load is
    of a source that threw and left no prices (`OneLoad`); a bill is what its usage
    costs, and the cost counts the cached and the reasoning tokens inside the totals
    they are part of.
  - for the types alone: `MgBounded` (an edit is one of the document's, wherever it is
    held), `AxInv` (an entry tells of an attempt that was made, and no answer comes before
    one), `DsInv` and `WiInv` (a list that takes only what it does not have stays without
    repetition; the collectors to discover are finitely many, `ShapesKnown`).

### What stays with TLC

- Liveness (`EventuallyStored`, `FlushEnds`, `ShutdownEnds`): fairness and ENABLED are
  out of the prover's reach.
- `SaveLeavesCap`: how many rows `Oldest` names takes an induction over the table.
- What reaches a RECURSIVE operator. `Masking`, `AiContent`, `SecretPanels` and
  `SchemaGraph` walk texts and trees with such operators, which the prover does not take.
  `MCCore` reaches them, so what it states of all its parts (`CoreTypeOK`,
  `CapturesAreSafeAndWhole`, `PagesShowTheirData`, `SectionsListWhatIsAsked`) is checked
  only; `SurfacesAreWhole` is in the same case through its parts about data.
- `SelectSeq` and `SortSeq` are built into the prover without their definition, so nothing
  can be proved of what they return. `TimingsAreOfTheAnswer` (the timings' part of
  `AxiosCallsAreTold`), `TraceIsOneTree`, `EveryProfileListedOnce` and
  `TagsSummariseTheProfile` depend on them.

## 5. Findings

1. *A failed taggable collector loses the profile* (`failing_collector`,
   `analysis/profiler-analyzer.ts:84`): the panel `{ error }` is iterated outside the
   rules' `try`, the pipeline rejects before the save, although the builder promises that
   a collector that times out costs its panel.
2. *The stored status is not the one served* (`served_status`,
   `middleware/profiler.middleware.ts:286`): a reply that fails to serialise is answered
   500 after the profile was closed with 200; only GraphQL profiles are corrected.
3. *Concurrent saves evict below the cap* (`over_eviction`,
   `storage/sqlite/sqlite-storage.adapter.ts:309`): the trim's limit is computed from a
   counter that another save's trim has not reduced yet.
4. *A failed sidecar write is not recovered* (`stale_sidecar`,
   `storage/file-storage.adapter.ts:262`): the reconciliation adds missing tokens and
   drops vanished ones, it does not correct a summary.
5. *A start removes a live process's temporary file* (`swept_temps`,
   `storage/file-storage.adapter.ts:244`): the other process's save rejects.
6. *A `Request`'s headers are lost with propagation on* (`caller_headers`,
   `src/packages/nest-profiler-http/src/fetch/fetch.instrumentation.ts:171`): the new
   header is added to a copy of `init.headers` and passed as an init, which replaces the
   headers of the `Request` the caller handed over.

## 6. Not modelled, and plan

Left out for good:

- markup, styles and the wording of labels and placeholders; the texts of the secret
  patterns and of the query formatters (a pattern is a class of characters here);
- the browser's other behaviours (tabs, copy buttons, filters that submit a form): they
  hold no state;
- the defaults of the options, and which guard or rule a host configures: inputs;
- how the AI SDK nests the parts of a message, and how a validation library phrases an
  error: shapes of other people's data;
- the profile's file that cannot be written or parsed and the listing that fails
  (`FileStorage`), and the live object the memory adapter keeps: the models copy;
- a `COUNT` or a sweep of SQLite that rejects midway
  (`storage/sqlite/sqlite-storage.adapter.ts:293-311`);
- containers that report a parent in the trace (`trace/build-trace.ts:186-195`): no
  producer of the repository makes one;
- `src/scripts`, the examples, the documentation site and the build configuration.

### Known divergences without a run

Met while modelling. The models say what the code does; where a property would fail on
it, the input that leads there is left out of the run and named here.

*Request lifecycle*: a handler that fails after the client aborted pushes its exception
on a closed profile (`interceptors/profiler.interceptor.ts:237`); an adapter's
`enrichHttpResponse` that throws leaves a closed profile nobody collects (`:216`); a
second emission unsubscribes the toolbar's collection (`:194`); `end(chunk)` after
`write()` captures the last chunk alone (`middleware/profiler.middleware.ts:480`); a
GraphQL resolver's failure is recorded twice
(`src/packages/nest-profiler-graphql/src/adapters/graphql-context.adapter.ts:214`); an
adapter whose `save()` throws before it returns a promise throws out of `scheduleSave`
(`services/profiler-core.service.ts:190`); redaction past its depth leaves a BigInt or a
cycle for `JSON.stringify` (`utils/redact.utils.ts:159`, when not bounded before). The
body of an `@Res()` handler whose response was not captured is `undefined`
(`interceptors/profiler.interceptor.ts:309-316`), which the model does not tell from none.

*Pages*: a failed ungrouped collector that implements `getBadgeSeverity` makes the whole
detail page fail (`collectors/collector-registry.service.ts:150`), and a failed grouped
one is not shown as failed (`:157`); a plan's "SCAN CONSTANT ROW" reads as a scan of a
table; static files are cached by name across applications
(`controllers/profiler.controller.ts:196`). `EXPLAIN` is put before the captured text, of
which only the first word is looked at (`collectors/sql/sql-query.interface.ts:38-45`):
"restrict it to SELECT so writes are never re-run"
(`src/packages/nest-profiler-typeorm/src/typeorm-explain.runner.ts:83`, and the same in
`src/packages/nest-profiler-mikro-orm/src/mikro-orm-explain.runner.ts:77`) does not hold of
a `SELECT ... INTO`, nor, where the driver takes several statements, of what follows the
first (`:102-111` and `:98-107` there), measured or not. The models have both.

*Failures*: a response whose message is an object is kept and never shown
(`views/template-engine.ts:226`); a source edited before it is first read shows as edited
(`utils/source-context.util.ts:251`); a thrown plain object loses its `cause`.

*Captured data*: "Bounded first, then redacted" (`utils/http-capture.util.ts:41-45`) has two
costs. A body over `maxBodySize` is replaced by 1024 characters of its JSON text
(`utils/safe-data.utils.ts:190-193`), which has no key any more: what stood under a secret
key shows in the preview unless its value has a credential's shape. The large payload of an
`HttpException` goes the same way (`analysis/to-exception-entry.ts:64`). And a `Map` is
made a list of pairs (`:117-122`), whose first members mask nothing, while redaction alone
would have masked its entries (`utils/redact.utils.ts:174-177`).

*Schemas*: a Mongoose `Map` is listed twice, as the path and as the object of its `$*`
(`src/packages/nest-profiler-mongoose/src/mongoose-schema.collector.ts:114-134`); a
reference inside a shape that is embedded a second time within another shared shape is
drawn from the outer block, which knows nothing of the inner one's columns
(`blockOf.get(relative) ?? reused.shape.id` in
`collectors/schema/mermaid-document.ts`).

*List*: SQLite folds the case of ASCII only (`storage/profiler-query.ts:78` says so) and
offers booleans as numbers; a count and its page are two statements. A profile whose age
is the time to live is gone from memory (`storage/memory-storage.adapter.ts:25`) and
files (`storage/file-storage.adapter.ts:198`) and still listed by SQLite
(`storage/sqlite/sqlite-storage.adapter.ts:278`). "The options are the distinct values
present in the store, scoped to the section's kind"
(`list-filters/builtin-filters.ts:108-110`) is not so of the catch-all section, which
excludes types and includes none: its options come from all of them
(`controllers/profiler.controller.ts:312`, `:377`).

*Instrumentation*: a label and an exclusion are cached by function, so of two aliases the
one read first decides (`instrument/profiler-instrument.ts:176`); a frozen own method
makes the trap throw (`:236`); a raw receiver's wrapper renames a caller's frame of the
same name (`:257`). "One span per provider method call" (`:88`) is two where the method is
decorated as well (`:214`, `trace/span.decorator.ts:59`).

*Wiring*: `http.js` is registered only if the core is global
(`src/packages/nest-profiler-http/src/http-client-asset.registrar.ts:14`); modules written
by hand do not brand their providers internal; a peer that is installed without the file
asked for is reported absent; a host that excluded `/_profiler` by hand without its
subpaths gets them prefixed (`nest-profiler.module.ts:204`).

*Axios*: a retry interceptor registered before the profiler's hides the attempts that
failed; a retry shows the serialised body; an instance shared by two applications
records through the first one only; a breakdown nested deeper than four objects is not
found; a phase below 5 microseconds reads 0 ms.

*AI*: a mask that shortens a text by more than the margin draws in what the cut should
have left out (`src/packages/nest-profiler-ai/src/ai-capture.ts:424`; the models assume
it does not); the host's scrubber is not given URLs (`:479`) nor strings at the depth
limit (`:402`); the settings of a second module replace the first one's `redaction`
whole; two concurrent initialisations register the telemetry twice
(`ai-collector.module.ts:123` there); prices loaded late overwrite a configuration made
since (`ai-pricing.ts:81` there). "The next expiry will try again" (`ai-pricing.ts:83-84`)
is not so of a source that throws where it is called: `load` clears `loading` before its
caller assigns it the promise (`:78-89`, `:106`, `:113`), and the prices are not asked for
again until another `configureAiPricing`.

*Config and auth*: objects inside a list are shown unmasked; an object under a secret key
is shown by its members' keys; masking `roles` masks the user's and not the panel's own
list; the configuration is the one of bootstrap.

*Mongoose*: the override is "restored once the save settled"
(`src/packages/nest-profiler-mongoose/src/mongoose-connection.patch.ts:298`) only where a
profile records it: `record` returns before (`:446`), and what an unprofiled save put on the
document stays there. Refused saves put back what each found, so that the last one to
settle may leave another's override. A save started in the microtasks between the end of
the one before and its `finally` loses its override to it and is told without its delta;
the property excepts it.

*Events, messages, drivers*: the handlers of a controller are not listed, since the scan
is of providers only
(`src/packages/nest-profiler-rabbitmq/src/rabbitmq-discover-source.ts:154`); a listener
of `emitAsync` that throws synchronously leaves no entry; `exchange: ''` has no locator;
a stream's entry may be completed after its profile was stored; a cache shared by two
applications records for the first.

### What is left to prove

1. `Dashboard`: each profile is on one page, once the sorted pages are stated by ranks.
2. `TraceTree`: one tree over any entries, an induction over the passes of the widening.
