# TLA+ models of agent-observability

agent-observability collects telemetry of coding agents on one machine, keeps it
in a local SQLite store and serves reports from it. Nothing leaves the machine.
This directory holds TLA+ modules for the parts of it where order, retries,
crashes and bounded tables matter, the TLC configurations that check small
instances, and TLAPS proofs of the results that hold for every instance.

## The system and its parts

| Part | State it keeps | Operations | Why it is hard |
|---|---|---|---|
| Domain core (`crates/domain`) | none | merge two states of a span, reduce a batch, validate parent links | arrival order, repeated observations |
| Store, ingest (`crates/local-store/src/lib.rs`) | `source_inputs`, `adapter_dispositions`, `observations`, `records`, `topology`, `hot_trace_index`, checkpoints | ingest one item, ingest a batch, suppress a replay | retries of half-known batches, two ledgers with one key space, parents after children |
| Store, tiers (`lifecycle.rs`) | `lifecycle_trace_control`, `lifecycle_span_control`, warm rows, cold blobs, guards, tombstones | preflight, one transaction per trace, rehydration | candidates read outside the transaction, restore racing ageing, tables capped by count |
| Store, retention | plan, archive file, receipt | plan, apply, recover, compact | a file and a commit that must agree over a crash; stale plans |
| Store, projection | JSONL file, dirty mark | rebuild, repair at open | rename and commit are two steps |
| Store, report authority (`report_ack.rs`) | generation, acknowledged generation, visibility epoch | invalidate, acknowledge | a renderer that finishes after a newer commit |
| Store, report views (`report_view*.rs`) | a directory of view files and a catalog that names two of them | stage, publish, retire, recover, open | several files change one after the other; leftovers; the limit of the sweep itself |
| Store, dashboard queries (`dashboard_query.rs`) | cursor leases | first page, next page, replay, expire, evict | a page ends anywhere; pages are repeated, late or pushed out |
| Collector, refresh (`crates/local-collector`) | refresh task, tickers, reservation | schedule, build, publish, retire, retry | wake-ups that arrive while a refresh ends, bounded retries, two processes on one store |
| Collector, settings | settings file, migration journal, credentials | adopt, commit, roll back, recover | a file, a journal and credentials that must agree over a crash |
| Collector, private turn details | detail files and status files | capture, look up, prune, reconcile | two directories pruned apart; a failure between the two files |
| Codex adapter, correlation (`crates/adapter-codex`) | waiting and answered requests, their snapshot in the store | correlate a request, a response; persist, expire, evict | exports are sent again, refused or cut off; responses name no request |
| Codex configuration (`crates/codex-config`) | the user's file, a snapshot for every runtime | connect, disconnect, status | the user and other runtimes edit the file between two steps |
| Codex integration (`crates/codex-integration`) | LaunchAgent transaction | connect, disconnect, status over settings, service and configuration | three transactions that one call has to bring to one state, each interruptible |
| Runtime, locks (`crates/local-runtime`) | mutation lock, accounting lock | scope, permit, freeze, bootstrap | the accounting lock may be created while others acquire theirs |
| Runtime, pressure and configuration | samples, configuration file | admit, load | arithmetic on one sample |
| Other adapters | none | translate vendor events | what they emit is the input of the store |
| Static report (`crates/static-report`, `report` of `crates/cli`) | `agent-observability-report.html` | render, replace, acknowledge | a second renderer beside the collector, in a process of its own |
| UI, other CLI commands | none of their own | read, print | none beyond the store's guarantees |

The collector and the CLI call the store. Every writer runs in an IMMEDIATE SQLite
transaction, so a transaction is atomic and two writers are serialised; the hard
interleavings are between transactions, and between a transaction and a file
operation that belongs to it. Reports are rendered from a snapshot with a
generation; acknowledging a generation that is no longer current is refused.

What has to be true of them:

* reduction: the state of a span depends on the set of observations only;
* ingest: a cursor is accounted for exactly once, a rejected batch changes
  nothing, topology and index rows follow the records;
* tiers: a trace is in one tier, what is known of a span never shrinks, and it
  disappears only at its deadline or into a published archive;
* projection and reports: never wrong in silence, never current by mistake;
* whatever hides a record advances the visibility epoch;
* report refresh: one task at a time, no committed generation forgotten, an
  acknowledged generation was rendered, as a view or as the HTML report, the bytes
  of an unfinished build stay accounted for and are reclaimed;
* report views: readers find a complete view of what the store still holds or none,
  whatever was interrupted, and leftovers never block their own removal;
* dashboard: the pages of a query show each row of one view once;
* correlation: a response belongs to an earlier request of its conversation, one to
  one and in order; a retry is recognised; a request waits until it is due;
* private turns: what was promised is shown until age, number or a later failure;
* configuration: the user's values survive, a release restores the file, only
  edits make a snapshot unusable;
* integration: a returned call has brought everything to one state, without a
  transaction the prior service is back, settings on disk have their credentials;
* locks: nobody writes inside a cut.

## Modules

| Module | Models |
|---|---|
| `Domain` | span states, merging, parent links: pure operators |
| `Reducer` | `LifecycleReducer::reduce` over a batch, with its order-free meaning beside it |
| `StoreTransactions` | every transaction of the store, as an operator from database content to the content it commits |
| `LocalStore` | the system around them: ingest, maintenance pass, retention calls, projection file, renderers, crashes |
| `PublishedView` | what a reader of the report views may rely on (the abstract specification) |
| `ViewCatalog` | the files that implement it: staging, catalog, views, interrupted calls |
| `DashboardQuery` | pages and leases over the views of `PublishedView`, with the reference result of a query |
| `ReportRefresh` | the collector's refresh task, the callers that wake it, the authority and lifecycle watchers, reservation and view, the report command, crashes and other processes |
| `RequestCorrelation` | pairing of requests and responses, its copy, snapshot and capacity |
| `PrivateTurns` | capture, pruning, maintenance and reconciliation of private turn details |
| `StorageBarrier` | mutation lock and accounting lock |
| `CodexConfig` | the user's configuration file, snapshots, rotation, rebase |
| `CodexIntegration` | settings, LaunchAgent and configuration under connect, disconnect and status |
| `MCLocalStore` | the store instances |
| `MCCollector` | refresh, correlation, private turns and locks |
| `MCComponents` | views, queries, configuration, integration and reducer |
| `MCIntegration` | the integration alone, for the runs of the findings |
| `DomainProofs`, `ReducerProofs`, `LocalStoreProofs`, `StoreTablesProofs`, `ViewCatalogProofs`, `CollectorProofs`, `ConfigProofs`, `IntegrationProofs` | the theorems |

How they compose: `LocalStore` runs the transactions of `StoreTransactions`, which use
`Domain`. `ViewCatalog` refines `PublishedView`, and `DashboardQuery` uses only what
`PublishedView` promises. `CodexIntegration` sees the configuration through
`ConfigStatus`, which has exactly the outcomes that `CodexConfig` gives its callers.
`ReportRefresh` has the reservation and the acknowledgement of the store.
`MCCollector` and `MCComponents` put components that share no state into one run:
"part" says whose behaviour it is and nobody else moves.

### The store

The database is one record `db`; its fields are the tables (`cursors`, `inputs`,
`dispositions`, `observations`, `records`, `unresolved` for `topology.unresolved`,
`index` for `hot_trace_index`, `control` and `archived` for the two control tables,
`guards` for `expired_span_states`, `tombstones` for `expired_trace_states`,
`receipts`) and metadata rows (`dirty`, `generation`, `acknowledged`, `epoch`).
`IngestObservation` and `IngestHot` follow `ingest_in_transaction` check by check;
an `Err` is `Fail`, which returns the database the transaction started from.
`MaintainBegin` is the collector's call up to the candidate list, `MaintainTrace`
one transaction of `maintain_lifecycle_inner`. Retention goes through the stages of
`apply_retention`: publish the archive, delete, rebuild, compact.

Abstractions:

* names, payloads and hashes are model values; a hash is the data it covers;
* all optional fields of a span merge by one rule and are one map `fields`;
* `warm_records` and the cold blob repeat the control rows and are not kept twice;
* capacity is counted in records, not bytes;
* a batch has at most two items; the predecessor of cursor c is c - 1;
* the guards of one call are numbered in some fixed order;
* a span-kind relation that is acyclic makes cycles of present spans impossible,
  so the chain walk only ends early on a self link.

`MaxCursor`, `MaxNow` and `MaxGeneration` bound the models; `MaxDispositions`,
`MaxGuards`, `MaxReceipts` and `MaxArchiveRecords` are bounds of the code, set so
small that the limit is reached.

### The refresh protocol

`ReportRefresh` is about `schedule_report_refresh_with_timing` and what it calls.
`scheduled` and `requested` are the two atomics; `call[c]` is where a caller stands
between the increment (`Request`) and the compare-exchange (`Spawn`); `task[t]` is a
spawned task, with the counter it read (`epoch`), its failed attempts and the
generation it builds. `files` holds what survives a crash: the reservation, the
staging file, the dirty marker and the generation the HTML report shows. `store` and
`view` are the parts of the database and of the catalog that the protocol reads:
generation, acknowledged generation and the generation of the current view.
`observed` is the watcher's local variable.

An attempt is `Build` (reserve, bind, give the mutation lock back), then `Publish`
(fence, catalog, acknowledgement, release under one lock), or `Refused` and
`BuildFails` for the places where it breaks off. `Settle` is the decision after it.
A completed task lowers the flag, reads the counter and the status again and leaves
(`RereadRequests`, `RereadStatus`, `Unmark`); one that gave up cleans up, lowers the
flag and compares the counter (`Cleanup`, `GiveUp`, `Reconsider`). These are separate
actions because requests do not take the collector mutex; whatever takes it waits
for `CollectorUnlocked`.

Two renderers acknowledge. The collector's task publishes a view; the `report`
command of the CLI, in a process of its own, replaces the HTML report and publishes no
view. `RenderReport` takes the render guard and a snapshot (`rendering` is its
generation), `WriteReport` takes the mutation lock, replaces the file and acknowledges
what it rendered, or renders again when more was committed meanwhile, and
`ReportFails` is its failure or death. Maintenance and retention put a placeholder in
the file's place (`Placeheld`). While the command holds the render guard the
collector's attempts and cleanups fail and its start waits. `ForeignRefresh` is the
dashboard command, which publishes a view. `ForeignCommit` is a manual ingest, which
takes the mutation lock alone, or a manual retention, which takes the render guard too.

`AcknowledgedIsRendered` is therefore about both: the current generation is
acknowledged only if the catalog's view or the HTML report shows it. That the *view*
shows it would be wrong: after a `report` command nothing is pending, and the view may
be older or missing until the next commit, the next start of the collector (which looks
for a missing view only) or the next dashboard command.

Left out: durations and the learned quiet period (a sleep ends at any time), the
failure stage and counter and the cached dirty flag of the health document, the
precommit guards, and the visibility epoch, which only moves together with the
generation. A lock that is busy is a fault of the one who meets it.

Bounds: `MaxGeneration` (commits), `MaxReplays` (batches that change nothing),
`MaxFaults` (faults and report commands together), `MaxCrashes`, and `MaxRequests` on
the request counter. A report command that finds nothing pending is left out: it could
only acknowledge the same generation again. `MaxRequests` binds only when timing is
unconstrained: a retiring task and its successor may then feed
each other requests for ever. `Prompt = TRUE` states what rules this out in
practice: a sleep of at least 200 ms outlasts a call of two atomic operations and a
retirement. Safety is checked with `Prompt = FALSE`, liveness needs it.
`Collector.cfg` does not check deadlock, because callers stop at `MaxRequests`.

Fairness (`FairSpec`): launchd keeps the collector alive (`Serve`), the runtime runs
spawned tasks and calls to their end, a maintenance pass and a report command end, and
the authority watcher ticks for ever. Nothing is assumed of input, faults, crashes or other
processes. A task whose attempts all fail gives up, and the report may stay pending
until the next commit or restart: `ConvergesWhenQuiet` and `StaleReservationReclaimed` are about
the behaviours in which nobody gives up, `RefreshesEnd` is about all of them.

### Report views and dashboard queries

`ViewCatalog` has one owner of the render guard at a time; `step` is its next step
and `work` the view it works on. `views`, `temps`, `catalog` are the directory.
`BuildBegin` to `PublishSweep` follow `build_report_view_staging` and the publication
(fence, rename, catalog, sweep); `RetireCatalog` to `RetireDone` the retirement before
a deletion; `RecoverBegin`, `RecoverSweep` the recovery; `BrokenOff` ends any call
before any step. Ingest takes no guard, which is why the fence compares generation and
epoch again. `Abstract` is the refinement mapping: the views a reader can open, and
the records it is entitled to see.

`DashboardQuery` keeps a lease for each cursor it has issued, with the scan position
and the answer for a replay. One request is one action, because it holds the render
guard throughout. `Scans` allows a page to end after any row (the time slice is over),
at the page size or at the scan limit. `Reference` is what the query means on the
view; `answer` collects the pages a client got.

### Correlation, private turns, locks

`RequestCorrelation` works on an export record by record in a copy (`Receive`,
`CorrelateStart`, `CorrelateResponse`, `CorrelateOther`), which `CommitExport` makes
the state in memory and the snapshot, or `RefuseExport` throws away. Waiting and
answered requests are one set ordered by `sequence`, as in the code's tables; `Kept`
evicts, `Expired` ages, `SnapshotBytes` is the size that may be refused. `paired` and
`queued` record what was committed.

`PrivateTurns` holds the two directories and what the owner of the mutation lock does
(`job`). The number of a capture stands for the modification times it leaves; failures
have one code instead of six, since the code treats them alike. A look-up is a state
function, `Available`. Temporary files and the scan bound are left out.

`StorageBarrier` gives every acquisition its steps: look for the accounting lock, check
once more, take the mutation lock, take the accounting lock, revalidate. A permit
stands for everything that writes under `try_begin_write` alone: projections of a
report, process singletons. No production code calls `StorageBarrier::initialize` yet
(only tests do), so the bootstrap shows what holds once some release does. Writers that
found no lock and take only permits, and a report scope that found none, stay
outside the protocol for their lifetime; the property says so. A lock file replaced by
hand while it is in use is not modelled.

### Codex configuration and integration

`CodexConfig`: a file is what the code tells apart (notify, the owned exporter keys,
the rest of the `otel` table, everything else). `op` is the call in progress, a chain of
atomic replacements; `Abandon` is a failure or crash between any two. `mine` is the
file as if only the user had written it, `edited` whether the user changed an owned
value. The comparison before a rename and the rename are one step: the interval is
open in the code, as its comment says.

`CodexIntegration`: a call is a list of steps (`call.todo`), each changing one file or
the service; `managed` holds the values Codex is configured with. `StepFails` sends a
call to its compensation, `Crash` ends it. `txn` is the LaunchAgent transaction with its
phases, `journal` the settings migration. Credential expiry and renewal, the v1 settings
format and platforms without LaunchAgents are not modelled.

## Runs

| Run | Question |
|---|---|
| `store_ingest` | two streams, conflicts, replays, a reused event id, a full disposition table: is every cursor accounted for once? |
| `store_lifecycle` | do traces stay in one tier and keep what is known while passes, late observations and crashes interleave? |
| `store_retention` | is everything retention deletes in a published archive, over every crash, stale plan and second path? |
| `store_reports` | with a span id that comes back in another trace and guards that overflow: does an artifact of the current generation show the current records? |
| `collector` | refreshes: with any timing, a crash, and faults that exhaust the retries, is there one owner, is a wake-up ever lost, does a view or the HTML report show what is acknowledged, with the report command beside the collector? Is a response paired with its own request, is a turn shown until it is due, does a consistent cut exclude every writer? |
| `refresh_liveness` | do refreshes end, and as long as no task fails all of its attempts, is every pending report published and every interrupted build reclaimed? |
| `components` | views implement what readers rely on; pages tile their view; the user's file, the prior service and the credentials survive every interruption, and a connect or disconnect that returns has brought the three transactions to one state; batches reduce in any order to one result |
| `generation_violation`, `cutoff_violation`, `rollback_violation`, `recoverable_violation`, `credentials_violation` | five places where the code does not do what its documentation says, see below |

### Bounds

Store: two traces and three spans are enough for a parent, a child and a bystander;
the reports instance has one span in two traces. Clock bounds leave room for the
three thresholds, one pass after each, and one late observation. A run checks
deadlock unless nothing can happen any more at a bound.

Refresh: one request handler beside the two watchers, and two task slots: a retiring
task and its successor. A third would have to be spawned before the first has left,
and waits for it instead. The slots are interchangeable, which `collector` uses as
symmetry. In both runs the retries can be exhausted: a report command (one of the
faults) keeps the render guard through both attempts and the cleanup after them, and in
`refresh_liveness` two faults do so by themselves. `collector` has three requests (the
start, and two that race), two commits, a crash and one fault or report command.
`refresh_liveness` is the only run that assumes fairness.

`collector` has a VIEW, `UpToAge`: guards and invariants only ask whether a generation
is the current one, and one that is not never becomes current again, so states that
differ in which older generation a view, file or task has are the same state; likewise
for the request counts that a task has read. `refresh_liveness` has neither view nor
symmetry.

`collector`, the other parts: eleven exports over two conversations with raw, hashed and
missing ids, four deliveries into a table of three, so that the table overflows while
requests wait; the snapshot limit (512 KiB in the code) is scaled with the table;
entries live one tick of two. Three turns with two contents, room for two files, three
captures and one day that passes, so that a third capture prunes and the clock expires
what is left. Three writers: one to create the lock, one to be surprised, one to
overlap. The contents are interchangeable.

`components`: two records and three staging names, four generations, a directory of
five entries (one above what a completed call leaves). Two views of up to four rows in
three traces, pages of two, scans of four, two leases for three sequences, and a clock
that passes both lifetimes. A summary scans its view once for the rows and once for each
of the two dimensions; it is asked of the view of three rows, of which its filter may
leave out one, so that it comes to its end within three sequences even when the time
slice cuts a page short. Two runtimes, two versions, two edits of the user's, and
three original files (none, one with everything, one with a managed exporter). Two
executables and two ports, one generation of credentials, with and without a service of
the user's and an old installation. `RollbackFaults` is FALSE: a rollback that is cut
short is what `rollback_violation` is about, and the other properties are shown
without it. Batches of three among the observations of one tool span and its possible
parents.

### Fairness

`refresh_liveness` uses `FairSpec` (see the refresh protocol). All other runs are
about safety and let every actor stop anywhere.

### Findings

* `generation_violation`: the duplicate path behind a replay guard restores a cold
  trace into the report and does not advance the report generation.
* `cutoff_violation`: retention selects by the observation rows, which tiering
  deletes; a restored trace loses the evidence that it is recent.
* `rollback_violation`: turning an interrupted disconnect back overwrites
  `desired_plist` while the operation stays Disconnect. If that is interrupted in turn,
  the next disconnect takes the collector's own plist for the user's.
* `recoverable_violation`: `status` marks an interrupted connect Owned without
  comparing the plist, after which every call refuses the plist that is there.
* `credentials_violation`: an upgrade is interrupted before Codex is reconfigured, and
  `status` commits the migration because the old values count as connected: it deletes
  the credentials that the Codex configuration refers to.

`store_retention` and `store_reports` use instances without the scenarios of the
findings (observations that end before a tier move for the first, no guarded
replay for the second), so that they show the property holds otherwise.

Known differences without a run of their own:

* After a `report` command nothing is pending while the dashboard's view is older or
  missing (`cli/src/main.rs:1287`); `docs/LOCAL_RUNTIME.md:182` ties the acknowledgement
  to the HTML report, which a collector's own refresh does not write.
* A manual ingest takes the mutation lock and not the runtime singleton
  (`cli/src/main.rs:1551`, against `docs/LOCAL_RUNTIME.md:202`).
* Restoring a trace inserts its topology rows without validating hot children of
  another trace (`lifecycle.rs:216`, against `domain/src/lib.rs:454`). `store_ingest`
  shows that ingest alone keeps the rows sound.
* A refresh woken for a missing view while nothing is pending may give up and report a
  degraded state; the next authority poll clears it (`local-collector/src/lib.rs:2920`,
  against `docs/LOCAL_RUNTIME.md:184`).
* After `status` has healed an unloaded owned service, a connect without a restart of
  it fails at `commit_install` (`codex-integration/src/lib.rs:1464`).
* 1024 waiting requests with a retry identity need about 553 kB, more than the 512 KiB
  of the snapshot, so exports are refused before the count limit evicts
  (`adapter-codex/src/lib.rs:473`).
* An export with a request and its response under an id of its own gives the request
  that id; when the export is sent again the request is labelled with its hash and
  becomes a second span (`adapter-codex/src/lib.rs:1290`, against
  `docs/reviews/v1.8.2.md:19`). A repeated response without an id takes the next
  waiting request.
* The sequence of correlation entries starts again at 1 after 2^64 - 1 while entries
  keep theirs; out of reach in practice.
* A private detail that was pruned and published again, and interrupted before its
  status, is shown under the old status (against `docs/LOCAL_RUNTIME.md:175`). A conflict
  or an unreadable status hides a promised detail and lets maintenance delete it; the
  property of `PrivateTurns` excepts both.
* The publication scope of a report reuses the accounting lock it found before the
  projection and does not look again when it found none
  (`local-collector/src/lib.rs:4267`).

## Proofs

`ReducerProofs` proves, for all constants and well-formed batches, that the reducer is
type correct and order independent. The inductive invariant says that the reduced
state is the *reduct* of the batch: the join of lifecycles, the least start, the latest
end, the union of fields. `ExtendReduct` shows that one merge step keeps that. The
hypothesis `WellFormedBatch` is stated with the theorems.

`LocalStoreProofs` proves for all constants that the store is type correct, that a
trace is in one tier (`TraceInOneTier`), that the projection is never stale in
silence (`ProjectionNeverStale`) and that losing visibility advances the epoch
(`VisibilityLossRevokesViews`). `OneTier` is not inductive: maintenance decides from
the summary rows, so the invariant `TierInv` says that an index or control row
exists exactly for traces with hot or archived spans, that the two exclude each
other, and that an expired trace has neither. Each transaction is shown `Sound`:
it keeps `TierInv`, either marks the projection dirty or leaves it valid, and
either keeps every visible record or advances the epoch. `Sound` composes, which
gives batches. The system's steps are then commits of sound transactions, quiet
steps, or rebuilds. The assumptions are the ones in the modules: sentinels are not
values, observations are well formed, bounds are natural numbers.

`StoreTablesProofs` is about the tables the store keeps beside the records. It proves
that the two ledgers exclude each other and never run ahead of the checkpoint
(`LedgersAreExclusive`), that no checkpoint passes an input without a row of it
(`EveryCursorAccounted`), that the capped tables stay within their caps
(`LedgersAreBounded`), that index and control rows agree with what they summarise
(`SummariesAgree`), that a receipt names an archive on disk (`ReceiptsAreBacked`), and
that what is known of a span only grows until its deadline or its archive
(`HistoryNeverShrinks`). The invariant `AllInv` adds two layers to that of
`LocalStoreProofs`:

* `TablesInv`, about the database: `LedgerInv` (the rows of both ledgers together have
  one row per cursor, none above the checkpoint), `CapsInv` and `ReceiptInv` (rows of a
  capped table have different numbers, so that a prune by number removes exactly the
  excess; one receipt at most is not compacted), and `IndexInv`, which adds to the
  counts, flags and latest times of the summary rows that every observation row belongs
  to an indexed trace and that a stored state names the trace of an observation of it;
* `CallsInv`, about the calls in progress: the types of pass, plan and retirement, and
  `ReceiptsBacked`.

The additions are what the steps rely on: a purge trusts the flags of the summary rows,
a prune the numbers, a batch that its second item finds the tables as its first left
them.

Three hypotheses are stated with the theorems that need them. `MaxDispositions > 1` for
`EveryCursorAccounted`: a batch of two may write two dispositions, and a table of one
row would prune the first again (the code keeps 100,000). `MaxGuards > 0` for
`HistoryNeverShrinks`: the tombstone of a purge has to survive the prune that follows
it. `OneTracePerSpan` for the same theorem: the adapters derive the trace of a span from
its session and its id from session and position (`adapter-codex/src/lib.rs:1676`,
`adapter-claude-code/src/lib.rs:576`, `adapter-cursor/src/lib.rs:556`), so a span id
never comes back under another trace. Without it, a span whose guard was pruned could.

`ViewCatalogProofs` proves that the catalog is type correct and always readable, that the directory
never holds more than five entries, and that the files implement `PublishedView`
(`DirectoryImplementsPublishedView`), for any records and names. `CatalogInv` says what
each owner of the guard may rely on at its next step; `Few` counts what interrupted
calls leave behind. Every step is then a step of `PublishedView` or changes nothing a
reader sees.

`CollectorProofs` proves every safety property of the refresh protocol for any
number of handlers, slots, retries, faults and crashes: `RefreshTypes`, `OneOwner`,
`WakeupsSurvive`, `AcknowledgementsHold` and `StagingIsAccounted`. The invariant has two
parts. `RefreshInv` makes ownership and publication inductive: a dead collector runs no
task and no call, a task makes its own call only after it has returned, a maintenance
pass runs on an invalidated report and beside no build, a report command that renders
holds the render guard on a report that stays pending, and nobody knows of a generation
or a request still to come. `WakeInv` makes explicit why somebody will still act on a
pending generation that the watcher has seen: a caller that has yet to ask or to
compare and exchange, a task before an attempt, or one whose counter differs from the
requests made since (`Wakes`). As long as the report was not tried there is such a
reason, and as long as it is not reported degraded there is one or a task that still
decides. At rest there is none, so the report was tried and is degraded.

It proves `CutsAreExclusive` for any number of writers. The
invariant says who holds which lock at which step, and that a scope which found no
accounting lock knows there is none while it works: creating one takes the mutation
lock that the scope holds. It proves `PromisesAreKept`: a detail that a status
promised is shown until it is due, for any number of turns and files. The invariant
`TurnsInv` says that every file carries the number and the day of a capture of its turn,
that the capture at work is the last one and publishes only where there is no detail,
and that of every promise either both files are there, the status at least as new as the
promise, or the promise has an excuse. Excuses stay. The one argument that counts is
`CrowdedOut`: whatever makes a prune remove a promised file is a newer file of another
turn captured since, and the turn that is being captured, which takes one of the places,
is one of them.

The last part of `CollectorProofs` proves the three properties of the correlation
(`PairingCorrect`, `RetriesRecognised`, `RequestsWait`) for any exports, capacity and
lifetime. The invariant `Sound` relates a correlation state to
the requests and responses it follows from, and holds of three of them: memory with what
was committed, the snapshot with the same, and the copy with the export's own records
added. That a request waits until it is due rests on counting: the entries that may
push it out have sequences in the interval above its own.

`ConfigProofs` proves the three properties of the user's configuration for any runtimes,
versions, original files and number of edits: `UserValuesAreKept`, `ReleasesAreComplete`
and `OnlyEditsMakeConflicts`. The first two are about values and rest on `ConfigInv`.
Wherever the file differs from the user's own version of it, it shows a value of a
runtime whose snapshot owns the field (`AccountedBy`); a snapshot puts its runtime's
values only where there was nothing or an older value of that runtime (`Claims`); and
while such a value shows, the snapshot remembers what the user has there (`Remembers`).
A snapshot may be wrong about a field after an edit, but then its value no longer shows,
and because every replacement compares the whole file first, what it remembers is not
written. `CallInv` carries this between the steps of a call: a claim or a rebase that was
read before an edit still remembers rightly after it. The third property is about whole
documents and rests on `LayerInv`: of the snapshots that are not older than an edit, the
file is a document, or the prior document of one that is not applied, or a document of
another one that was laid over the same prior document (`Covered`). Taking the upper
layer off brings the lower one back, which is why a connect that was cut off can go on
after another runtime has connected and disconnected. `StepInv` says which document
the call at work saw.

`IntegrationProofs` proves the three properties of the integration for any executables,
ports, earlier services and number of credential generations, with a failure or a crash
before any step: `SettingsStayUsable`, `PriorServiceStays` and `CallsAlwaysConverge`.
A call is a list of steps that unfold, are replaced by the steps of a transaction, or
give way to a compensation, so none of the properties is inductive without knowing what
the list may look like. The invariant has four layers, each using the ones before it:

* `ControlInv` is about the list alone: which step may directly follow which (`May`),
  that the steps which apply a LaunchAgent transaction stand in front of all others
  (`Fronted`), and that a call which has not failed has every milestone before it that
  is to follow the steps it has left, once and in order (`Staged`).
* `StoreInv` says what the first step finds of settings, journal and credentials: new
  credentials exist before they are adopted, and a replacement is dropped only while
  the settings do not use it.
* `ServiceInv` says that the transaction on disk and the one at work can both be taken
  back (`Sound`), that the steps left serve the transaction at work (`Serves`), how far
  plist and service have come when a step is next (`Progress`), and what a recovery
  leaves for the installation or removal behind it (`Given`).
* `ConvergeInv` says, milestone by milestone, what a call has reached once it no longer
  has the milestone before it. At its return there is none, which is `CallsConverge`.

`RollbackFaults = FALSE` is a hypothesis of the second and third theorem:
`rollback_violation` shows that `PriorServiceReturns` is false without it, because a
rollback changes the meaning of the record on disk. The first theorem needs no
hypothesis. `IntegrationConstants` says that missing files differ from files, that the
v2 generation is none of the new ones and that an earlier service runs or does not; TLC
evaluates it in `components` and in the runs of `MCIntegration`.

Sentinels are not values of the sets they stand beside (`FileSentinelAssumption`,
`TurnSentinelAssumption` and the like); these assumptions are evaluated by TLC in the
runs.

`ConfigConstants` adds that the original files can be parsed. `WellFormedBatch` is
stated with the theorems of the reducer; `MCComponents` evaluates it for its batches.

The inductive invariants of `StoreTablesProofs`, `CollectorProofs`, `ConfigProofs` and
`IntegrationProofs` were model-checked before they were proved, on the instances of the
four store runs, of the refresh part, of the private turns, of the configuration (with
two more original files) and of the integration.

Only model-checked, and why:

* `RetentionKeepsRecent` and `CurrentGenerationIsCurrentContent` do not hold in general:
  `cutoff_violation` and `generation_violation` show how. Their runs leave out the
  scenarios of the findings.
* `TopologySound`: a restored trace may bring a link that the check at ingest would have
  refused, see the known differences; `store_ingest` has no restored traces.
* `PagesTileTheView` compares an algorithm with a definition by sorting, selecting and
  counting over a whole result. The library's induction theorems cannot be instantiated
  by the installed provers; arguments by least counterexample (as for the walks in
  `DomainProofs`) would have to replace them for each of the four kinds of query.
* Liveness (`RefreshesEnd`, `ConvergesWhenQuiet`, `StaleReservationReclaimed`): fairness
  and ENABLED are out of the prover's reach.

## Not modelled

* Schema migration: DDL steps, one transaction each. Storage ownership scans and the
  inventory of bytes: they read and classify.
* The pressure scheduler: production code builds a fresh `RuntimeControl` for every
  check and evaluates it once, so its state machine never takes a second step.
* The translation tables of the adapters, JSON schemas, the formats of view files and
  of the plist, HTML and argument parsing: data in, data out.
* The UI server: routing over the read side; what it serves is `DashboardQuery`.
* Process singletons beyond their permits; checks of file identity and permissions
  against changes by hand.
* Ticker cadence, quiet-period learning, HTTP authentication, credential expiry.
* `xtask`, scripts and the web front end: tooling and presentation.

Of the source lines a large part is tests in the same files and tooling (`xtask`
alone is a tenth), and much of the rest is validation and rendering without state;
the modules cover the code in which several actors, steps or failures meet.

## Plan

Done: the domain core; the store with its tiers, retention, projection, report
authority, views and queries; the collector's refresh, correlation, private turns and
settings migration; configuration and integration; the locks; proofs about the reducer,
the store's tables, the views, the refresh, correlation, private turns, locks, the
configuration and the integration. Next:

1. `CallsConverge` without the hypothesis that no rollback is cut short.
2. A proof of `PagesTileTheView` by least counterexample.
3. Lifecycle scan cursor: every due trace is eventually visited.
