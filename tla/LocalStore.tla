----------------------------- MODULE LocalStore -----------------------------
(***************************************************************************)
(* The local store as a system: clients that ingest, a maintenance pass    *)
(* that ages traces one transaction at a time, an operator who plans and   *)
(* applies retention, renderers of the report, the JSONL projection beside *)
(* the database, and crashes at every boundary between a file operation    *)
(* and the commit that belongs to it.                                      *)
(*                                                                         *)
(* "db", "projection" and "archives" are durable; "owed", "pass" and       *)
(* "retiring" are the progress of calls and die with the process.          *)
(***************************************************************************)
EXTENDS StoreTransactions

CONSTANTS Paths,      \* archive paths outside the managed root
          Cutoffs,    \* retention cutoffs an operator may ask for
          Renderers,  \* processes that render the report
          NoFile, NoPlan, NoPass,
          MaxNow, MaxGeneration   \* bounds of the model

ASSUME SystemAssumption ==
  /\ Cutoffs \subseteq Nat
  /\ MaxNow \in Nat /\ MaxGeneration \in Nat

(* A retention plan, and the archive that is written for one.              *)
EventKeys == {<<EventId(st, o), PayloadHash(p)>> :
                st \in Streams, o \in Observations, p \in Observations}

Plans == [cutoff: Cutoffs, groups: SUBSET [trace: Traces, events: SUBSET EventKeys]]

ArchiveFiles == [plan: Plans, entries: SUBSET (Spans \X DomainSpanState)]

ASSUME FileSentinelAssumption == NoFile \notin ArchiveFiles

VARIABLES db,          \* the SQLite database
          projection,  \* the JSONL file: NoFile or what it shows of every span
          archives,    \* path -> NoFile or a retention archive
          reports,     \* renderer -> NoFile or the artifact it published
          now,         \* the clock the lifecycle reads
          alive,       \* the process that owns the store is running
          owed,        \* a committed ingest still owes its projection rebuild
          pass,        \* NoPass or a maintenance pass in progress
          plan,        \* the plan the operator holds, or NoPlan
          retiring     \* NoPlan or the receipt being finished

vars == <<db, projection, archives, reports, now, alive, owed, pass, plan, retiring>>

(* The process dies: what its calls were doing is lost.                    *)
Dies == alive' = FALSE /\ owed' = FALSE /\ pass' = NoPass /\ retiring' = NoPlan

(* The first open of an empty directory: initialize_empty_schema, then     *)
(* repair_projection_if_needed writes the empty projection.                *)
Init ==
  /\ db = [EmptyDb EXCEPT !.dirty = FALSE]
  /\ projection = [s \in Spans |-> NoState]
  /\ archives = [p \in Paths |-> NoFile]
  /\ reports = [r \in Renderers |-> NoFile]
  /\ now = 0
  /\ alive = TRUE
  /\ owed = FALSE
  /\ pass = NoPass
  /\ plan = NoPlan
  /\ retiring = NoPlan

Tick ==
  /\ now < MaxNow
  /\ now' = now + 1
  /\ UNCHANGED <<db, projection, archives, reports, alive, owed, pass, plan, retiring>>

(* Every accepted item advances the generation at most once.               *)
Commits(d) == db' = d /\ d.generation <= MaxGeneration

-----------------------------------------------------------------------------
(* Ingest. A rejected item rolls back and changes nothing.                 *)

(* ingest and ingest_deferred_projection: they differ in the rebuild that  *)
(* follows the commit in a transaction of its own.                         *)
Ingest(i) ==
  /\ alive /\ ~owed
  /\ LET r == IngestItem(db, i)
     IN /\ Accepted(r)
        /\ Commits(r.db)
        /\ owed' \in IF i.type = "observation" THEN BOOLEAN ELSE {FALSE}
  /\ UNCHANGED <<projection, archives, reports, now, alive, pass, plan, retiring>>

(* ingest_ordered_batch_deferred_projection with a batch of two.           *)
IngestBatch(i, j) ==
  /\ alive /\ ~owed
  /\ LET r == IngestPair(db, i, j)
     IN Accepted(r) /\ Commits(r.db)
  /\ UNCHANGED <<projection, archives, reports, now, alive, owed, pass, plan, retiring>>

(* rebuild_projection: rename, then the commit that clears the dirty mark, *)
(* both while the write lock is held.                                      *)
RebuildProjection ==
  /\ alive
  /\ owed \/ db.dirty \/ projection = NoFile
  /\ projection' = Visible(db)
  /\ db' = [db EXCEPT !.dirty = FALSE]
  /\ owed' = FALSE
  /\ UNCHANGED <<archives, reports, now, alive, pass, plan, retiring>>

(* CrashPoint::AfterProjectionRename, while running or while opening.      *)
CrashAfterRename ==
  /\ projection' = Visible(db)
  /\ Dies
  /\ UNCHANGED <<db, archives, reports, now, plan>>

(* The other crash points leave what is durable as it is.                  *)
Crash ==
  /\ alive
  /\ Dies
  /\ UNCHANGED <<db, projection, archives, reports, now, plan>>

(* open_internal on an existing store, with repair_projection_if_needed.   *)
Open ==
  /\ ~alive
  /\ alive' = TRUE
  /\ IF db.dirty \/ projection = NoFile
     THEN projection' = Visible(db) /\ db' = [db EXCEPT !.dirty = FALSE]
     ELSE UNCHANGED <<projection, db>>
  /\ UNCHANGED <<archives, reports, now, owed, pass, plan, retiring>>
-----------------------------------------------------------------------------
(* Maintenance. *)

Candidates == [tier: {"hot", "warm", "cold"}, trace: Traces]

(* invalidate_report and write_refresh_pending, which the callers of       *)
(* maintenance and of retention run before either: the generation moves on *)
(* and the artifact is replaced by a placeholder.                          *)
RetractReports ==
  /\ Commits(AdvanceGeneration(db))
  /\ reports' = [r \in Renderers |-> NoFile]

(* lifecycle_preflight *)
HasCandidates ==
  \E c \in Candidates : /\ Reload(db, c) # NoRow
                        /\ TransitionFor(c.tier, Reload(db, c).latest, now) # "none"

(* maintain_storage_lifecycle_locked, then the head of                     *)
(* maintain_lifecycle_inner, which reads its candidates outside any        *)
(* transaction; one reading of the clock gives the cutoffs of the pass.    *)
MaintainBegin ==
  /\ alive /\ pass = NoPass /\ retiring = NoPlan
  /\ HasCandidates
  /\ RetractReports
  /\ pass' = [at |-> now,
              todo |-> {c \in Candidates : Reload(db, c) # NoRow},
              touched |-> 0]
  /\ UNCHANGED <<projection, archives, now, alive, owed, plan, retiring>>

TransitionOf(c) ==
  LET row == Reload(db, c)
  IN IF row = NoRow THEN "none" ELSE TransitionFor(c.tier, row.latest, pass.at)

(* admit_capacity, reached only by a resolved trace with a transition.     *)
Admitted(c) ==
  /\ TransitionOf(c) # "none"
  /\ ~Reload(db, c).unresolved
  /\ pass.touched + Reload(db, c).count <= MaxArchiveRecords

(* Gone, not due, pinned by an unresolved parent, blocked or deferred: the *)
(* transaction only moves the scan cursor on.                              *)
MaintainSkip(c) ==
  /\ alive /\ pass # NoPass /\ c \in pass.todo
  /\ ~Admitted(c)
  /\ pass' = [pass EXCEPT !.todo = @ \ {c}]
  /\ UNCHANGED <<db, projection, archives, reports, now, alive, owed, plan, retiring>>

(* Leaving the report or the store removes the projection file first.      *)
MaintainTrace(c) ==
  /\ alive /\ pass # NoPass /\ c \in pass.todo
  /\ Admitted(c)
  /\ ~ArchiveClash(db, c, TransitionOf(c))
  /\ Commits(MoveTrace(db, c, TransitionOf(c)))
  /\ projection' = IF RemovesVisibility(TransitionOf(c)) THEN NoFile ELSE projection
  /\ pass' = [pass EXCEPT !.todo = @ \ {c},
                          !.touched = @ + Reload(db, c).count]
  /\ UNCHANGED <<archives, reports, now, alive, owed, plan, retiring>>

(* The transaction fails, which ends the pass, or the process dies before  *)
(* it commits; the projection file is gone all the same.                   *)
MaintainInterrupted(c) ==
  /\ alive /\ pass # NoPass /\ c \in pass.todo
  /\ Admitted(c)
  /\ projection' = IF RemovesVisibility(TransitionOf(c)) THEN NoFile ELSE projection
  /\ \/ pass' = NoPass /\ UNCHANGED <<alive, owed, retiring>>
     \/ Dies
  /\ UNCHANGED <<db, archives, reports, now, plan>>

MaintainEnd ==
  /\ alive /\ pass # NoPass
  /\ pass.todo = {}
  /\ pass' = NoPass
  /\ UNCHANGED <<db, projection, archives, reports, now, alive, owed, plan, retiring>>
-----------------------------------------------------------------------------
(* Retention. *)

PlanRetention(cutoff) ==
  /\ alive /\ retiring = NoPlan
  /\ plan' = RetentionPlan(db, cutoff)
  /\ UNCHANGED <<db, projection, archives, reports, now, alive, owed, pass, retiring>>

ReceiptFor(path) == {r \in db.receipts : r.plan = plan /\ r.path = path}

Retiring(stage) == retiring # NoPlan /\ retiring.stage = stage

(* retention_applying (cli) up to apply_retention_guarded; the render      *)
(* guard keeps maintenance and renderers out until the call ends.          *)
BeginRetention(path) ==
  /\ alive /\ pass = NoPass /\ retiring = NoPlan /\ plan # NoPlan
  /\ RetractReports
  /\ retiring' = [plan |-> plan, path |-> path, stage |-> "apply"]
  /\ UNCHANGED <<projection, archives, now, alive, owed, pass, plan>>

(* Mutant: an occupied path is overwritten.                                *)
MayOverwrite(path) ==
  /\ ReceiptFor(path) = {}
  /\ \A r \in db.receipts : r.compacted
  /\ RetentionPlan(db, plan.cutoff) = plan
  /\ ~Truncated(db, plan)
  /\ plan.groups # {}

(* apply_retention without a receipt for this plan and path, up to the     *)
(* point where write_archive publishes (the path must be free).            *)
MayRetain(path) ==
  /\ ReceiptFor(path) = {}
  /\ \A r \in db.receipts : r.compacted
  /\ RetentionPlan(db, plan.cutoff) = plan
  /\ ~Truncated(db, plan)
  /\ plan.groups # {}
  /\ archives[path] = NoFile

ApplyRetention ==
  /\ alive /\ Retiring("apply")
  /\ MayRetain(retiring.path)
  /\ \A r \in db.receipts : r.plan # plan
  /\ archives' = [archives EXCEPT ![retiring.path] = ArchiveFile(db, plan)]
  /\ Commits(RetainCommit(db, plan, retiring.path))
  /\ retiring' = [retiring EXCEPT !.stage = "rebuild"]
  /\ UNCHANGED <<projection, reports, now, alive, owed, pass, plan>>

(* CrashPoint::BeforeRetentionCommit, or an error behind write_archive:    *)
(* the archive is published and nothing was deleted.                       *)
RetentionInterrupted ==
  /\ alive /\ Retiring("apply")
  /\ MayRetain(retiring.path)
  /\ archives' = [archives EXCEPT ![retiring.path] = ArchiveFile(db, plan)]
  /\ \/ retiring' = NoPlan /\ UNCHANGED <<alive, owed, pass>>
     \/ Dies
  /\ UNCHANGED <<db, projection, reports, now, plan>>

(* The receipt is found first: the archive is validated against it and the *)
(* call goes straight to finish_retention_receipt.                         *)
ResumeRetention ==
  /\ alive /\ Retiring("apply")
  /\ ReceiptFor(retiring.path) # {}
  /\ archives[retiring.path] # NoFile
  /\ retiring' = [retiring EXCEPT !.stage =
                    IF \A r \in ReceiptFor(retiring.path) : r.compacted
                    THEN "compact" ELSE "rebuild"]
  /\ UNCHANGED <<db, projection, archives, reports, now, alive, owed, pass, plan>>

(* Pending recovery of another plan, a stale or truncated plan, nothing to *)
(* do, or an occupied path: the call returns without a trace in the store. *)
RefuseRetention ==
  /\ alive /\ Retiring("apply")
  /\ ReceiptFor(retiring.path) = {}
  /\ ~MayRetain(retiring.path)
  /\ retiring' = NoPlan
  /\ UNCHANGED <<db, projection, archives, reports, now, alive, owed, pass, plan>>

FinishRebuild ==
  /\ alive /\ Retiring("rebuild")
  /\ projection' = Visible(db)
  /\ db' = [db EXCEPT !.dirty = FALSE]
  /\ retiring' = [retiring EXCEPT !.stage = "compact"]
  /\ UNCHANGED <<archives, reports, now, alive, owed, pass, plan>>

FinishCompact ==
  /\ alive /\ Retiring("compact")
  /\ db' = CompactReceipt(db, retiring.plan)
  /\ retiring' = NoPlan
  /\ UNCHANGED <<projection, archives, reports, now, alive, owed, pass, plan>>
-----------------------------------------------------------------------------
(* Reports. *)

(* A renderer reads a generation-consistent snapshot and publishes it      *)
(* under the render guard.                                                 *)
RenderReport(r) ==
  /\ alive /\ pass = NoPass /\ retiring = NoPlan
  /\ reports' = [reports EXCEPT ![r] = [generation |-> db.generation,
                                        content |-> Visible(db)]]
  /\ UNCHANGED <<db, projection, archives, now, alive, owed, pass, plan, retiring>>

(* report_ack::acknowledge for the generation that was rendered.           *)
AcknowledgeReport(r) ==
  /\ alive
  /\ reports[r] # NoFile
  /\ db.generation = reports[r].generation
  /\ db' = [db EXCEPT !.acknowledged = reports[r].generation]
  /\ UNCHANGED <<projection, archives, reports, now, alive, owed, pass, plan, retiring>>
-----------------------------------------------------------------------------
Next ==
  \/ Tick
  \/ \E i \in Items : Ingest(i)
  \/ \E i, j \in Items : IngestBatch(i, j)
  \/ RebuildProjection
  \/ CrashAfterRename
  \/ Crash
  \/ Open
  \/ MaintainBegin
  \/ \E c \in Candidates : MaintainSkip(c) \/ MaintainTrace(c) \/ MaintainInterrupted(c)
  \/ MaintainEnd
  \/ \E cutoff \in Cutoffs : PlanRetention(cutoff)
  \/ \E p \in Paths : BeginRetention(p)
  \/ ApplyRetention \/ RetentionInterrupted \/ ResumeRetention \/ RefuseRetention
  \/ FinishRebuild
  \/ FinishCompact
  \/ \E r \in Renderers : RenderReport(r) \/ AcknowledgeReport(r)

Spec == Init /\ [][Next]_vars
-----------------------------------------------------------------------------
(* What the rows of the database look like.                                *)
DbTypeOK(d) ==
  /\ DOMAIN d = DOMAIN EmptyDb
  /\ d.cursors \in [Streams -> 0 .. MaxCursor]
  /\ \A r \in d.inputs : r.stream \in Streams /\ r.cursor \in 1 .. MaxCursor
  /\ \A r \in d.dispositions : r.stream \in Streams /\ r.cursor \in 1 .. MaxCursor
  /\ \A o \in d.observations : o.trace \in Traces /\ o.at \in Nat
  /\ d.records \in [Spans -> DomainSpanState \cup {NoState}]
  /\ d.unresolved \subseteq Spans
  /\ d.index \in [Traces -> IndexRows \cup {NoRow}]
  /\ d.control \in [Traces -> ControlRows \cup {NoRow}]
  /\ d.archived \in [Spans -> DomainSpanState \cup {NoState}]
  /\ \A g \in d.guards : g.span \in Spans /\ g.state \in DomainSpanState
  /\ \A x \in d.tombstones : x.trace \in Traces
  /\ d.dirty \in BOOLEAN
  /\ d.generation \in Nat /\ d.acknowledged \in Nat /\ d.epoch \in Nat

TypeOK ==
  /\ DbTypeOK(db)
  /\ projection \in [Spans -> DomainSpanState \cup {NoState}] \cup {NoFile}
  /\ DOMAIN archives = Paths /\ DOMAIN reports = Renderers
  /\ now \in 0 .. MaxNow
  /\ alive \in BOOLEAN /\ owed \in BOOLEAN

(* The state the store holds for a span, in whatever tier it is.           *)
Stored(d, s) == IF d.records[s] # NoState THEN d.records[s] ELSE d.archived[s]

(* source_inputs and adapter_dispositions are two tables with one key      *)
(* space and no constraint between them: a cursor is accounted for in at   *)
(* most one of them, once, and never ahead of the stream's checkpoint.     *)
LedgerExclusive ==
  \A st \in Streams, c \in 1 .. MaxCursor :
    LET rows == LedgerRow(db.inputs, st, c) \cup LedgerRow(db.dispositions, st, c)
    IN /\ Cardinality(rows) <= 1
       /\ rows # {} => c <= db.cursors[st]

(* Ingest accounts for every cursor it moves past: a checkpoint advances   *)
(* only over cursors that get a ledger row in the same commit, so no       *)
(* input of a batch is dropped between two accepted ones.                  *)
NoCursorSkipped ==
  [][\A st \in Streams :
       /\ db'.cursors[st] >= db.cursors[st]
       /\ \A c \in (db.cursors[st] + 1) .. db'.cursors[st] :
            \/ LedgerRow(db'.inputs, st, c) # {}
            \/ LedgerRow(db'.dispositions, st, c) # {}]_vars

(* A trace is hot, archived (warm or cold) or expired, and only one of     *)
(* them at a time, however ingest, maintenance and retention interleave:   *)
(* nothing is restored from behind a tombstone, and no span is held twice. *)
OneTier ==
  \A t \in Traces :
    /\ ~(HotSpans(db, t) # {} /\ ArchivedSpans(db, t) # {})
    /\ Expired(db, t) => HotSpans(db, t) = {} /\ ArchivedSpans(db, t) = {}
    /\ db.control[t] # NoRow <=> ArchivedSpans(db, t) # {}

(* Maintenance decides from the incrementally kept hot_trace_index and     *)
(* lifecycle_trace_control, and refuses to work (SchemaMismatch) when a    *)
(* count is wrong: the index has to agree with the rows it summarises.     *)
IndexAgrees ==
  \A t \in Traces :
    LET S == HotSpans(db, t)
        row == db.index[t]
    IN /\ row # NoRow <=> S # {}
       /\ row # NoRow =>
            /\ row.count = Cardinality(S)
            /\ row.unresolved <=> S \cap db.unresolved # {}
            /\ \A o \in EventsOf(db, t) : o.at <= row.latest
       /\ db.control[t] # NoRow =>
            db.control[t].count = Cardinality(ArchivedSpans(db, t))

(* The topology rows are sound after any arrival order: a flagged span is  *)
(* exactly one whose parent has not arrived (a pin that would never lift,  *)
(* or a missing pin, both break retention), and present links stay inside  *)
(* their trace.                                                            *)
TopologySound ==
  /\ db.unresolved = {s \in Spans : /\ ParentIn(db.records, s) # NoSpan
                                    /\ db.records[ParentIn(db.records, s)] = NoState}
  /\ ValidTopology(db.records)

(* The JSONL projection is disposable but never wrong in silence: unless   *)
(* it is marked dirty it is missing or shows exactly the visible records,  *)
(* also after a crash between a rename, a removal and their commits.       *)
CleanProjectionIsCurrent ==
  db.dirty \/ projection = NoFile \/ projection = Visible(db)

(* Order-free: what a state may say once "old" has been recorded.          *)
KnowsAtLeast(new, old) ==
  /\ new.trace = old.trace /\ new.parent = old.parent /\ new.kind = old.kind
  /\ old.lifecycle \in Terminal => new.lifecycle = old.lifecycle
  /\ old.lifecycle = "running" => new.lifecycle # "observed"
  /\ new.start <= old.start
  /\ old.end # NoTime => new.end # NoTime /\ new.end >= old.end
  /\ \A f \in Fields : old.fields[f] \in {NoValue, new.fields[f]}

(* What is known of a span only grows: no ingest, tier move, rehydration   *)
(* or crash replaces a stored state by one that knows less. A span leaves  *)
(* the store only when its trace is past the delete threshold of the pass  *)
(* that removes it, or when an archive on disk holds its final state.      *)
SpanHistoryMonotone ==
  [][\A s \in Spans :
       LET old == Stored(db, s)
           new == Stored(db', s)
       IN old # NoState =>
            \/ new # NoState /\ KnowsAtLeast(new, old)
            \/ /\ new = NoState
               /\ \/ /\ pass # NoPass /\ Expired(db', old.trace)
                     /\ ObservedAt(old) <= Cutoff(pass.at, DeleteAge)
                  \/ \E p \in Paths : /\ archives'[p] # NoFile
                                      /\ <<s, old>> \in archives'[p].entries]_vars

(* A receipt is the licence to report a retention as done: the archive it  *)
(* names is published, for that plan, and is never replaced.               *)
ReceiptHasArchive ==
  \A r \in db.receipts : /\ archives[r.path] # NoFile
                         /\ archives[r.path].plan = r.plan

(* At most one uncompacted receipt exists, and the tables that are capped  *)
(* by count stay capped.                                                   *)
BoundedLedgers ==
  /\ Cardinality({r \in db.receipts : ~r.compacted}) <= 1
  /\ Cardinality({r \in db.receipts : r.compacted}) <= MaxReceipts
  /\ Cardinality(db.dispositions) <= MaxDispositions
  /\ Cardinality(db.guards) <= MaxGuards
  /\ Cardinality(db.tombstones) <= MaxGuards

(* Whatever makes a record disappear from reports advances the visibility  *)
(* epoch in the same commit: published views are revoked by epoch.         *)
VisibilityLossAdvancesEpoch ==
  [][(\E s \in Spans : Visible(db)[s] # NoState /\ Visible(db')[s] = NoState)
       => db'.epoch > db.epoch]_vars

(* An artifact of the current generation shows the current records; with   *)
(* acknowledge only accepting the current generation this is what makes    *)
(* an acknowledged report current.                                         *)
CurrentGenerationIsCurrentContent ==
  /\ \A r \in Renderers : reports[r] # NoFile /\ reports[r].generation = db.generation
                            => reports[r].content = Visible(db)
  /\ db.acknowledged <= db.generation

(* docs/LOCAL_RUNTIME.md: a trace remains live when any observation is at  *)
(* or after the cutoff. No archive of a plan may hold a span last observed *)
(* at or after the plan's cutoff.                                          *)
RetentionKeepsRecent ==
  \A p \in Paths : archives[p] # NoFile =>
    \A e \in archives[p].entries : ObservedAt(e[2]) < archives[p].plan.cutoff
=============================================================================
