--------------------------- MODULE ReportRefresh ---------------------------
(***************************************************************************)
(* How the collector keeps the report view current: request handlers, the  *)
(* lifecycle watcher and the authority watcher ask for a refresh; one      *)
(* background task at a time debounces, builds, publishes, acknowledges    *)
(* and retries; other processes commit, publish and revoke on their own,   *)
(* and the report command renders and acknowledges the static HTML report. *)
(*                                                                         *)
(* The scheduling flag and the request counter are atomics that nobody     *)
(* locks, so a request that meets a task which is about to retire is       *)
(* split into its two atomic steps and the retirement into its reads.      *)
(* Durations (debounce, back-off, the learned quiet period) are left out:  *)
(* a sleep ends at any time. The failure counter and stage of the health   *)
(* document are only reported, and its dirty flag is read from the store   *)
(* again by every reader: all three are left out.                          *)
(***************************************************************************)
EXTENDS Integers, FiniteSets

CONSTANTS Handlers,     \* concurrent ingest requests
          Tasks,        \* slots for refresh tasks that have not returned
          RetryLimit,   \* REPORT_RETRY_LIMIT: failed attempts of one task
          Coordinated,  \* the storage barrier exists: no cleanup on drop
          Prompt,       \* a sleep outlasts a call and a retirement
          MaxGeneration, MaxReplays, MaxRequests, MaxFaults, MaxCrashes   \* bounds

ASSUME RefreshAssumption ==
  /\ RetryLimit \in Nat \ {0}
  /\ Coordinated \in BOOLEAN /\ Prompt \in BOOLEAN
  /\ MaxGeneration \in Nat /\ MaxReplays \in Nat /\ MaxRequests \in Nat
  /\ MaxFaults \in Nat /\ MaxCrashes \in Nat
  /\ Tasks \cap Handlers = {}
  /\ (Tasks \cup Handlers) \cap {"watcher", "lifecycle"} = {}

VARIABLES store,      \* SQLite: [generation, acknowledged]
          view,       \* generation of the catalog's current view, or NoView
          files,      \* [reservation, staging, marker, html] under the root
          alive,      \* the collector process is running
          scheduled,  \* report_refresh_scheduled
          requested,  \* report_refresh_requested
          call,       \* caller -> where it is in schedule_report_refresh
          task,       \* slot -> a refresh task
          observed,   \* the generation the authority watcher last saw
          degraded,   \* report_degraded of the collector's state
          faults,     \* busy locks, I/O errors, panics and report commands so far
          crashes,
          tried,      \* an attempt began since the last commit
          rendering   \* the generation the report command renders, or NoView

vars == <<store, view, files, alive, scheduled, requested, call, task, observed,
          degraded, faults, crashes, tried, rendering>>

NoView == -1    \* no view, no HTML report or only its placeholder, no command
Callers == Handlers \cup Tasks \cup {"watcher", "lifecycle"}

(* ReportStatus::pending *)
Pending == store.acknowledged # store.generation

IdleTask == [pc |-> "idle", seen |-> 0, epoch |-> 0, attempts |-> 0,
             generation |-> 0, outcome |-> "none"]

(* The step that clears the flag and re-reads keeps the collector mutex.   *)
CollectorUnlocked == \A t \in Tasks : task[t].pc \notin {"cleared", "recheck", "unmark"}
Retiring(t) == task[t].pc \in {"cleared", "recheck", "unmark", "closed"}

(* A maintenance pass holds the mutation lock and the render guard; a      *)
(* build holds the render guard only, from its reservation to publication, *)
(* and so does the report command, from its snapshot to its end.           *)
Maintaining == call["lifecycle"] = "maintain"
Building == \E t \in Tasks : task[t].pc = "build"
Rendering == rendering # NoView

(* Mutants: the release comes before the cleanup, or is forgotten.         *)
ReleasedOnly == [files EXCEPT !.reservation = "none"]
CleanedOnly == [files EXCEPT !.staging = FALSE]

(* An unpublished file is accounted for by the reservation; recovery       *)
(* cleans up first and releases then.                                      *)
Recovered == [files EXCEPT !.reservation = "none", !.staging = FALSE]

Fault == faults < MaxFaults /\ faults' = faults + 1
NoFault == faults' = faults

Commit(g) ==
  /\ g <= MaxGeneration
  /\ store' = [store EXCEPT !.generation = g]
  /\ tried' = FALSE

StartTask == [IdleTask EXCEPT !.pc = "debounce", !.seen = requested]

Init ==
  /\ store = [generation |-> 0, acknowledged |-> 0]
  /\ view = NoView
  /\ files = [reservation |-> "none", staging |-> FALSE, marker |-> FALSE, html |-> NoView]
  /\ alive = FALSE
  /\ scheduled = FALSE
  /\ requested = 0
  /\ call = [c \in Callers |-> "none"]
  /\ task = [t \in Tasks |-> IdleTask]
  /\ observed = 0
  /\ degraded = FALSE
  /\ faults = 0 /\ crashes = 0
  /\ tried = FALSE
  /\ rendering = NoView

-----------------------------------------------------------------------------
(* Mutant: only a missing view counts.                                     *)
MissingOnly == view = NoView

(* report_status and automatic_report_view_missing at startup.             *)
PendingOrMissing == Pending \/ view = NoView

(* serve: recover the reservation and the catalog, reconcile the marker,   *)
(* wake the refresh when the report is pending, missing or marked dirty.   *)
(* The recovery needs the render guard: without it the start fails.        *)
Serve ==
  /\ ~alive /\ ~Rendering
  /\ alive' = TRUE
  /\ LET dirty == PendingOrMissing
         wakeup == dirty \/ files.marker
     IN  /\ files' = [Recovered EXCEPT !.marker = wakeup]
         /\ degraded' = dirty
         /\ scheduled' = wakeup
         /\ requested' = IF wakeup THEN 1 ELSE 0
         /\ IF wakeup
            THEN \E t \in Tasks :
                   task' = [task EXCEPT ![t] = [IdleTask EXCEPT !.pc = "debounce",
                                                                !.seen = 1]]
            ELSE task' = task
  /\ observed' = store.generation
  /\ UNCHANGED <<store, view, call, faults, crashes, tried, rendering>>

(* The process dies: files and the database stay, a reservation goes stale. *)
Lost ==
  /\ crashes < MaxCrashes /\ crashes' = crashes + 1
  /\ alive' = FALSE
  /\ scheduled' = FALSE /\ requested' = 0
  /\ call' = [c \in Callers |-> "none"]
  /\ task' = [t \in Tasks |-> IdleTask]
  /\ observed' = 0
  /\ degraded' = FALSE
  /\ UNCHANGED <<view, faults, rendering>>

StaleFiles == [files EXCEPT !.reservation = IF @ = "active" THEN "stale" ELSE @]

Crash ==
  /\ alive
  /\ Lost
  /\ files' = StaleFiles
  /\ UNCHANGED <<store, tried>>

(* commit_batch marks before it commits: the crash may fall in between or  *)
(* before the handler asks for a refresh.                                  *)
IngestInterrupted ==
  /\ alive /\ CollectorUnlocked /\ ~Maintaining
  /\ Lost
  /\ files' = [StaleFiles EXCEPT !.marker = TRUE]
  /\ UNCHANGED <<store, tried>> \/ Commit(store.generation + 1)

-----------------------------------------------------------------------------
(* schedule_report_refresh: count the request, then try to own the task.   *)
Request(c) ==
  /\ call[c] = "inc" /\ requested < MaxRequests
  /\ requested' = requested + 1
  /\ call' = [call EXCEPT ![c] = "cas"]
  /\ UNCHANGED <<store, view, files, alive, scheduled, task, observed, degraded,
                 faults, crashes, tried, rendering>>

(* A task that returned has no slot, but for the call it ends with.        *)
Free(t, c) == task[t].pc = "idle" /\ (call[t] = "none" \/ t = c)

(* Mutant: the flag is stored and not exchanged.                           *)
SpawnAlways(c) ==
  /\ call[c] = "cas"
  /\ call' = [call EXCEPT ![c] = "none"]
  /\ scheduled' = TRUE
  /\ \E t \in Tasks : Free(t, c) /\ task' = [task EXCEPT ![t] = StartTask]
  /\ UNCHANGED <<store, view, files, alive, requested, observed, degraded,
                 faults, crashes, tried, rendering>>

Spawn(c) ==
  /\ call[c] = "cas"
  /\ call' = [call EXCEPT ![c] = "none"]
  /\ scheduled' = TRUE
  /\ IF scheduled
     THEN task' = task
     ELSE \E t \in Tasks : Free(t, c) /\ task' = [task EXCEPT ![t] = StartTask]
  /\ UNCHANGED <<store, view, files, alive, requested, observed, degraded,
                 faults, crashes, tried, rendering>>

(* ingest_logs and ingest_notify: commit_batch under the collector mutex   *)
(* and the mutation lock, then the request. reconcile_ingest_report_state  *)
(* may fail to read the status, and the postcheck of the scope may fail.   *)
Ingest(h) ==
  /\ alive /\ call[h] = "none" /\ CollectorUnlocked /\ ~Maintaining
  /\ Commit(store.generation + 1)
  /\ files' = [files EXCEPT !.marker = TRUE]
  /\ \/ NoFault /\ UNCHANGED degraded
     \/ Fault /\ degraded' = TRUE
  /\ call' = [call EXCEPT ![h] = "inc"]
  /\ UNCHANGED <<view, alive, scheduled, requested, task, observed, crashes, rendering>>

(* A batch that changes nothing, or whose transaction fails, still marks   *)
(* and reconciles; only the accepted one asks for a refresh.               *)
IngestUnchanged(h) ==
  /\ alive /\ call[h] = "none" /\ CollectorUnlocked /\ ~Maintaining
  /\ requested < MaxReplays
  /\ files' = [files EXCEPT !.marker = Pending]
  /\ \/ NoFault /\ call' = [call EXCEPT ![h] = "inc"]
     \/ Fault /\ UNCHANGED call
  /\ UNCHANGED <<store, view, alive, scheduled, requested, task, observed, degraded, crashes,
                 tried, rendering>>

(* maintain_storage_lifecycle: invalidate first, then the pass.            *)
LifecycleInvalidate ==
  /\ alive /\ call["lifecycle"] = "none" /\ ~Building /\ ~Rendering
  /\ Commit(store.generation + 1)
  /\ call' = [call EXCEPT !["lifecycle"] = "maintain"]
  /\ UNCHANGED <<view, files, alive, scheduled, requested, task, observed, degraded,
                 faults, crashes, rendering>>

(* write_refresh_pending: the HTML report shows no data any more.          *)
Placeheld == [files EXCEPT !.html = NoView]

(* The pass replaces the HTML report and retires the views before it       *)
(* commits what hides a record; one that fails, even before the marker is  *)
(* written, asks for a refresh too.                                        *)
LifecyclePass ==
  /\ Maintaining
  /\ \/ NoFault /\ files' = [Placeheld EXCEPT !.marker = TRUE]
     \/ Fault /\ files' \in {files, Placeheld}
  /\ \/ UNCHANGED <<store, view, tried>>
     \/ view' = NoView /\ (UNCHANGED <<store, tried>> \/ Commit(store.generation + 1))
  /\ call' = [call EXCEPT !["lifecycle"] = "inc"]
  /\ UNCHANGED <<alive, scheduled, requested, task, observed, degraded, crashes, rendering>>

(* Another process commits under the mutation lock, or takes the render    *)
(* guard too, invalidates, replaces the HTML report, retires the views and *)
(* deletes; the collector learns of it from the generation only.           *)
ForeignCommit ==
  /\ ~Maintaining
  /\ \/ Commit(store.generation + 1) /\ UNCHANGED <<files, view>>
     \/ /\ ~Building /\ ~Rendering
        /\ files' = Placeheld /\ view' \in {view, NoView}
        /\ Commit(store.generation + 1) \/ Commit(store.generation + 2)
  /\ UNCHANGED <<alive, scheduled, requested, call, task, observed, degraded,
                 faults, crashes, rendering>>

(* refresh_dashboard_snapshot in another process, started and finished.    *)
ForeignRefresh ==
  /\ ~Maintaining /\ ~Building /\ ~Rendering
  /\ view # store.generation
  /\ view' = store.generation
  /\ store' = [store EXCEPT !.acknowledged = store.generation]
  /\ files' = Recovered
  /\ UNCHANGED <<alive, scheduled, requested, call, task, observed, degraded, faults,
                 crashes, tried, rendering>>

-----------------------------------------------------------------------------
(* The report command: report_acknowledging in a process of its own.       *)

(* Under the render guard it reads a snapshot of one generation. A command *)
(* that finds nothing pending could only acknowledge the same again and is *)
(* left out; the others are bounded together with the faults.              *)
RenderReport ==
  /\ ~Rendering /\ ~Building /\ ~Maintaining
  /\ Pending
  /\ Fault
  /\ rendering' = store.generation
  /\ UNCHANGED <<store, view, files, alive, scheduled, requested, call, task, observed,
                 degraded, crashes, tried>>

Rendered == [files EXCEPT !.html = rendering]

(* Mutant: whatever is the current generation is acknowledged.             *)
WriteUnfenced ==
  /\ Rendering /\ ~Maintaining
  /\ files' = Rendered
  /\ store' = [store EXCEPT !.acknowledged = store.generation]
  /\ rendering' = NoView
  /\ UNCHANGED <<view, alive, scheduled, requested, call, task, observed, degraded, faults,
                 crashes, tried>>

(* Under the mutation lock it replaces the file and acknowledges what it   *)
(* rendered. When more was committed meanwhile, which the snapshot itself  *)
(* may notice before there is a file, it renders again, at most            *)
(* REPORT_RENDER_RETRY_LIMIT times, and still holds the render guard.      *)
WriteReport ==
  /\ Rendering /\ ~Maintaining
  /\ IF rendering = store.generation
     THEN /\ files' = Rendered
          /\ store' = [store EXCEPT !.acknowledged = rendering]
          /\ rendering' = NoView
     ELSE /\ files' \in {files, Rendered}
          /\ store' = store
          /\ rendering' \in {store.generation, NoView}
  /\ UNCHANGED <<view, alive, scheduled, requested, call, task, observed, degraded, faults,
                 crashes, tried>>

(* It fails or dies, before or after the file is replaced.                 *)
ReportFails ==
  /\ Rendering
  /\ files' \in {files, Rendered}
  /\ rendering' = NoView
  /\ UNCHANGED <<store, view, alive, scheduled, requested, call, task, observed, degraded,
                 faults, crashes, tried>>

-----------------------------------------------------------------------------

(* poll_report_authority: a change wakes the refresh, and a report that is *)
(* not pending clears the degraded state.                                  *)
WakesOnChange == Pending /\ observed # store.generation
StillDegraded == degraded /\ Pending

(* watch_report_authority                                                  *)
Poll ==
  /\ alive /\ call["watcher"] = "none" /\ CollectorUnlocked /\ ~Maintaining
  /\ observed' = store.generation
  /\ degraded' = StillDegraded
  /\ files' = [files EXCEPT !.marker = Pending /\ (@ \/ observed # store.generation)]
  /\ call' = [call EXCEPT !["watcher"] =
                IF WakesOnChange THEN "inc" ELSE "none"]
  /\ UNCHANGED <<store, view, alive, scheduled, requested, task, faults, crashes,
                 tried, rendering>>

(* The mutation lock is busy, or the status cannot be read.                *)
PollFails ==
  /\ alive /\ call["watcher"] = "none" /\ CollectorUnlocked
  /\ Fault
  /\ degraded' = TRUE
  /\ UNCHANGED <<store, view, files, alive, scheduled, requested, call, task, observed,
                 crashes, tried, rendering>>

-----------------------------------------------------------------------------
(* The refresh task.                                                       *)
At(t, pc) == task[t].pc = pc
Goes(t, pc) == task' = [task EXCEPT ![t].pc = pc]

(* A sleep takes 200 ms or more; a call is two atomic operations, and a    *)
(* retiring task reads a counter and a row before it makes its own.        *)
Slept == Prompt => /\ \A c \in Callers : call[c] \notin {"inc", "cas"}
                   /\ \A t \in Tasks : ~Retiring(t)

(* await_report_debounce, then the load of attempt_epoch.                  *)
Debounce(t) ==
  /\ At(t, "debounce") /\ Slept
  /\ task' = IF task[t].seen = requested
             THEN [task EXCEPT ![t].pc = "attempt", ![t].epoch = requested, ![t].seen = 0]
             ELSE [task EXCEPT ![t].seen = requested]
  /\ UNCHANGED <<store, view, files, alive, scheduled, requested, call, observed, degraded,
                 faults, crashes, tried, rendering>>

Retry(t) ==
  /\ At(t, "retry") /\ Slept
  /\ task' = [task EXCEPT ![t].pc = "attempt", ![t].epoch = requested]
  /\ UNCHANGED <<store, view, files, alive, scheduled, requested, call, observed, degraded,
                 faults, crashes, tried, rendering>>

(* refresh_report up to the bound staging file: a stale reservation is     *)
(* recovered, the build reserved, and the mutation lock given back.        *)
Build(t) ==
  /\ At(t, "attempt") /\ ~Maintaining /\ ~Rendering
  /\ files' = [files EXCEPT !.reservation = "active", !.staging = TRUE]
  /\ task' = [task EXCEPT ![t].pc = "build", ![t].generation = store.generation]
  /\ tried' = TRUE
  /\ UNCHANGED <<store, view, alive, scheduled, requested, call, observed, degraded,
                 faults, crashes, rendering>>

Returns(t, outcome) ==
  task' = [task EXCEPT ![t].pc = "settle", ![t].generation = 0, ![t].outcome = outcome]

(* A reservation whose owner is gone, or whose recovery is still to come.  *)
Promised == [files EXCEPT !.reservation = "stale"]

(* A busy lock before the recovery, no capacity after it, or a busy render *)
(* guard once the reservation is written: the report command may have it.  *)
Refused(t) ==
  /\ At(t, "attempt")
  /\ \/ /\ Fault
        /\ files' \in IF Maintaining \/ Rendering THEN {files}
                     ELSE {files, Recovered, [Recovered EXCEPT !.reservation = "stale"]}
     \/ /\ Rendering /\ ~Maintaining
        /\ NoFault
        /\ files' = Promised
  /\ Returns(t, "failed")
  /\ tried' = TRUE
  /\ UNCHANGED <<store, view, alive, scheduled, requested, call, observed, degraded,
                 crashes, rendering>>

(* The staging file stays for recovery when writes are coordinated; the    *)
(* metadata of the reservation outlives its owner in any case.             *)
Abandoned == [files EXCEPT !.reservation = "stale", !.staging = Coordinated]

(* Publication fences the generation, replaces the catalog, acknowledges   *)
(* the exact generation and releases the reservation, under one lock.      *)
SnapshotCurrent(t) == task[t].generation = store.generation

Publish(t) ==
  /\ At(t, "build") /\ ~Maintaining
  /\ IF SnapshotCurrent(t)
     THEN /\ view' = task[t].generation
          /\ store' = [store EXCEPT !.acknowledged = task[t].generation]
          /\ files' = Recovered
          /\ Returns(t, "published")
     ELSE /\ files' = Abandoned
          /\ Returns(t, "changed")
          /\ UNCHANGED <<store, view>>
  /\ UNCHANGED <<alive, scheduled, requested, call, observed, degraded, faults, crashes,
                 tried, rendering>>

(* The attempt breaks off: while building, after the catalog names the     *)
(* view, or after the acknowledgement.                                     *)
BuildFails(t) ==
  /\ At(t, "build")
  /\ Fault
  /\ Returns(t, "failed")
  /\ \/ files' = Abandoned /\ UNCHANGED <<store, view>>
     \/ /\ SnapshotCurrent(t)
        /\ files' = [files EXCEPT !.reservation = "stale", !.staging = FALSE]
        /\ view' = task[t].generation
        /\ store' \in {store, [store EXCEPT !.acknowledged = task[t].generation]}
  /\ UNCHANGED <<alive, scheduled, requested, call, observed, degraded, crashes, tried, rendering>>

-----------------------------------------------------------------------------
(* Mutant: the condition is inverted.                                      *)
CompletedPending(t, pending) == task[t].outcome = "published" /\ pending

(* After the attempt, under the collector mutex: what became of it, given  *)
(* the pending state as read (TRUE when the status cannot be read).        *)
Completed(t, pending) == task[t].outcome = "published" /\ ~pending

Failure(t, readable) ==
  CASE ~readable -> "status"
    [] task[t].outcome = "changed" -> "changed"
    [] task[t].outcome = "failed" -> "genuine"
    [] OTHER -> "none"

(* Mutant: one attempt too many.                                           *)
LastAttemptLate(attempts) == attempts > RetryLimit
LastAttempt(attempts) == attempts = RetryLimit

Settle(t) ==
  /\ At(t, "settle") /\ CollectorUnlocked
  /\ \E readable \in BOOLEAN :
       LET pending == ~readable \/ Pending
           failure == Failure(t, readable)
           attempts == task[t].attempts + 1
       IN  /\ IF readable THEN NoFault ELSE Fault
           /\ \/ /\ Completed(t, pending)
                 /\ degraded' = FALSE
                 /\ scheduled' = FALSE
                 /\ Goes(t, "cleared")
              \/ /\ ~Completed(t, pending) /\ failure \in {"changed", "none"}
                 /\ degraded' = TRUE
                 /\ task' = [task EXCEPT ![t] = StartTask]
                 /\ UNCHANGED scheduled
              \/ /\ ~Completed(t, pending) /\ failure \notin {"changed", "none"}
                 /\ degraded' = (degraded \/ LastAttempt(attempts))
                 /\ task' = IF LastAttempt(attempts)
                             THEN [task EXCEPT ![t].pc = "cleanup", ![t].attempts = 0,
                                               ![t].outcome = "none"]
                             ELSE [task EXCEPT ![t].pc = "retry", ![t].attempts = attempts,
                                               ![t].outcome = "none"]
                 /\ UNCHANGED scheduled
  /\ UNCHANGED <<store, view, files, alive, requested, call, observed, crashes, tried, rendering>>

(* The retirement of a completed task: the flag is down, the counter and   *)
(* the status are read again, the mutex is given up, and the task asks     *)
(* for its own successor when either moved.                                *)
RereadRequests(t) ==
  /\ At(t, "cleared")
  /\ task' = [task EXCEPT ![t].pc = "recheck",
                          ![t].outcome = IF requested # task[t].epoch THEN "again" ELSE "none"]
  /\ UNCHANGED <<store, view, files, alive, scheduled, requested, call, observed, degraded,
                 faults, crashes, tried, rendering>>

Leaves(t, again) ==
  /\ task' = [task EXCEPT ![t] = IdleTask]
  /\ call' = [call EXCEPT ![t] = IF again THEN "inc" ELSE "none"]

RereadStatus(t) ==
  /\ At(t, "recheck")
  /\ \E readable \in BOOLEAN :
       LET pending == ~readable \/ Pending
       IN  /\ IF readable THEN NoFault ELSE Fault
           /\ IF pending THEN Leaves(t, TRUE) ELSE Goes(t, "unmark") /\ UNCHANGED call
  /\ UNCHANGED <<store, view, files, alive, scheduled, requested, observed, degraded, crashes,
                 tried, rendering>>

Unmark(t) ==
  /\ At(t, "unmark")
  /\ files' = [files EXCEPT !.marker = FALSE]
  /\ Leaves(t, task[t].outcome = "again")
  /\ UNCHANGED <<store, view, alive, scheduled, requested, observed, degraded, faults,
                 crashes, tried, rendering>>

(* A task that gave up recovers the reservation; a busy lock is retried.   *)
NeedsGuard == files.reservation = "stale"

Cleanup(t) ==
  /\ At(t, "cleanup") /\ ~Maintaining /\ ~(Rendering /\ NeedsGuard)
  /\ files' = Recovered
  /\ Goes(t, "closing")
  /\ UNCHANGED <<store, view, alive, scheduled, requested, call, observed, degraded, faults,
                 crashes, tried, rendering>>

CleanupFails(t) ==
  /\ At(t, "cleanup") /\ CollectorUnlocked
  /\ Fault \/ (Rendering /\ NeedsGuard /\ NoFault)
  /\ \/ /\ task[t].attempts + 1 < RetryLimit
        /\ task' = [task EXCEPT ![t].attempts = @ + 1]
     \/ Goes(t, "closing")
  /\ UNCHANGED <<degraded, store, view, files, alive, scheduled, requested, call, observed, crashes,
                 tried, rendering>>

GiveUp(t) ==
  /\ At(t, "closing")
  /\ scheduled' = FALSE
  /\ Goes(t, "closed")
  /\ UNCHANGED <<store, view, files, alive, requested, call, observed, degraded, faults,
                 crashes, tried, rendering>>

(* Mutant: requests made during the last attempt are forgotten.            *)
LeaveQuietly(t) ==
  /\ At(t, "closed")
  /\ Leaves(t, FALSE)
  /\ UNCHANGED <<store, view, files, alive, scheduled, requested, observed, degraded, faults,
                 crashes, tried, rendering>>

Reconsider(t) ==
  /\ At(t, "closed")
  /\ Leaves(t, requested # task[t].epoch)
  /\ UNCHANGED <<store, view, files, alive, scheduled, requested, observed, degraded, faults,
                 crashes, tried, rendering>>

-----------------------------------------------------------------------------
TaskStep(t) ==
  \/ Debounce(t) \/ Retry(t) \/ Build(t) \/ Refused(t) \/ Publish(t) \/ BuildFails(t)
  \/ Settle(t) \/ RereadRequests(t) \/ RereadStatus(t) \/ Unmark(t)
  \/ Cleanup(t) \/ CleanupFails(t) \/ GiveUp(t) \/ Reconsider(t)

CallStep(c) == Request(c) \/ Spawn(c)

Next ==
  \/ Serve \/ Crash \/ IngestInterrupted
  \/ \E c \in Callers : CallStep(c)
  \/ \E h \in Handlers : Ingest(h) \/ IngestUnchanged(h)
  \/ LifecycleInvalidate \/ LifecyclePass
  \/ ForeignCommit \/ ForeignRefresh
  \/ RenderReport \/ WriteReport \/ ReportFails
  \/ Poll \/ PollFails
  \/ \E t \in Tasks : TaskStep(t)

Spec == Init /\ [][Next]_vars

(* launchd keeps the collector alive, the runtime runs every spawned task  *)
(* and the watchers tick forever; a report command that was started ends.  *)
(* No input has to arrive.                                                 *)
FairSpec ==
  /\ Spec
  /\ WF_vars(Serve) /\ WF_vars(Poll) /\ WF_vars(LifecyclePass)
  /\ WF_vars(WriteReport)
  /\ \A c \in Callers : WF_vars(CallStep(c))
  /\ \A t \in Tasks : WF_vars(TaskStep(t))

-----------------------------------------------------------------------------
(* Types; a task never counts as many failures as REPORT_RETRY_LIMIT.      *)
TypeOK ==
  /\ store \in [generation : 0..MaxGeneration, acknowledged : 0..MaxGeneration]
  /\ view \in NoView..MaxGeneration
  /\ files \in [reservation : {"none", "active", "stale"}, staging : BOOLEAN,
                marker : BOOLEAN, html : NoView..MaxGeneration]
  /\ alive \in BOOLEAN /\ scheduled \in BOOLEAN
  /\ requested \in Nat /\ observed \in Nat
  /\ faults \in 0..MaxFaults /\ crashes \in 0..MaxCrashes
  /\ call \in [Callers -> {"none", "inc", "cas", "maintain"}]
  /\ task \in [Tasks -> [pc : {"idle", "debounce", "retry", "attempt", "build", "settle",
                              "cleared", "recheck", "unmark", "cleanup", "closing", "closed"},
                        seen : Nat, epoch : Nat, attempts : 0..(RetryLimit - 1), generation : Nat,
                        outcome : {"none", "published", "changed", "failed", "again"}]]
  /\ degraded \in BOOLEAN /\ tried \in BOOLEAN
  /\ rendering \in NoView..MaxGeneration

(* The tasks that may build: from their spawn until they lower the flag.   *)
Owners == {t \in Tasks : task[t].pc \notin {"idle", "cleared", "recheck", "unmark", "closed"}}

(* However requests, retirements and successors interleave, the flag is up *)
(* exactly while one task owns the refresh: two tasks never build at once. *)
OneRefreshOwner ==
  /\ scheduled <=> Owners # {}
  /\ \A s, t \in Owners : s = t

(* Nobody is left who would still schedule a refresh for what is committed. *)
Quiescent ==
  /\ alive /\ ~scheduled
  /\ \A c \in Callers : call[c] = "none"
  /\ \A t \in Tasks : task[t].pc = "idle"
  /\ observed = store.generation

(* No wakeup is lost: when the collector comes to rest with a pending      *)
(* report, an attempt began after the last commit, it failed for good, and *)
(* health says so.                                                         *)
NoLostWakeup == Quiescent /\ Pending => tried /\ degraded

(* Two renderers acknowledge, each for what it wrote itself. The current   *)
(* generation is never called current unless the catalog shows it or the   *)
(* HTML report does: neither a render that was overtaken by a commit, nor  *)
(* one that is repeated, nor a maintenance pass that empties both leaves   *)
(* an acknowledgement without what it stands for.                          *)
AcknowledgedIsRendered ==
  ~Pending /\ store.generation > 0 => store.generation \in {view, files.html}

(* Bytes of an unfinished build are always covered by the reservation that *)
(* admission counts, also after a crash, until recovery removed them.      *)
StagingAccounted == files.staging => files.reservation # "none"

(* A task gives up when every one of its attempts failed.                  *)
NobodyGivesUp == [](\A t \in Tasks : ~At(t, "cleanup"))

(* As long as no task fails all of its attempts, every pending generation  *)
(* is published once input becomes quiet, across faults, crashes and       *)
(* hand-overs.                                                             *)
ConvergesWhenQuiet == NobodyGivesUp => (Pending ~> ~Pending)

(* So is the promise of an interrupted build reclaimed.                    *)
StaleReservationReclaimed ==
  NobodyGivesUp => (files.reservation = "stale" ~> files.reservation # "stale")

(* Refreshes end: retiring tasks do not keep each other alive by the       *)
(* requests they make for their successors.                                *)
RefreshesEnd == <>[]~scheduled

=============================================================================
