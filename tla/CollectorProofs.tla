--------------------------- MODULE CollectorProofs ---------------------------
(***************************************************************************)
(* Four results about the collector. First the refresh protocol, for any   *)
(* number of handlers, task slots, retries, faults and crashes, and for    *)
(* any timing. Ownership is inductive once it is known that a dead         *)
(* collector has no task and no call. That no wake-up is lost needs the    *)
(* reason for which somebody will still act to be made explicit: Wakes     *)
(* lists those reasons, and WakeInv says that a pending generation the     *)
(* watcher knows of always has one, or was tried in vain and is reported.  *)
(*                                                                         *)
(* Then the exclusive cut of StorageBarrier, for any number of writers:    *)
(* the property needs to be strengthened by who holds which lock at which  *)
(* step and by what a scope without the accounting lock knows: nobody      *)
(* creates the lock while it holds the mutation lock.                      *)
(*                                                                         *)
(* Then the promise of PrivateTurns, for any number of turns: a detail and *)
(* its status stay together because each is pruned by numbers at least as  *)
(* new as the promise, a pass removes one only for newer ones of other     *)
(* turns, and a capture writes a detail only where there is none.          *)
(*                                                                         *)
(* Last the pairing of RequestCorrelation, for any exports, capacity and   *)
(* lifetime. The invariant speaks of three states of the correlation - in  *)
(* memory, in the store and the copy an export is worked on with - each    *)
(* together with the requests and responses it follows from: the committed *)
(* ones, and for the copy those of the export too.                         *)
(***************************************************************************)
EXTENDS ReportRefresh, StorageBarrier, PrivateTurns, RequestCorrelation,
        FiniteSetTheorems, FunctionTheorems, SequenceTheorems, WellFoundedInduction, TLAPS

----------------------------------------------------------------------------
(* The refreshes of the report                                             *)


\* A dead collector runs nothing.
DeadIsIdle ==
  ~alive => /\ ~scheduled
            /\ \A c \in Callers : call[c] = "none"
            /\ \A t \in Tasks : task[t].pc = "idle"

\* A task makes its own call only when it has returned.
OneCallPerTask == \A t \in Tasks : task[t].pc # "idle" => call[t] = "none"

\* A pass of the lifecycle runs on an invalidated report and beside no build.
PassInvalidates == Maintaining => Pending /\ ~Building

\* The report command renders what is not acknowledged yet, and beside no build.
RendersPending == Rendering => Pending /\ ~Building

\* Nobody knows of a generation or a request that is still to come.
NothingAhead ==
  /\ store.acknowledged <= store.generation /\ observed <= store.generation
  /\ \A t \in Tasks : task[t].pc # "idle" => task[t].epoch <= requested

\* The safety of ownership and of publication, as one inductive invariant.
RefreshInv ==
  /\ TypeOK /\ DeadIsIdle /\ OneRefreshOwner /\ OneCallPerTask
  /\ PassInvalidates /\ RendersPending /\ NothingAhead /\ StagingAccounted
  /\ AcknowledgedIsRendered

\* Who will ask for a refresh, or begin another attempt.
Asks == \/ \E c \in Callers : call[c] \in {"inc", "maintain"}
        \/ \E c \in Callers : call[c] = "cas" /\ ~scheduled
Attempts(t) == task[t].pc \in {"debounce", "retry", "attempt", "cleared", "recheck"}
Renews(t) ==
  \/ /\ task[t].pc \in {"build", "settle", "cleanup", "closing", "closed"}
     /\ requested # task[t].epoch
  \/ task[t].pc = "unmark" /\ task[t].outcome = "again"
Wakes == Asks \/ \E t \in Tasks : Attempts(t) \/ Renews(t)

\* Who decides whether to go on.
Decides == \E t \in Tasks : task[t].pc \in {"build", "settle"}

\* Somebody will act on what the watcher knows of, or it is reported.
WakeInv ==
  alive /\ Pending /\ observed = store.generation =>
    /\ ~tried => Wakes
    /\ ~degraded => Wakes \/ Decides

\* The types, part by part.
StoreTyped ==
  /\ store \in [generation : 0..MaxGeneration, acknowledged : 0..MaxGeneration]
  /\ view \in NoView..MaxGeneration
  /\ rendering \in NoView..MaxGeneration
FilesTyped ==
  files \in [reservation : {"none", "active", "stale"}, staging : BOOLEAN, marker : BOOLEAN,
             html : NoView..MaxGeneration]
FlagsTyped ==
  alive \in BOOLEAN /\ scheduled \in BOOLEAN /\ degraded \in BOOLEAN /\ tried \in BOOLEAN
CountersTyped ==
  /\ requested \in Nat /\ observed \in Nat
  /\ faults \in 0..MaxFaults /\ crashes \in 0..MaxCrashes
CallTyped == call \in [Callers -> {"none", "inc", "cas", "maintain"}]
TaskType ==
  [pc : {"idle", "debounce", "retry", "attempt", "build", "settle",
         "cleared", "recheck", "unmark", "cleanup", "closing", "closed"},
   seen : Nat, epoch : Nat, attempts : 0..(RetryLimit - 1), generation : Nat,
   outcome : {"none", "published", "changed", "failed", "again"}]
TaskTyped == task \in [Tasks -> TaskType]

\* TypeOK is its parts.
LEMMA TypeParts ==
  TypeOK <=> StoreTyped /\ FilesTyped /\ FlagsTyped /\ CountersTyped /\ CallTyped /\ TaskTyped
BY DEF TypeOK, StoreTyped, FilesTyped, FlagsTyped, CountersTyped, CallTyped, TaskTyped,
   TaskType

\* A slot takes another record of a task.
LEMMA SlotTyped ==
  ASSUME TaskTyped, NEW t \in Tasks, NEW r \in TaskType, task' = [task EXCEPT ![t] = r]
  PROVE  TaskTyped'
BY DEF TaskTyped

\* A fresh count of failures is in range.
LEMMA RetryRange == RetryLimit \in Nat /\ 0 \in 0..(RetryLimit - 1)
BY RefreshAssumption

\* The records that a new task and its next steps write.
LEMMA FreshTask ==
  ASSUME NEW n \in Nat
  PROVE  [IdleTask EXCEPT !.pc = "debounce", !.seen = n] \in TaskType
BY RetryRange DEF IdleTask, TaskType

\* The records of an attempt that goes on.
LEMMA UpdatedTask ==
  ASSUME NEW r \in TaskType, NEW n \in Nat
  PROVE  /\ [r EXCEPT !.pc = "attempt", !.epoch = n, !.seen = 0] \in TaskType
         /\ [r EXCEPT !.seen = n] \in TaskType
         /\ [r EXCEPT !.pc = "build", !.generation = n] \in TaskType
         /\ [r EXCEPT !.pc = "cleanup", !.attempts = 0, !.outcome = "none"] \in TaskType
BY RetryRange DEF TaskType

\* A failure that may still be retried.
LEMMA FailedTask ==
  ASSUME NEW r \in TaskType, r.attempts + 1 # RetryLimit
  PROVE  [r EXCEPT !.pc = "retry", !.attempts = r.attempts + 1, !.outcome = "none"] \in TaskType
<1>1. r.attempts + 1 \in 0..(RetryLimit - 1)
  BY RetryRange DEF TaskType
<1> QED BY <1>1 DEF TaskType

\* Every step keeps the types, and no task counts RetryLimit failures.
LEMMA TypeKept == TypeOK /\ [Next]_vars => TypeOK'
<1> SUFFICES ASSUME StoreTyped, FilesTyped, FlagsTyped, CountersTyped, CallTyped, TaskTyped,
                    [Next]_vars
             PROVE  /\ (StoreTyped /\ FilesTyped /\ FlagsTyped)'
                    /\ (CountersTyped /\ CallTyped /\ TaskTyped)'
  <2>1. TypeOK' <=> (StoreTyped /\ FilesTyped /\ FlagsTyped /\ CountersTyped /\ CallTyped
                    /\ TaskTyped)'
    BY DEF TypeOK, StoreTyped, FilesTyped, FlagsTyped, CountersTyped, CallTyped,
       TaskTyped, TaskType
  <2> QED BY <2>1, TypeParts
<1> USE RefreshAssumption DEF Callers
<1>1. CASE Serve
  <2>1. TaskTyped'
    <3>1. [IdleTask EXCEPT !.pc = "debounce", !.seen = 1] \in TaskType
      BY FreshTask
    <3> QED BY <1>1, <3>1, SlotTyped DEF Serve, TaskTyped
  <2>2. FilesTyped'
    BY <1>1 DEF Serve, Recovered, PendingOrMissing, Pending, IdleTask, FilesTyped
  <2> QED BY <1>1, <2>1, <2>2 DEF Serve, PendingOrMissing, StoreTyped, FlagsTyped,
     CountersTyped, CallTyped
<1>2. CASE Crash
  <2>1. TaskTyped'
    BY <1>2 DEF Crash, Lost, StaleFiles, IdleTask, TaskTyped, TaskType
  <2>2. CallTyped'
    BY <1>2 DEF Crash, Lost, StaleFiles, IdleTask, CallTyped
  <2>3. FilesTyped'
    BY <1>2 DEF Crash, Lost, StaleFiles, IdleTask, FilesTyped
  <2>4. CountersTyped'
    BY <1>2 DEF Crash, Lost, StaleFiles, IdleTask, CountersTyped
  <2> QED BY <1>2, <2>1, <2>2, <2>3, <2>4 DEF Crash, Lost, StoreTyped, FlagsTyped
<1>3. CASE IngestInterrupted
  <2>1. TaskTyped'
    BY <1>3 DEF IngestInterrupted, Lost, IdleTask, TaskTyped, TaskType
  <2>2. CallTyped'
    BY <1>3 DEF IngestInterrupted, Lost, StaleFiles, Commit, IdleTask, CallTyped
  <2>3. FilesTyped'
    BY <1>3 DEF IngestInterrupted, Lost, StaleFiles, Commit, IdleTask, FilesTyped
  <2>4. StoreTyped'
    BY <1>3 DEF IngestInterrupted, Lost, StaleFiles, Commit, IdleTask, StoreTyped
  <2>5. CountersTyped'
    BY <1>3 DEF IngestInterrupted, Lost, StaleFiles, Commit, IdleTask, CountersTyped
  <2> QED BY <1>3, <2>1, <2>2, <2>3, <2>4, <2>5 DEF IngestInterrupted, Lost, Commit,
     FlagsTyped
<1>4. ASSUME NEW c \in Callers, Request(c)
      PROVE  /\ (StoreTyped /\ FilesTyped /\ FlagsTyped)'
             /\ (CountersTyped /\ CallTyped /\ TaskTyped)'
  <2>1. CallTyped'
    BY <1>4 DEF Request, CallTyped
  <2>2. CountersTyped'
    BY <1>4 DEF Request, CountersTyped
  <2> QED BY <1>4, <2>1, <2>2 DEF Request, StoreTyped, FilesTyped, FlagsTyped, TaskTyped
<1>5. ASSUME NEW c \in Callers, Spawn(c)
      PROVE  /\ (StoreTyped /\ FilesTyped /\ FlagsTyped)'
             /\ (CountersTyped /\ CallTyped /\ TaskTyped)'
  <2>1. TaskTyped'
    <3>1. StartTask \in TaskType
      BY FreshTask DEF StartTask, CountersTyped
    <3> QED BY <1>5, <3>1, SlotTyped DEF Spawn, TaskTyped
  <2>2. CallTyped'
    BY <1>5 DEF Spawn, StartTask, IdleTask, CallTyped
  <2> QED BY <1>5, <2>1, <2>2 DEF Spawn, StoreTyped, FilesTyped, FlagsTyped,
     CountersTyped
<1>6. ASSUME NEW h \in Handlers, Ingest(h)
      PROVE  /\ (StoreTyped /\ FilesTyped /\ FlagsTyped)'
             /\ (CountersTyped /\ CallTyped /\ TaskTyped)'
  <2>1. CallTyped'
    BY <1>6 DEF Ingest, Commit, Fault, NoFault, CallTyped
  <2>2. FilesTyped'
    BY <1>6 DEF Ingest, Commit, Fault, NoFault, FilesTyped
  <2>3. StoreTyped'
    BY <1>6 DEF Ingest, Commit, Fault, NoFault, StoreTyped
  <2>4. CountersTyped'
    BY <1>6 DEF Ingest, Commit, Fault, NoFault, CountersTyped
  <2> QED BY <1>6, <2>1, <2>2, <2>3, <2>4 DEF Ingest, Commit, FlagsTyped, TaskTyped
<1>7. ASSUME NEW h \in Handlers, IngestUnchanged(h)
      PROVE  /\ (StoreTyped /\ FilesTyped /\ FlagsTyped)'
             /\ (CountersTyped /\ CallTyped /\ TaskTyped)'
  <2>1. CallTyped'
    BY <1>7 DEF IngestUnchanged, Fault, NoFault, Pending, CallTyped
  <2>2. FilesTyped'
    BY <1>7 DEF IngestUnchanged, Fault, NoFault, Pending, FilesTyped
  <2>3. CountersTyped'
    BY <1>7 DEF IngestUnchanged, Fault, NoFault, Pending, CountersTyped
  <2> QED BY <1>7, <2>1, <2>2, <2>3 DEF IngestUnchanged, StoreTyped, FlagsTyped,
     TaskTyped
<1>8. CASE LifecycleInvalidate
  <2>1. CallTyped'
    BY <1>8 DEF LifecycleInvalidate, Commit, CallTyped
  <2>2. StoreTyped'
    BY <1>8 DEF LifecycleInvalidate, Commit, StoreTyped
  <2> QED BY <1>8, <2>1, <2>2 DEF LifecycleInvalidate, Commit, FilesTyped, FlagsTyped,
     CountersTyped, TaskTyped
<1>9. CASE LifecyclePass
  <2>1. CallTyped'
    BY <1>9 DEF LifecyclePass, Placeheld, Commit, Fault, NoFault, NoView, CallTyped
  <2>2. FilesTyped'
    <3>1. Placeheld \in [reservation : {"none", "active", "stale"}, staging : BOOLEAN,
                         marker : BOOLEAN, html : NoView..MaxGeneration]
      BY RefreshAssumption DEF Placeheld, NoView, FilesTyped
    <3>2. files' \in {files, Placeheld, [Placeheld EXCEPT !.marker = TRUE]}
      BY <1>9 DEF LifecyclePass
    <3> QED BY <3>1, <3>2 DEF FilesTyped
  <2>3. StoreTyped'
    BY <1>9 DEF LifecyclePass, Placeheld, Commit, Fault, NoFault, NoView, StoreTyped
  <2>4. CountersTyped'
    BY <1>9 DEF LifecyclePass, Placeheld, Commit, Fault, NoFault, NoView, CountersTyped
  <2> QED BY <1>9, <2>1, <2>2, <2>3, <2>4 DEF LifecyclePass, Commit, FlagsTyped,
     TaskTyped
<1>10. CASE ForeignCommit
  <2>1. StoreTyped'
    BY <1>10 DEF ForeignCommit, Placeheld, Commit, NoView, StoreTyped
  <2>2. FilesTyped'
    BY <1>10 DEF ForeignCommit, Placeheld, NoView, FilesTyped
  <2> QED BY <1>10, <2>1, <2>2 DEF ForeignCommit, Commit, FlagsTyped,
     CountersTyped, CallTyped, TaskTyped
<1>11. CASE ForeignRefresh
  <2>1. StoreTyped'
    BY <1>11 DEF ForeignRefresh, StoreTyped, NoView
  <2>2. FilesTyped'
    BY <1>11 DEF ForeignRefresh, Recovered, FilesTyped
  <2> QED BY <1>11, <2>1, <2>2 DEF ForeignRefresh, FlagsTyped, CountersTyped, CallTyped,
     TaskTyped
<1>11a. CASE RenderReport
  <2>1. StoreTyped'
    BY <1>11a DEF RenderReport, StoreTyped, NoView
  <2>2. CountersTyped'
    BY <1>11a DEF RenderReport, Fault, CountersTyped
  <2> QED BY <1>11a, <2>1, <2>2 DEF RenderReport, FilesTyped, FlagsTyped, CallTyped, TaskTyped
<1>11b. CASE WriteReport
  <2>1. StoreTyped'
    BY <1>11b DEF WriteReport, StoreTyped, NoView
  <2>2. FilesTyped'
    BY <1>11b DEF WriteReport, Rendered, FilesTyped, StoreTyped
  <2> QED BY <1>11b, <2>1, <2>2 DEF WriteReport, FlagsTyped, CountersTyped, CallTyped,
     TaskTyped
<1>11c. CASE ReportFails
  <2>1. StoreTyped'
    BY <1>11c DEF ReportFails, StoreTyped, NoView
  <2>2. FilesTyped'
    BY <1>11c DEF ReportFails, Rendered, FilesTyped, StoreTyped
  <2> QED BY <1>11c, <2>1, <2>2 DEF ReportFails, FlagsTyped, CountersTyped, CallTyped,
     TaskTyped
<1>12. CASE Poll
  <2>1. CallTyped'
    BY <1>12 DEF Poll, StillDegraded, WakesOnChange, Pending, CallTyped
  <2>2. FilesTyped'
    BY <1>12 DEF Poll, StillDegraded, WakesOnChange, Pending, FilesTyped
  <2> QED BY <1>12, <2>1, <2>2 DEF Poll, StillDegraded, StoreTyped, FlagsTyped,
     CountersTyped, TaskTyped
<1>13. CASE PollFails
  <2>1. CountersTyped'
    BY <1>13 DEF PollFails, Fault, CountersTyped
  <2> QED BY <1>13, <2>1 DEF PollFails, StoreTyped, FilesTyped, FlagsTyped, CallTyped,
     TaskTyped
<1>14. ASSUME NEW t \in Tasks, Debounce(t)
      PROVE  /\ (StoreTyped /\ FilesTyped /\ FlagsTyped)'
             /\ (CountersTyped /\ CallTyped /\ TaskTyped)'
  <2>1. TaskTyped'
    <3>1. CASE task[t].seen = requested
      <4>1. [task[t] EXCEPT !.pc = "attempt", !.epoch = requested, !.seen = 0] \in TaskType
        <5>1. task[t] \in TaskType /\ requested \in Nat
          BY DEF TaskTyped, CountersTyped
        <5> QED BY <5>1, UpdatedTask, Zenon
      <4>2. task' = [task EXCEPT ![t] =
                    [task[t] EXCEPT !.pc = "attempt", !.epoch = requested, !.seen = 0]]
        BY <1>14, <3>1 DEF Debounce
      <4> QED BY <4>1, <4>2, SlotTyped
    <3>2. CASE task[t].seen # requested
      <4>1. [task[t] EXCEPT !.seen = requested] \in TaskType
        BY DEF TaskTyped, TaskType, CountersTyped
      <4> QED BY <1>14, <3>2, <4>1, SlotTyped DEF Debounce
    <3> QED BY <3>1, <3>2
  <2> QED BY <1>14, <2>1 DEF Debounce, StoreTyped, FilesTyped, FlagsTyped, CountersTyped,
     CallTyped
<1>15. ASSUME NEW t \in Tasks, Retry(t)
      PROVE  /\ (StoreTyped /\ FilesTyped /\ FlagsTyped)'
             /\ (CountersTyped /\ CallTyped /\ TaskTyped)'
  <2>1. TaskTyped'
    <3>1. [task[t] EXCEPT !.pc = "attempt", !.epoch = requested] \in TaskType
      BY DEF TaskTyped, TaskType, CountersTyped
    <3>2. task' = [task EXCEPT ![t] = [task[t] EXCEPT !.pc = "attempt", !.epoch = requested]]
      BY <1>15 DEF Retry
    <3> QED BY <3>1, <3>2, SlotTyped
  <2> QED BY <1>15, <2>1 DEF Retry, StoreTyped, FilesTyped, FlagsTyped, CountersTyped,
     CallTyped
<1>16. ASSUME NEW t \in Tasks, Build(t)
      PROVE  /\ (StoreTyped /\ FilesTyped /\ FlagsTyped)'
             /\ (CountersTyped /\ CallTyped /\ TaskTyped)'
  <2>1. TaskTyped'
    <3>1. [task[t] EXCEPT !.pc = "build", !.generation = store.generation] \in TaskType
      <4>1. task[t] \in TaskType /\ store.generation \in Nat
        BY DEF TaskTyped, StoreTyped
      <4> QED BY <4>1, UpdatedTask, Zenon
    <3>2. task' = [task EXCEPT ![t] =
                  [task[t] EXCEPT !.pc = "build", !.generation = store.generation]]
      BY <1>16 DEF Build
    <3> QED BY <3>1, <3>2, SlotTyped
  <2>2. FilesTyped'
    BY <1>16 DEF Build, FilesTyped
  <2> QED BY <1>16, <2>1, <2>2 DEF Build, StoreTyped, FlagsTyped, CountersTyped,
     CallTyped
<1>17. ASSUME NEW t \in Tasks, Refused(t)
      PROVE  /\ (StoreTyped /\ FilesTyped /\ FlagsTyped)'
             /\ (CountersTyped /\ CallTyped /\ TaskTyped)'
  <2>1. TaskTyped'
    <3>1. [task[t] EXCEPT !.pc = "settle", !.generation = 0, !.outcome = "failed"] \in TaskType
      BY DEF TaskTyped, TaskType, CountersTyped
    <3>2. task' = [task EXCEPT ![t] =
                  [task[t] EXCEPT !.pc = "settle", !.generation = 0, !.outcome = "failed"]]
      BY <1>17 DEF Refused, Returns
    <3> QED BY <3>1, <3>2, SlotTyped
  <2>2. FilesTyped'
    BY <1>17 DEF Refused, Fault, NoFault, Recovered, Promised, Returns, FilesTyped
  <2>3. CountersTyped'
    BY <1>17 DEF Refused, Fault, NoFault, Recovered, Promised, Returns, CountersTyped
  <2> QED BY <1>17, <2>1, <2>2, <2>3 DEF Refused, StoreTyped, FlagsTyped, CallTyped
<1>18. ASSUME NEW t \in Tasks, Publish(t)
      PROVE  /\ (StoreTyped /\ FilesTyped /\ FlagsTyped)'
             /\ (CountersTyped /\ CallTyped /\ TaskTyped)'
  <2>1. TaskTyped'
    <3>1. \A o \in {"published", "changed"} :
            [task[t] EXCEPT !.pc = "settle", !.generation = 0, !.outcome = o] \in TaskType
      BY DEF TaskTyped, TaskType
    <3>2. \E o \in {"published", "changed"} :
            task' = [task EXCEPT ![t] =
                    [task[t] EXCEPT !.pc = "settle", !.generation = 0, !.outcome = o]]
      BY <1>18 DEF Publish, Returns
    <3> QED BY <3>1, <3>2, SlotTyped
  <2>2. FilesTyped'
    BY <1>18 DEF Publish, SnapshotCurrent, Recovered, Abandoned, Returns, FilesTyped
  <2>3. StoreTyped'
    <3>1. task[t].generation \in Nat
      BY DEF TaskTyped, TaskType
    <3>2. CASE SnapshotCurrent(t)
      BY <1>18, <3>2 DEF Publish, SnapshotCurrent, StoreTyped, NoView
    <3>3. CASE ~SnapshotCurrent(t)
      BY <1>18, <3>3 DEF Publish, StoreTyped
    <3> QED BY <3>2, <3>3
  <2> QED BY <1>18, <2>1, <2>2, <2>3 DEF Publish, FlagsTyped, CountersTyped, CallTyped
<1>19. ASSUME NEW t \in Tasks, BuildFails(t)
      PROVE  /\ (StoreTyped /\ FilesTyped /\ FlagsTyped)'
             /\ (CountersTyped /\ CallTyped /\ TaskTyped)'
  <2>1. TaskTyped'
    <3>1. [task[t] EXCEPT !.pc = "settle", !.generation = 0, !.outcome = "failed"] \in TaskType
      BY DEF TaskTyped, TaskType, CountersTyped
    <3>2. task' = [task EXCEPT ![t] =
                  [task[t] EXCEPT !.pc = "settle", !.generation = 0, !.outcome = "failed"]]
      BY <1>19 DEF BuildFails, Returns
    <3> QED BY <3>1, <3>2, SlotTyped
  <2>2. FilesTyped'
    BY <1>19 DEF BuildFails, SnapshotCurrent, Abandoned, Returns, Fault, FilesTyped
  <2>3. StoreTyped'
    <3>0. rendering' = rendering
      BY <1>19 DEF BuildFails
    <3>1. CASE UNCHANGED <<store, view>>
      BY <3>0, <3>1 DEF StoreTyped
    <3>2. CASE /\ SnapshotCurrent(t) /\ view' = task[t].generation
               /\ store' \in {store, [store EXCEPT !.acknowledged = task[t].generation]}
      BY <3>0, <3>2 DEF SnapshotCurrent, StoreTyped, NoView
    <3> QED BY <1>19, <3>1, <3>2 DEF BuildFails
  <2>4. CountersTyped'
    BY <1>19 DEF BuildFails, SnapshotCurrent, Abandoned, Returns, Fault, CountersTyped
  <2> QED BY <1>19, <2>1, <2>2, <2>3, <2>4 DEF BuildFails, FlagsTyped, CallTyped
<1>20. ASSUME NEW t \in Tasks, Settle(t)
      PROVE  /\ (StoreTyped /\ FilesTyped /\ FlagsTyped)'
             /\ (CountersTyped /\ CallTyped /\ TaskTyped)'
  <2>1. TaskTyped'
    <3>1. StartTask \in TaskType
      BY FreshTask DEF StartTask, CountersTyped
    <3>2. [task[t] EXCEPT !.pc = "cleared"] \in TaskType
      BY DEF TaskTyped, TaskType
    <3>3. [task[t] EXCEPT !.pc = "cleanup", !.attempts = 0, !.outcome = "none"] \in TaskType
      BY UpdatedTask DEF TaskTyped
    <3>4. ASSUME task[t].attempts + 1 # RetryLimit
          PROVE  [task[t] EXCEPT !.pc = "retry", !.attempts = task[t].attempts + 1, !.outcome = "none"]
                   \in TaskType
      BY <3>4, FailedTask DEF TaskTyped
    <3>5. \/ task' = [task EXCEPT ![t] = [task[t] EXCEPT !.pc = "cleared"]]
          \/ task' = [task EXCEPT ![t] = StartTask]
          \/ task' = [task EXCEPT ![t] =
                     [task[t] EXCEPT !.pc = "cleanup", !.attempts = 0, !.outcome = "none"]]
          \/ /\ task[t].attempts + 1 # RetryLimit
             /\ task' = [task EXCEPT ![t] =
                        [task[t] EXCEPT !.pc = "retry", !.attempts = task[t].attempts + 1,
                                                          !.outcome = "none"]]
      BY <1>20 DEF Settle, Goes, LastAttempt
    <3> QED BY <3>1, <3>2, <3>3, <3>4, <3>5, SlotTyped
  <2>2. FlagsTyped'
    BY <1>20 DEF Settle, FlagsTyped
  <2>3. CountersTyped'
    BY <1>20 DEF Settle, Fault, NoFault, CountersTyped
  <2> QED BY <1>20, <2>1, <2>2, <2>3 DEF Settle, StoreTyped, FilesTyped, CallTyped
<1>21. ASSUME NEW t \in Tasks, RereadRequests(t)
      PROVE  /\ (StoreTyped /\ FilesTyped /\ FlagsTyped)'
             /\ (CountersTyped /\ CallTyped /\ TaskTyped)'
  <2>1. TaskTyped'
    <3>1. \A o \in {"again", "none"} : [task[t] EXCEPT !.pc = "recheck", !.outcome = o] \in TaskType
      BY DEF TaskTyped, TaskType
    <3>2. \E o \in {"again", "none"} :
            task' = [task EXCEPT ![t] = [task[t] EXCEPT !.pc = "recheck", !.outcome = o]]
      BY <1>21 DEF RereadRequests
    <3> QED BY <3>1, <3>2, SlotTyped
  <2> QED BY <1>21, <2>1 DEF RereadRequests, StoreTyped, FilesTyped, FlagsTyped,
     CountersTyped, CallTyped
<1>22. ASSUME NEW t \in Tasks, RereadStatus(t)
      PROVE  /\ (StoreTyped /\ FilesTyped /\ FlagsTyped)'
             /\ (CountersTyped /\ CallTyped /\ TaskTyped)'
  <2>1. TaskTyped'
    BY <1>22 DEF RereadStatus, Leaves, Goes, IdleTask, TaskTyped, TaskType
  <2>2. CallTyped'
    BY <1>22 DEF RereadStatus, Leaves, CallTyped
  <2>3. CountersTyped'
    BY <1>22 DEF RereadStatus, Fault, NoFault, CountersTyped
  <2> QED BY <1>22, <2>1, <2>2, <2>3 DEF RereadStatus, StoreTyped, FilesTyped, FlagsTyped
<1>23. ASSUME NEW t \in Tasks, Unmark(t)
      PROVE  /\ (StoreTyped /\ FilesTyped /\ FlagsTyped)'
             /\ (CountersTyped /\ CallTyped /\ TaskTyped)'
  <2>1. TaskTyped'
    BY <1>23 DEF Unmark, Leaves, IdleTask, TaskTyped, TaskType
  <2>2. CallTyped'
    BY <1>23 DEF Unmark, Leaves, IdleTask, CallTyped
  <2>3. FilesTyped'
    BY <1>23 DEF Unmark, Leaves, IdleTask, FilesTyped
  <2> QED BY <1>23, <2>1, <2>2, <2>3 DEF Unmark, StoreTyped, FlagsTyped, CountersTyped
<1>24. ASSUME NEW t \in Tasks, Cleanup(t)
      PROVE  /\ (StoreTyped /\ FilesTyped /\ FlagsTyped)'
             /\ (CountersTyped /\ CallTyped /\ TaskTyped)'
  <2>1. TaskTyped'
    BY <1>24 DEF Cleanup, Recovered, Goes, TaskTyped, TaskType
  <2>2. FilesTyped'
    BY <1>24 DEF Cleanup, Recovered, Goes, FilesTyped
  <2> QED BY <1>24, <2>1, <2>2 DEF Cleanup, StoreTyped, FlagsTyped, CountersTyped,
     CallTyped
<1>25. ASSUME NEW t \in Tasks, CleanupFails(t)
      PROVE  /\ (StoreTyped /\ FilesTyped /\ FlagsTyped)'
             /\ (CountersTyped /\ CallTyped /\ TaskTyped)'
  <2>1. TaskTyped'
    BY <1>25 DEF CleanupFails, Fault, NoFault, Goes, TaskTyped, TaskType
  <2>2. CountersTyped'
    BY <1>25 DEF CleanupFails, Fault, NoFault, Goes, CountersTyped
  <2> QED BY <1>25, <2>1, <2>2 DEF CleanupFails, StoreTyped, FilesTyped, FlagsTyped,
     CallTyped
<1>26. ASSUME NEW t \in Tasks, GiveUp(t)
      PROVE  /\ (StoreTyped /\ FilesTyped /\ FlagsTyped)'
             /\ (CountersTyped /\ CallTyped /\ TaskTyped)'
  <2>1. TaskTyped'
    BY <1>26 DEF GiveUp, Goes, TaskTyped, TaskType
  <2> QED BY <1>26, <2>1 DEF GiveUp, StoreTyped, FilesTyped, FlagsTyped, CountersTyped,
     CallTyped
<1>27. ASSUME NEW t \in Tasks, Reconsider(t)
      PROVE  /\ (StoreTyped /\ FilesTyped /\ FlagsTyped)'
             /\ (CountersTyped /\ CallTyped /\ TaskTyped)'
  <2>1. TaskTyped'
    BY <1>27 DEF Reconsider, Leaves, IdleTask, TaskTyped, TaskType
  <2>2. CallTyped'
    BY <1>27 DEF Reconsider, Leaves, IdleTask, CallTyped
  <2> QED BY <1>27, <2>1, <2>2 DEF Reconsider, StoreTyped, FilesTyped, FlagsTyped,
     CountersTyped
<1>28. CASE UNCHANGED vars
  BY <1>28 DEF vars, StoreTyped, FilesTyped, FlagsTyped, CountersTyped, CallTyped,
     TaskTyped
<1> QED BY <1>1, <1>2, <1>3, <1>4, <1>5, <1>6, <1>7, <1>8, <1>9, <1>10, <1>11, <1>11a,
   <1>11b, <1>11c, <1>12, <1>13, <1>14, <1>15, <1>16, <1>17, <1>18, <1>19, <1>20, <1>21, <1>22, <1>23, <1>24,
   <1>25, <1>26, <1>27, <1>28 DEF Next, CallStep, TaskStep

\* What becomes of an attempt.
LEMMA SettleCases ==
  ASSUME FlagsTyped, NEW t \in Tasks, Settle(t)
  PROVE  \/ /\ ~Pending /\ ~scheduled'
            /\ task' = [task EXCEPT ![t].pc = "cleared"]
         \/ /\ degraded' /\ scheduled' = scheduled
            /\ task' = [task EXCEPT ![t] = StartTask]
         \/ /\ degraded' /\ scheduled' = scheduled
            /\ task' = [task EXCEPT ![t].pc = "cleanup", ![t].attempts = 0, ![t].outcome = "none"]
         \/ /\ (degraded => degraded') /\ scheduled' = scheduled
            /\ task' = [task EXCEPT ![t].pc = "retry", ![t].attempts = task[t].attempts + 1,
                                    ![t].outcome = "none"]
<1>1. PICK readable \in BOOLEAN :
        \/ /\ Completed(t, ~readable \/ Pending)
           /\ scheduled' = FALSE
           /\ Goes(t, "cleared")
        \/ /\ degraded' = TRUE
           /\ task' = [task EXCEPT ![t] = StartTask]
           /\ UNCHANGED scheduled
        \/ /\ degraded' = (degraded \/ LastAttempt(task[t].attempts + 1))
           /\ task' = IF LastAttempt(task[t].attempts + 1)
                      THEN [task EXCEPT ![t].pc = "cleanup", ![t].attempts = 0,
                                        ![t].outcome = "none"]
                      ELSE [task EXCEPT ![t].pc = "retry", ![t].attempts = task[t].attempts + 1,
                                        ![t].outcome = "none"]
           /\ UNCHANGED scheduled
  BY DEF Settle
<1>2. CASE Completed(t, ~readable \/ Pending) /\ scheduled' = FALSE /\ Goes(t, "cleared")
  BY <1>2 DEF Completed, Goes
<1>3. CASE degraded' = TRUE /\ task' = [task EXCEPT ![t] = StartTask] /\ UNCHANGED scheduled
  BY <1>3
<1>4. CASE /\ degraded' = (degraded \/ LastAttempt(task[t].attempts + 1))
           /\ task' = IF LastAttempt(task[t].attempts + 1)
                      THEN [task EXCEPT ![t].pc = "cleanup", ![t].attempts = 0,
                                        ![t].outcome = "none"]
                      ELSE [task EXCEPT ![t].pc = "retry", ![t].attempts = task[t].attempts + 1,
                                        ![t].outcome = "none"]
           /\ UNCHANGED scheduled
  <2>1. CASE LastAttempt(task[t].attempts + 1)
    BY <1>4, <2>1, Zenon
  <2>2. CASE ~LastAttempt(task[t].attempts + 1)
    BY <1>4, <2>2, Zenon
  <2> QED BY <2>1, <2>2
<1> QED BY <1>1, <1>2, <1>3, <1>4

\* Settling an attempt moves its own task only, towards an end or a retry.
LEMMA SettleMoves ==
  ASSUME FlagsTyped, TaskTyped, NEW t \in Tasks, Settle(t)
  PROVE  /\ task[t].pc = "settle" /\ \A s \in Tasks : s # t => task'[s] = task[s]
         /\ task'[t].epoch \in {0, task[t].epoch}
         /\ \/ task'[t].pc = "cleared" /\ ~Pending /\ ~scheduled'
            \/ /\ scheduled' = scheduled /\ (degraded => degraded')
               /\ \/ task'[t].pc = "debounce"
                  \/ task'[t].pc = "retry"
                  \/ task'[t].pc = "cleanup" /\ degraded' /\ task'[t].epoch = task[t].epoch
<1> USE DEF TaskTyped, TaskType
<1>1. ASSUME task' = [task EXCEPT ![t].pc = "cleared"]
      PROVE  task'[t].pc = "cleared" /\ task'[t].epoch = task[t].epoch
  BY <1>1
<1>2. ASSUME task' = [task EXCEPT ![t] = StartTask]
      PROVE  task'[t].pc = "debounce" /\ task'[t].epoch = 0
  BY <1>2 DEF StartTask, IdleTask
<1>3. ASSUME task' = [task EXCEPT ![t].pc = "cleanup", ![t].attempts = 0, ![t].outcome = "none"]
      PROVE  task'[t].pc = "cleanup" /\ task'[t].epoch = task[t].epoch
  BY <1>3
<1>4. ASSUME task' = [task EXCEPT ![t].pc = "retry", ![t].attempts = task[t].attempts + 1,
                                  ![t].outcome = "none"]
      PROVE  task'[t].pc = "retry" /\ task'[t].epoch = task[t].epoch
  BY <1>4
<1>5. task[t].pc = "settle" /\ \A s \in Tasks : s # t => task'[s] = task[s]
  BY SettleCases DEF Settle, At
<1> QED BY <1>1, <1>2, <1>3, <1>4, <1>5, SettleCases, Zenon

\* A task that was spawned by a request, or when the collector starts.
LEMMA SpawnMoves ==
  ASSUME TaskTyped, NEW c \in Callers, Spawn(c)
  PROVE  /\ \A s \in Tasks : \/ task'[s] = task[s]
                             \/ task[s].pc = "idle" /\ task'[s].pc = "debounce" /\ task'[s].epoch = 0
         /\ ~scheduled => \E s \in Tasks : task'[s].pc = "debounce"
<1>1. CASE scheduled
  BY <1>1 DEF Spawn
<1>2. CASE ~scheduled
  <2>1. PICK t \in Tasks : task[t].pc = "idle" /\ task' = [task EXCEPT ![t] = StartTask]
    BY <1>2 DEF Spawn, Free
  <2>2. task'[t] = StartTask /\ \A s \in Tasks : s # t => task'[s] = task[s]
    BY <2>1 DEF TaskTyped
  <2>3. StartTask.pc = "debounce" /\ StartTask.epoch = 0
    BY DEF StartTask, IdleTask
  <2> QED BY <2>1, <2>2, <2>3
<1> QED BY <1>1, <1>2

\* serve starts one task, and does so when the report is pending.
LEMMA ServeMoves ==
  ASSUME TaskTyped, Serve
  PROVE  /\ \A s \in Tasks : \/ task'[s] = task[s]
                             \/ task'[s].pc = "debounce" /\ task'[s].epoch = 0
         /\ Pending => \E s \in Tasks : task'[s].pc = "debounce"
<1>1. CASE task' = task /\ ~Pending
  BY <1>1
<1>2. CASE \E t \in Tasks : task' = [task EXCEPT ![t] =
                                    [IdleTask EXCEPT !.pc = "debounce", !.seen = 1]]
  <2>1. PICK t \in Tasks : task' = [task EXCEPT ![t] =
                                   [IdleTask EXCEPT !.pc = "debounce", !.seen = 1]]
    BY <1>2
  <2>2. /\ task'[t] = [IdleTask EXCEPT !.pc = "debounce", !.seen = 1]
        /\ \A s \in Tasks : s # t => task'[s] = task[s]
    BY <2>1 DEF TaskTyped
  <2>3. /\ [IdleTask EXCEPT !.pc = "debounce", !.seen = 1].pc = "debounce"
        /\ [IdleTask EXCEPT !.pc = "debounce", !.seen = 1].epoch = 0
    BY DEF IdleTask
  <2> QED BY <2>2, <2>3
<1> QED BY <1>1, <1>2 DEF Serve, PendingOrMissing

\* Ownership, and what a collector that does not run cannot have.
LEMMA OwnerKept ==
  ASSUME TypeOK, TypeOK', DeadIsIdle, OneRefreshOwner, OneCallPerTask, [Next]_vars
  PROVE  (DeadIsIdle /\ OneRefreshOwner /\ OneCallPerTask)'
<1>0. TaskTyped /\ TaskTyped' /\ CallTyped /\ CallTyped' /\ FlagsTyped /\ FlagsTyped'
  BY DEF TypeOK, TaskTyped, TaskType, CallTyped, FlagsTyped
<1> USE <1>0, RefreshAssumption DEF Callers, TaskTyped, TaskType, CallTyped, FlagsTyped
<1>1. CASE Serve
  <2>1. DeadIsIdle'
    BY <1>1 DEF Serve, Recovered, PendingOrMissing, Pending, IdleTask, DeadIsIdle
  <2>2. OneRefreshOwner'
    <3>1. \A s \in Tasks : task[s].pc = "idle"
      BY <1>1 DEF Serve, DeadIsIdle
    <3>2. CASE ~scheduled'
      <4>1. task' = task
        BY <1>1, <3>2 DEF Serve
      <4> QED BY <3>1, <3>2, <4>1 DEF OneRefreshOwner, Owners
    <3>3. CASE scheduled'
      <4>1. PICK t \in Tasks :
              task' = [task EXCEPT ![t] = [IdleTask EXCEPT !.pc = "debounce", !.seen = 1]]
        BY <1>1, <3>3 DEF Serve
      <4>2. task'[t].pc = "debounce" /\ \A s \in Tasks : s # t => task'[s] = task[s]
        BY <4>1 DEF IdleTask
      <4> QED BY <3>1, <3>3, <4>2 DEF OneRefreshOwner, Owners
    <3> QED BY <3>2, <3>3
  <2>3. OneCallPerTask'
    BY <1>1 DEF Serve, DeadIsIdle, OneCallPerTask
  <2> QED BY <2>1, <2>2, <2>3
<1>2. CASE Crash
  <2>1. DeadIsIdle'
    BY <1>2 DEF Crash, Lost, StaleFiles, IdleTask, DeadIsIdle
  <2>2. OneRefreshOwner'
    BY <1>2 DEF Crash, Lost, IdleTask, OneRefreshOwner, Owners
  <2>3. OneCallPerTask'
    BY <1>2 DEF Crash, Lost, StaleFiles, IdleTask, DeadIsIdle, OneCallPerTask
  <2> QED BY <2>1, <2>2, <2>3
<1>3. CASE IngestInterrupted
  <2>1. DeadIsIdle'
    BY <1>3 DEF IngestInterrupted, Lost, StaleFiles, Commit, IdleTask, DeadIsIdle
  <2>2. OneRefreshOwner'
    BY <1>3 DEF IngestInterrupted, Lost, IdleTask, OneRefreshOwner, Owners
  <2>3. OneCallPerTask'
    BY <1>3 DEF IngestInterrupted, Lost, OneCallPerTask
  <2> QED BY <2>1, <2>2, <2>3
<1>4. ASSUME NEW c \in Callers, Request(c)
      PROVE  (DeadIsIdle /\ OneRefreshOwner /\ OneCallPerTask)'
  <2>1. DeadIsIdle'
    BY <1>4 DEF Request, DeadIsIdle
  <2>2. OneRefreshOwner'
    BY <1>4 DEF Request, DeadIsIdle, OneRefreshOwner, Owners
  <2>3. OneCallPerTask'
    BY <1>4 DEF Request, DeadIsIdle, OneCallPerTask
  <2> QED BY <2>1, <2>2, <2>3
<1>5. ASSUME NEW c \in Callers, Spawn(c)
      PROVE  (DeadIsIdle /\ OneRefreshOwner /\ OneCallPerTask)'
  <2>1. DeadIsIdle'
    BY <1>5 DEF Spawn, StartTask, IdleTask, Free, DeadIsIdle
  <2>2. OneRefreshOwner'
    <3>1. CASE scheduled
      BY <1>5, <3>1 DEF Spawn, OneRefreshOwner, Owners
    <3>2. CASE ~scheduled
      <4>1. PICK t \in Tasks : task[t].pc = "idle" /\ task' = [task EXCEPT ![t] = StartTask]
        BY <1>5, <3>2 DEF Spawn, Free
      <4>2. task'[t].pc = "debounce" /\ \A s \in Tasks : s # t => task'[s] = task[s]
        BY <4>1 DEF StartTask, IdleTask
      <4>3. scheduled' = TRUE
        BY <1>5 DEF Spawn
      <4> QED BY <3>2, <4>2, <4>3 DEF OneRefreshOwner, Owners
    <3> QED BY <3>1, <3>2
  <2>3. OneCallPerTask'
    BY <1>5 DEF Spawn, StartTask, IdleTask, Free, DeadIsIdle, OneCallPerTask
  <2> QED BY <2>1, <2>2, <2>3
<1>6. ASSUME NEW h \in Handlers, Ingest(h)
      PROVE  (DeadIsIdle /\ OneRefreshOwner /\ OneCallPerTask)'
  <2>1. DeadIsIdle'
    BY <1>6 DEF Ingest, Commit, Fault, NoFault, DeadIsIdle
  <2>2. OneRefreshOwner'
    BY <1>6 DEF Ingest, OneRefreshOwner, Owners
  <2>3. OneCallPerTask'
    BY <1>6 DEF Ingest, Commit, Fault, NoFault, DeadIsIdle, OneCallPerTask
  <2> QED BY <2>1, <2>2, <2>3
<1>7. ASSUME NEW h \in Handlers, IngestUnchanged(h)
      PROVE  (DeadIsIdle /\ OneRefreshOwner /\ OneCallPerTask)'
  <2>1. DeadIsIdle'
    BY <1>7 DEF IngestUnchanged, Fault, NoFault, Pending, DeadIsIdle
  <2>2. OneRefreshOwner'
    BY <1>7 DEF IngestUnchanged, OneRefreshOwner, Owners
  <2>3. OneCallPerTask'
    BY <1>7 DEF IngestUnchanged, Fault, NoFault, Pending, DeadIsIdle, OneCallPerTask
  <2> QED BY <2>1, <2>2, <2>3
<1>8. CASE LifecycleInvalidate
  <2>1. DeadIsIdle'
    BY <1>8 DEF LifecycleInvalidate, Commit, DeadIsIdle
  <2>2. OneRefreshOwner'
    BY <1>8 DEF LifecycleInvalidate, Commit, DeadIsIdle, OneRefreshOwner, Owners
  <2>3. OneCallPerTask'
    BY <1>8 DEF LifecycleInvalidate, Commit, DeadIsIdle, OneCallPerTask
  <2> QED BY <2>1, <2>2, <2>3
<1>9. CASE LifecyclePass
  <2>1. DeadIsIdle'
    BY <1>9 DEF LifecyclePass, Maintaining, DeadIsIdle
  <2>2. OneRefreshOwner'
    BY <1>9 DEF LifecyclePass, OneRefreshOwner, Owners
  <2>3. OneCallPerTask'
    BY <1>9 DEF LifecyclePass, OneCallPerTask
  <2> QED BY <2>1, <2>2, <2>3
<1>10. CASE ForeignCommit
  <2>1. DeadIsIdle'
    BY <1>10 DEF ForeignCommit, Commit, NoView, DeadIsIdle
  <2>2. OneRefreshOwner'
    BY <1>10 DEF ForeignCommit, Commit, NoView, DeadIsIdle, OneRefreshOwner, Owners
  <2>3. OneCallPerTask'
    BY <1>10 DEF ForeignCommit, Commit, NoView, DeadIsIdle, OneCallPerTask
  <2> QED BY <2>1, <2>2, <2>3
<1>11. CASE ForeignRefresh
  <2>1. DeadIsIdle'
    BY <1>11 DEF ForeignRefresh, Recovered, DeadIsIdle
  <2>2. OneRefreshOwner'
    BY <1>11 DEF ForeignRefresh, Recovered, DeadIsIdle, OneRefreshOwner, Owners
  <2>3. OneCallPerTask'
    BY <1>11 DEF ForeignRefresh, Recovered, DeadIsIdle, OneCallPerTask
  <2> QED BY <2>1, <2>2, <2>3
<1>11a. CASE RenderReport
  BY <1>11a DEF RenderReport, DeadIsIdle, OneRefreshOwner, Owners, OneCallPerTask
<1>11b. CASE WriteReport
  BY <1>11b DEF WriteReport, DeadIsIdle, OneRefreshOwner, Owners, OneCallPerTask
<1>11c. CASE ReportFails
  BY <1>11c DEF ReportFails, DeadIsIdle, OneRefreshOwner, Owners, OneCallPerTask
<1>12. CASE Poll
  <2>1. DeadIsIdle'
    BY <1>12 DEF Poll, StillDegraded, WakesOnChange, Pending, DeadIsIdle
  <2>2. OneRefreshOwner'
    BY <1>12 DEF Poll, OneRefreshOwner, Owners
  <2>3. OneCallPerTask'
    BY <1>12 DEF Poll, StillDegraded, WakesOnChange, Pending, DeadIsIdle, OneCallPerTask
  <2> QED BY <2>1, <2>2, <2>3
<1>13. CASE PollFails
  <2>1. DeadIsIdle'
    BY <1>13 DEF PollFails, Fault, DeadIsIdle
  <2>2. OneRefreshOwner'
    BY <1>13 DEF PollFails, Fault, DeadIsIdle, OneRefreshOwner, Owners
  <2>3. OneCallPerTask'
    BY <1>13 DEF PollFails, Fault, DeadIsIdle, OneCallPerTask
  <2> QED BY <2>1, <2>2, <2>3
<1>14. ASSUME NEW t \in Tasks, Debounce(t)
      PROVE  (DeadIsIdle /\ OneRefreshOwner /\ OneCallPerTask)'
  <2>1. DeadIsIdle'
    BY <1>14 DEF Debounce, At, DeadIsIdle
  <2>2. OneRefreshOwner'
    BY <1>14 DEF Debounce, At, DeadIsIdle, OneRefreshOwner, Owners
  <2>3. OneCallPerTask'
    BY <1>14 DEF Debounce, At, DeadIsIdle, OneCallPerTask
  <2> QED BY <2>1, <2>2, <2>3
<1>15. ASSUME NEW t \in Tasks, Retry(t)
      PROVE  (DeadIsIdle /\ OneRefreshOwner /\ OneCallPerTask)'
  <2>1. DeadIsIdle'
    BY <1>15 DEF Retry, At, DeadIsIdle
  <2>2. OneRefreshOwner'
    BY <1>15 DEF Retry, At, DeadIsIdle, OneRefreshOwner, Owners
  <2>3. OneCallPerTask'
    BY <1>15 DEF Retry, At, DeadIsIdle, OneCallPerTask
  <2> QED BY <2>1, <2>2, <2>3
<1>16. ASSUME NEW t \in Tasks, Build(t)
      PROVE  (DeadIsIdle /\ OneRefreshOwner /\ OneCallPerTask)'
  <2>1. DeadIsIdle'
    BY <1>16 DEF Build, At, DeadIsIdle
  <2>2. OneRefreshOwner'
    BY <1>16 DEF Build, At, DeadIsIdle, OneRefreshOwner, Owners
  <2>3. OneCallPerTask'
    BY <1>16 DEF Build, At, DeadIsIdle, OneCallPerTask
  <2> QED BY <2>1, <2>2, <2>3
<1>17. ASSUME NEW t \in Tasks, Refused(t)
      PROVE  (DeadIsIdle /\ OneRefreshOwner /\ OneCallPerTask)'
  <2>1. DeadIsIdle'
    BY <1>17 DEF Refused, Fault, NoFault, Recovered, Promised, Returns, At, DeadIsIdle
  <2>2. OneRefreshOwner'
    BY <1>17 DEF Refused, Returns, At, OneRefreshOwner, Owners
  <2>3. OneCallPerTask'
    BY <1>17 DEF Refused, Returns, At, OneCallPerTask
  <2> QED BY <2>1, <2>2, <2>3
<1>18. ASSUME NEW t \in Tasks, Publish(t)
      PROVE  (DeadIsIdle /\ OneRefreshOwner /\ OneCallPerTask)'
  <2>1. DeadIsIdle'
    BY <1>18 DEF Publish, At, DeadIsIdle
  <2>2. OneRefreshOwner'
    BY <1>18 DEF Publish, Returns, At, OneRefreshOwner, Owners
  <2>3. OneCallPerTask'
    BY <1>18 DEF Publish, Returns, At, OneCallPerTask
  <2> QED BY <2>1, <2>2, <2>3
<1>19. ASSUME NEW t \in Tasks, BuildFails(t)
      PROVE  (DeadIsIdle /\ OneRefreshOwner /\ OneCallPerTask)'
  <2>1. DeadIsIdle'
    BY <1>19 DEF BuildFails, At, DeadIsIdle
  <2>2. OneRefreshOwner'
    BY <1>19 DEF BuildFails, Returns, At, DeadIsIdle, OneRefreshOwner, Owners
  <2>3. OneCallPerTask'
    BY <1>19 DEF BuildFails, Returns, At, OneCallPerTask
  <2> QED BY <2>1, <2>2, <2>3
<1>20. ASSUME NEW t \in Tasks, Settle(t)
      PROVE  (DeadIsIdle /\ OneRefreshOwner /\ OneCallPerTask)'
  <2>1. DeadIsIdle'
    BY <1>20 DEF Settle, At, DeadIsIdle
  <2>2. OneRefreshOwner'
    <3>1. task[t].pc = "settle" /\ \A s \in Tasks : s # t => task'[s] = task[s]
      BY <1>20 DEF Settle, At, Goes
    <3>2. \/ task'[t].pc = "cleared" /\ ~scheduled'
          \/ task'[t].pc \in {"debounce", "cleanup", "retry"} /\ scheduled' = scheduled
      BY <1>20, SettleMoves
    <3> QED BY <3>1, <3>2 DEF OneRefreshOwner, Owners
  <2>3. OneCallPerTask'
    BY <1>20 DEF Settle, Goes, At, OneCallPerTask
  <2> QED BY <2>1, <2>2, <2>3
<1>21. ASSUME NEW t \in Tasks, RereadRequests(t)
      PROVE  (DeadIsIdle /\ OneRefreshOwner /\ OneCallPerTask)'
  <2>1. DeadIsIdle'
    BY <1>21 DEF RereadRequests, At, DeadIsIdle
  <2>2. OneRefreshOwner'
    BY <1>21 DEF RereadRequests, At, DeadIsIdle, OneRefreshOwner, Owners
  <2>3. OneCallPerTask'
    BY <1>21 DEF RereadRequests, At, DeadIsIdle, OneCallPerTask
  <2> QED BY <2>1, <2>2, <2>3
<1>22. ASSUME NEW t \in Tasks, RereadStatus(t)
      PROVE  (DeadIsIdle /\ OneRefreshOwner /\ OneCallPerTask)'
  <2>1. DeadIsIdle'
    BY <1>22 DEF RereadStatus, At, DeadIsIdle
  <2>2. OneRefreshOwner'
    <3>1. task[t].pc = "recheck" /\ scheduled' = scheduled
      BY <1>22 DEF RereadStatus, At
    <3>2. /\ task'[t].pc \in {"idle", "unmark"}
          /\ \A s \in Tasks : s # t => task'[s] = task[s]
      BY <1>22 DEF RereadStatus, Leaves, Goes, IdleTask
    <3> QED BY <3>1, <3>2 DEF OneRefreshOwner, Owners
  <2>3. OneCallPerTask'
    BY <1>22 DEF RereadStatus, Leaves, Goes, IdleTask, At, OneCallPerTask
  <2> QED BY <2>1, <2>2, <2>3
<1>23. ASSUME NEW t \in Tasks, Unmark(t)
      PROVE  (DeadIsIdle /\ OneRefreshOwner /\ OneCallPerTask)'
  <2>1. DeadIsIdle'
    BY <1>23 DEF Unmark, Leaves, IdleTask, At, DeadIsIdle
  <2>2. OneRefreshOwner'
    BY <1>23 DEF Unmark, Leaves, IdleTask, At, OneRefreshOwner, Owners
  <2>3. OneCallPerTask'
    BY <1>23 DEF Unmark, Leaves, IdleTask, At, DeadIsIdle, OneCallPerTask
  <2> QED BY <2>1, <2>2, <2>3
<1>24. ASSUME NEW t \in Tasks, Cleanup(t)
      PROVE  (DeadIsIdle /\ OneRefreshOwner /\ OneCallPerTask)'
  <2>1. DeadIsIdle'
    BY <1>24 DEF Cleanup, Recovered, Goes, At, DeadIsIdle
  <2>2. OneRefreshOwner'
    BY <1>24 DEF Cleanup, Goes, At, OneRefreshOwner, Owners
  <2>3. OneCallPerTask'
    BY <1>24 DEF Cleanup, Recovered, Goes, At, DeadIsIdle, OneCallPerTask
  <2> QED BY <2>1, <2>2, <2>3
<1>25. ASSUME NEW t \in Tasks, CleanupFails(t)
      PROVE  (DeadIsIdle /\ OneRefreshOwner /\ OneCallPerTask)'
  <2>1. DeadIsIdle'
    BY <1>25 DEF CleanupFails, Fault, NoFault, Goes, At, DeadIsIdle
  <2>2. OneRefreshOwner'
    BY <1>25 DEF CleanupFails, Goes, At, OneRefreshOwner, Owners
  <2>3. OneCallPerTask'
    BY <1>25 DEF CleanupFails, Fault, NoFault, Goes, At, DeadIsIdle, OneCallPerTask
  <2> QED BY <2>1, <2>2, <2>3
<1>26. ASSUME NEW t \in Tasks, GiveUp(t)
      PROVE  (DeadIsIdle /\ OneRefreshOwner /\ OneCallPerTask)'
  <2>1. DeadIsIdle'
    BY <1>26 DEF GiveUp, Goes, At, DeadIsIdle
  <2>2. OneRefreshOwner'
    BY <1>26 DEF GiveUp, Goes, At, DeadIsIdle, OneRefreshOwner, Owners
  <2>3. OneCallPerTask'
    BY <1>26 DEF GiveUp, Goes, At, DeadIsIdle, OneCallPerTask
  <2> QED BY <2>1, <2>2, <2>3
<1>27. ASSUME NEW t \in Tasks, Reconsider(t)
      PROVE  (DeadIsIdle /\ OneRefreshOwner /\ OneCallPerTask)'
  <2>1. DeadIsIdle'
    BY <1>27 DEF Reconsider, Leaves, IdleTask, At, DeadIsIdle
  <2>2. OneRefreshOwner'
    BY <1>27 DEF Reconsider, Leaves, IdleTask, At, OneRefreshOwner, Owners
  <2>3. OneCallPerTask'
    BY <1>27 DEF Reconsider, Leaves, IdleTask, At, DeadIsIdle, OneCallPerTask
  <2> QED BY <2>1, <2>2, <2>3
<1>28. CASE UNCHANGED vars
  BY <1>28 DEF vars, DeadIsIdle, OneRefreshOwner, OneCallPerTask, Owners
<1> QED BY <1>1, <1>2, <1>3, <1>4, <1>5, <1>6, <1>7, <1>8, <1>9, <1>10, <1>11, <1>11a,
   <1>11b, <1>11c, <1>12, <1>13, <1>14, <1>15, <1>16, <1>17, <1>18, <1>19, <1>20, <1>21, <1>22, <1>23, <1>24,
   <1>25, <1>26, <1>27, <1>28 DEF Next, CallStep, TaskStep

\* While the report command renders, nobody else acknowledges or builds.
LEMMA RenderingKept ==
  ASSUME TypeOK, DeadIsIdle, RendersPending, NothingAhead, [Next]_vars
  PROVE  RendersPending'
<1>0. TaskTyped /\ StoreTyped /\ FlagsTyped
  BY DEF TypeOK, TaskTyped, TaskType, StoreTyped, FlagsTyped
<1> USE <1>0 DEF TaskTyped, TaskType, StoreTyped
<1>1. ASSUME \/ UNCHANGED store
             \/ store'.acknowledged = store.acknowledged /\ store'.generation > store.generation,
             rendering' = rendering, \A t \in Tasks : task'[t].pc = "build" => task[t].pc = "build"
      PROVE  RendersPending'
  BY <1>1 DEF RendersPending, Rendering, Pending, Building, NothingAhead
<1>2. ASSUME \E g \in {store.generation + 1, store.generation + 2} : Commit(g)
      PROVE  store'.acknowledged = store.acknowledged /\ store'.generation > store.generation
  BY <1>2 DEF Commit
<1>3. ASSUME NEW t \in Tasks, \E r : task' = [task EXCEPT ![t] = r] /\ r.pc # "build"
      PROVE  \A s \in Tasks : task'[s].pc = "build" => task[s].pc = "build"
  BY <1>3
<1>4. CASE Serve
  <2>1. \A t \in Tasks : task'[t].pc = "build" => task[t].pc = "build"
    BY <1>4, ServeMoves
  <2> QED BY <1>1, <1>4, <2>1 DEF Serve
<1>5. CASE Crash \/ IngestInterrupted
  <2>1. \A t \in Tasks : task'[t].pc # "build"
    BY <1>5 DEF Crash, IngestInterrupted, Lost, IdleTask
  <2> QED BY <1>1, <1>2, <1>5, <2>1 DEF Crash, IngestInterrupted, Lost
<1>6. ASSUME NEW c \in Callers, CallStep(c) PROVE RendersPending'
  <2>1. CASE Request(c)
    BY <1>1, <2>1 DEF Request
  <2>2. CASE Spawn(c)
    <3>1. \A t \in Tasks : task'[t].pc = "build" => task[t].pc = "build"
      BY <2>2, SpawnMoves
    <3> QED BY <1>1, <2>2, <3>1 DEF Spawn
  <2> QED BY <1>6, <2>1, <2>2 DEF CallStep
<1>7. ASSUME NEW h \in Handlers, Ingest(h) \/ IngestUnchanged(h) PROVE RendersPending'
  BY <1>1, <1>2, <1>7 DEF Ingest, IngestUnchanged
<1>8. CASE LifecycleInvalidate \/ LifecyclePass
  BY <1>1, <1>2, <1>8 DEF LifecycleInvalidate, LifecyclePass
<1>9. CASE ForeignCommit
  BY <1>1, <1>2, <1>9 DEF ForeignCommit
<1>10. CASE ForeignRefresh
  BY <1>10 DEF ForeignRefresh, RendersPending, Rendering
<1>11. CASE RenderReport
  BY <1>11 DEF RenderReport, RendersPending, Rendering, Pending, Building
<1>12. CASE WriteReport \/ ReportFails
  BY <1>12 DEF WriteReport, ReportFails, RendersPending, Rendering, Pending, Building
<1>13. CASE Poll \/ PollFails
  BY <1>1, <1>13 DEF Poll, PollFails
<1>14. ASSUME NEW t \in Tasks, TaskStep(t) PROVE RendersPending'
  <2>1. CASE Build(t)
    BY <2>1 DEF Build, RendersPending, Rendering
  <2>2. CASE Publish(t) \/ BuildFails(t)
    BY <2>2 DEF Publish, BuildFails, At, Building, RendersPending, Rendering
  <2>3. CASE Settle(t)
    <3>1. \A s \in Tasks : task'[s].pc = "build" => task[s].pc = "build"
      BY <2>3, SettleMoves
    <3> QED BY <1>1, <2>3, <3>1 DEF Settle
  <2>4. CASE \/ Debounce(t) \/ Retry(t) \/ Refused(t) \/ RereadRequests(t) \/ RereadStatus(t)
             \/ Unmark(t) \/ Cleanup(t) \/ CleanupFails(t) \/ GiveUp(t) \/ Reconsider(t)
    <3>1. \A s \in Tasks : task'[s].pc = "build" => task[s].pc = "build"
      BY <2>4 DEF Debounce, Retry, Refused, RereadRequests, RereadStatus, Unmark, Cleanup,
         CleanupFails, GiveUp, Reconsider, Returns, Leaves, Goes, IdleTask, At
    <3>2. UNCHANGED <<store, rendering>>
      BY <2>4 DEF Debounce, Retry, Refused, RereadRequests, RereadStatus, Unmark, Cleanup,
         CleanupFails, GiveUp, Reconsider
    <3> QED BY <1>1, <3>1, <3>2
  <2> QED BY <1>14, <2>1, <2>2, <2>3, <2>4 DEF TaskStep
<1>15. CASE UNCHANGED vars
  BY <1>1, <1>15 DEF vars
<1> QED BY <1>4, <1>5, <1>6, <1>7, <1>8, <1>9, <1>10, <1>11, <1>12, <1>13, <1>14, <1>15 DEF Next

\* Publication: what is acknowledged, what is reserved, and what a pass of
\* the lifecycle relies on.
LEMMA PublicationKept ==
  ASSUME TypeOK, TypeOK', FlagsTyped, DeadIsIdle, PassInvalidates, RendersPending, NothingAhead,
         StagingAccounted, AcknowledgedIsRendered, [Next]_vars
  PROVE  (PassInvalidates /\ NothingAhead /\ StagingAccounted /\ AcknowledgedIsRendered)'
<1>0. /\ TaskTyped /\ TaskTyped' /\ CallTyped /\ CallTyped' /\ StoreTyped /\ StoreTyped'
      /\ FilesTyped /\ FilesTyped' /\ CountersTyped /\ CountersTyped'
  BY DEF TypeOK, TaskTyped, TaskType, CallTyped, StoreTyped, FilesTyped, CountersTyped
<1> USE <1>0, RefreshAssumption DEF Callers, TaskTyped, TaskType, CallTyped, StoreTyped, FilesTyped,
        CountersTyped
<1>1. CASE Serve
  <2>1. PassInvalidates'
    BY <1>1 DEF Serve, DeadIsIdle, PassInvalidates, Maintaining
  <2>2. NothingAhead'
    <3>1. \A s \in Tasks : task'[s].pc = "idle" \/ task'[s].epoch = 0
      BY <1>1, ServeMoves DEF Serve, DeadIsIdle
    <3> QED BY <1>1, <3>1 DEF Serve, NothingAhead
  <2>3. StagingAccounted'
    BY <1>1 DEF Serve, Recovered, PendingOrMissing, Pending, IdleTask, StagingAccounted
  <2>4. AcknowledgedIsRendered'
    BY <1>1 DEF Serve, Recovered, Pending, AcknowledgedIsRendered
  <2> QED BY <2>1, <2>2, <2>3, <2>4
<1>2. CASE Crash
  <2>1. PassInvalidates'
    BY <1>2 DEF Crash, Lost, PassInvalidates, Maintaining
  <2>2. NothingAhead'
    BY <1>2 DEF Crash, Lost, StaleFiles, IdleTask, NothingAhead
  <2>3. StagingAccounted'
    BY <1>2 DEF Crash, Lost, StaleFiles, IdleTask, StagingAccounted
  <2>4. AcknowledgedIsRendered'
    BY <1>2 DEF Crash, Lost, StaleFiles, AcknowledgedIsRendered, Pending
  <2> QED BY <2>1, <2>2, <2>3, <2>4
<1>3. CASE IngestInterrupted
  <2>1. PassInvalidates'
    BY <1>3 DEF IngestInterrupted, Lost, PassInvalidates, Maintaining
  <2>2. NothingAhead'
    BY <1>3 DEF IngestInterrupted, Lost, StaleFiles, Commit, IdleTask, NothingAhead
  <2>3. StagingAccounted'
    BY <1>3 DEF IngestInterrupted, Lost, StaleFiles, Commit, IdleTask, StagingAccounted
  <2>4. AcknowledgedIsRendered'
    BY <1>3 DEF IngestInterrupted, Lost, StaleFiles, Commit, NothingAhead,
       AcknowledgedIsRendered, Pending
  <2> QED BY <2>1, <2>2, <2>3, <2>4
<1>4. ASSUME NEW c \in Callers, Request(c)
      PROVE  (PassInvalidates /\ NothingAhead /\ StagingAccounted /\ AcknowledgedIsRendered)'
  <2>1. PassInvalidates'
    BY <1>4 DEF Request, PassInvalidates, Maintaining, Building, Pending
  <2>2. NothingAhead'
    BY <1>4 DEF Request, NothingAhead
  <2>3. StagingAccounted'
    BY <1>4 DEF Request, StagingAccounted
  <2>4. AcknowledgedIsRendered'
    BY <1>4 DEF Request, NothingAhead, PassInvalidates, AcknowledgedIsRendered, Pending
  <2> QED BY <2>1, <2>2, <2>3, <2>4
<1>5. ASSUME NEW c \in Callers, Spawn(c)
      PROVE  (PassInvalidates /\ NothingAhead /\ StagingAccounted /\ AcknowledgedIsRendered)'
  <2>1. PassInvalidates'
    <3>1. \A s \in Tasks : task'[s].pc = "build" => task[s].pc = "build"
      BY <1>5, SpawnMoves
    <3>2. UNCHANGED store /\ (Maintaining' => Maintaining)
      BY <1>5 DEF Spawn, Maintaining
    <3> QED BY <3>1, <3>2 DEF PassInvalidates, Building, Pending
  <2>2. NothingAhead'
    <3>1. UNCHANGED <<store, observed, requested>>
      BY <1>5 DEF Spawn
    <3>2. \A s \in Tasks : task'[s] = task[s] \/ task'[s].epoch = 0
      BY <1>5, SpawnMoves
    <3> QED BY <3>1, <3>2 DEF NothingAhead
  <2>3. StagingAccounted'
    BY <1>5 DEF Spawn, StartTask, IdleTask, StagingAccounted
  <2>4. AcknowledgedIsRendered'
    BY <1>5 DEF Spawn, AcknowledgedIsRendered, Pending
  <2> QED BY <2>1, <2>2, <2>3, <2>4
<1>6. ASSUME NEW h \in Handlers, Ingest(h)
      PROVE  (PassInvalidates /\ NothingAhead /\ StagingAccounted /\ AcknowledgedIsRendered)'
  <2>1. PassInvalidates'
    BY <1>6 DEF Ingest, PassInvalidates, Maintaining
  <2>2. NothingAhead'
    BY <1>6 DEF Ingest, Commit, Fault, NoFault, NothingAhead
  <2>3. StagingAccounted'
    BY <1>6 DEF Ingest, Commit, Fault, NoFault, StagingAccounted
  <2>4. AcknowledgedIsRendered'
    BY <1>6 DEF Ingest, Commit, NothingAhead, AcknowledgedIsRendered, Pending
  <2> QED BY <2>1, <2>2, <2>3, <2>4
<1>7. ASSUME NEW h \in Handlers, IngestUnchanged(h)
      PROVE  (PassInvalidates /\ NothingAhead /\ StagingAccounted /\ AcknowledgedIsRendered)'
  <2>1. PassInvalidates'
    BY <1>7 DEF IngestUnchanged, PassInvalidates, Maintaining
  <2>2. NothingAhead'
    BY <1>7 DEF IngestUnchanged, Fault, NoFault, Pending, NothingAhead
  <2>3. StagingAccounted'
    BY <1>7 DEF IngestUnchanged, Fault, NoFault, Pending, StagingAccounted
  <2>4. AcknowledgedIsRendered'
    BY <1>7 DEF IngestUnchanged, Pending, AcknowledgedIsRendered
  <2> QED BY <2>1, <2>2, <2>3, <2>4
<1>8. CASE LifecycleInvalidate
  <2>1. PassInvalidates'
    BY <1>8 DEF LifecycleInvalidate, Commit, PassInvalidates, Building, Pending,
       NothingAhead
  <2>2. NothingAhead'
    BY <1>8 DEF LifecycleInvalidate, Commit, NothingAhead
  <2>3. StagingAccounted'
    BY <1>8 DEF LifecycleInvalidate, Commit, StagingAccounted
  <2>4. AcknowledgedIsRendered'
    BY <1>8 DEF LifecycleInvalidate, Commit, NothingAhead, PassInvalidates,
       AcknowledgedIsRendered, Pending
  <2> QED BY <2>1, <2>2, <2>3, <2>4
<1>9. CASE LifecyclePass
  <2>1. PassInvalidates'
    BY <1>9 DEF LifecyclePass, PassInvalidates, Maintaining
  <2>2. NothingAhead'
    BY <1>9 DEF LifecyclePass, Placeheld, Commit, Fault, NoFault, NoView, NothingAhead
  <2>3. StagingAccounted'
    <3>1. files' \in {files, Placeheld, [Placeheld EXCEPT !.marker = TRUE]}
      BY <1>9 DEF LifecyclePass
    <3>2. files'.staging = files.staging /\ files'.reservation = files.reservation
      BY <3>1 DEF Placeheld
    <3> QED BY <3>2 DEF StagingAccounted
  <2>4. AcknowledgedIsRendered'
    BY <1>9 DEF LifecyclePass, Commit, NothingAhead, PassInvalidates,
       AcknowledgedIsRendered, Pending
  <2> QED BY <2>1, <2>2, <2>3, <2>4
<1>10. CASE ForeignCommit
  <2>1. PassInvalidates'
    BY <1>10 DEF ForeignCommit, PassInvalidates, Maintaining
  <2>2. NothingAhead'
    BY <1>10 DEF ForeignCommit, Commit, NoView, NothingAhead
  <2>3. StagingAccounted'
    BY <1>10 DEF ForeignCommit, Placeheld, Commit, NoView, StagingAccounted
  <2>4. AcknowledgedIsRendered'
    BY <1>10 DEF ForeignCommit, Commit, NothingAhead, AcknowledgedIsRendered, Pending
  <2> QED BY <2>1, <2>2, <2>3, <2>4
<1>11. CASE ForeignRefresh
  <2>1. PassInvalidates'
    BY <1>11 DEF ForeignRefresh, PassInvalidates, Maintaining
  <2>2. NothingAhead'
    BY <1>11 DEF ForeignRefresh, Recovered, NothingAhead
  <2>3. StagingAccounted'
    BY <1>11 DEF ForeignRefresh, Recovered, StagingAccounted
  <2>4. AcknowledgedIsRendered'
    BY <1>11 DEF ForeignRefresh, Recovered, NothingAhead, PassInvalidates,
       AcknowledgedIsRendered, Pending
  <2> QED BY <2>1, <2>2, <2>3, <2>4
<1>11a. CASE RenderReport
  <2>1. PassInvalidates'
    BY <1>11a DEF RenderReport, PassInvalidates, Maintaining
  <2>2. NothingAhead'
    BY <1>11a DEF RenderReport, NothingAhead
  <2>3. StagingAccounted'
    BY <1>11a DEF RenderReport, StagingAccounted
  <2>4. AcknowledgedIsRendered'
    BY <1>11a DEF RenderReport, AcknowledgedIsRendered, Pending
  <2> QED BY <2>1, <2>2, <2>3, <2>4
<1>11b. CASE WriteReport
  <2>1. PassInvalidates'
    BY <1>11b DEF WriteReport, PassInvalidates, Maintaining
  <2>2. NothingAhead'
    BY <1>11b DEF WriteReport, NothingAhead
  <2>3. StagingAccounted'
    BY <1>11b DEF WriteReport, Rendered, StagingAccounted
  <2>4. AcknowledgedIsRendered'
    <3>1. CASE rendering = store.generation
      BY <1>11b, <3>1 DEF WriteReport, Rendered, AcknowledgedIsRendered
    <3>2. CASE rendering # store.generation
      BY <1>11b, <3>2 DEF WriteReport, RendersPending, AcknowledgedIsRendered, Pending
    <3> QED BY <3>1, <3>2
  <2> QED BY <2>1, <2>2, <2>3, <2>4
<1>11c. CASE ReportFails
  <2>1. PassInvalidates'
    BY <1>11c DEF ReportFails, PassInvalidates, Maintaining, Building, Pending
  <2>2. NothingAhead'
    BY <1>11c DEF ReportFails, NothingAhead
  <2>3. StagingAccounted'
    BY <1>11c DEF ReportFails, Rendered, StagingAccounted
  <2>4. AcknowledgedIsRendered'
    BY <1>11c DEF ReportFails, RendersPending, AcknowledgedIsRendered, Pending
  <2> QED BY <2>1, <2>2, <2>3, <2>4
<1>12. CASE Poll
  <2>1. PassInvalidates'
    BY <1>12 DEF Poll, PassInvalidates, Maintaining
  <2>2. NothingAhead'
    BY <1>12 DEF Poll, StillDegraded, WakesOnChange, Pending, NothingAhead
  <2>3. StagingAccounted'
    BY <1>12 DEF Poll, StillDegraded, WakesOnChange, Pending, StagingAccounted
  <2>4. AcknowledgedIsRendered'
    BY <1>12 DEF Poll, Pending, AcknowledgedIsRendered
  <2> QED BY <2>1, <2>2, <2>3, <2>4
<1>13. CASE PollFails
  <2>1. PassInvalidates'
    BY <1>13 DEF PollFails, PassInvalidates, Maintaining, Building, Pending
  <2>2. NothingAhead'
    BY <1>13 DEF PollFails, Fault, NothingAhead
  <2>3. StagingAccounted'
    BY <1>13 DEF PollFails, Fault, StagingAccounted
  <2>4. AcknowledgedIsRendered'
    BY <1>13 DEF PollFails, Fault, NothingAhead, PassInvalidates,
       AcknowledgedIsRendered, Pending
  <2> QED BY <2>1, <2>2, <2>3, <2>4
<1>14. ASSUME NEW t \in Tasks, Debounce(t)
      PROVE  (PassInvalidates /\ NothingAhead /\ StagingAccounted /\ AcknowledgedIsRendered)'
  <2>1. PassInvalidates'
    BY <1>14 DEF Debounce, PassInvalidates, Maintaining, Building, Pending
  <2>2. NothingAhead'
    BY <1>14 DEF Debounce, At, NothingAhead
  <2>3. StagingAccounted'
    BY <1>14 DEF Debounce, At, StagingAccounted
  <2>4. AcknowledgedIsRendered'
    BY <1>14 DEF Debounce, At, NothingAhead, PassInvalidates, AcknowledgedIsRendered,
       Pending
  <2> QED BY <2>1, <2>2, <2>3, <2>4
<1>15. ASSUME NEW t \in Tasks, Retry(t)
      PROVE  (PassInvalidates /\ NothingAhead /\ StagingAccounted /\ AcknowledgedIsRendered)'
  <2>1. PassInvalidates'
    BY <1>15 DEF Retry, PassInvalidates, Maintaining, Building, Pending
  <2>2. NothingAhead'
    BY <1>15 DEF Retry, At, NothingAhead
  <2>3. StagingAccounted'
    BY <1>15 DEF Retry, At, StagingAccounted
  <2>4. AcknowledgedIsRendered'
    BY <1>15 DEF Retry, At, NothingAhead, PassInvalidates, AcknowledgedIsRendered,
       Pending
  <2> QED BY <2>1, <2>2, <2>3, <2>4
<1>16. ASSUME NEW t \in Tasks, Build(t)
      PROVE  (PassInvalidates /\ NothingAhead /\ StagingAccounted /\ AcknowledgedIsRendered)'
  <2>1. PassInvalidates'
    BY <1>16 DEF Build, PassInvalidates, Maintaining
  <2>2. NothingAhead'
    BY <1>16 DEF Build, At, NothingAhead
  <2>3. StagingAccounted'
    BY <1>16 DEF Build, At, StagingAccounted
  <2>4. AcknowledgedIsRendered'
    BY <1>16 DEF Build, At, NothingAhead, PassInvalidates, AcknowledgedIsRendered,
       Pending
  <2> QED BY <2>1, <2>2, <2>3, <2>4
<1>17. ASSUME NEW t \in Tasks, Refused(t)
      PROVE  (PassInvalidates /\ NothingAhead /\ StagingAccounted /\ AcknowledgedIsRendered)'
  <2>1. PassInvalidates'
    BY <1>17 DEF Refused, Returns, PassInvalidates, Maintaining, Building, Pending
  <2>2. NothingAhead'
    BY <1>17 DEF Refused, Fault, NoFault, Recovered, Promised, Returns, At, NothingAhead
  <2>3. StagingAccounted'
    <3>1. files' = files \/ files'.staging = FALSE \/ files'.reservation = "stale"
      BY <1>17 DEF Refused, Recovered, Promised
    <3> QED BY <3>1 DEF StagingAccounted
  <2>4. AcknowledgedIsRendered'
    <3>1. \A f \in {files, Recovered, [Recovered EXCEPT !.reservation = "stale"], Promised} :
            f.html = files.html
      BY DEF Recovered, Promised, FilesTyped
    <3>2. files'.html = files.html
      BY <1>17, <3>1 DEF Refused
    <3>3. UNCHANGED <<store, view>>
      BY <1>17 DEF Refused
    <3> QED BY <3>2, <3>3 DEF AcknowledgedIsRendered, Pending
  <2> QED BY <2>1, <2>2, <2>3, <2>4
<1>18. ASSUME NEW t \in Tasks, Publish(t)
      PROVE  (PassInvalidates /\ NothingAhead /\ StagingAccounted /\ AcknowledgedIsRendered)'
  <2>1. PassInvalidates'
    BY <1>18 DEF Publish, PassInvalidates, Maintaining
  <2>2. NothingAhead'
    <3>1. /\ UNCHANGED <<observed, requested>> /\ store'.generation = store.generation
          /\ store'.acknowledged \in {store.acknowledged, store.generation}
      BY <1>18 DEF Publish, SnapshotCurrent
    <3>2. \A s \in Tasks : task'[s].epoch = task[s].epoch /\ (task'[s].pc # "idle" => task[s].pc # "idle")
      BY <1>18 DEF Publish, Returns, At
    <3> QED BY <3>1, <3>2 DEF NothingAhead
  <2>3. StagingAccounted'
    <3>1. files' = Recovered \/ files' = Abandoned
      BY <1>18 DEF Publish
    <3>2. files'.reservation = "stale" \/ files'.staging = FALSE
      BY <3>1 DEF Recovered, Abandoned
    <3> QED BY <3>2 DEF StagingAccounted
  <2>4. AcknowledgedIsRendered'
    <3>1. CASE SnapshotCurrent(t)
      BY <1>18, <3>1 DEF Publish, SnapshotCurrent, AcknowledgedIsRendered
    <3>2. CASE ~SnapshotCurrent(t)
      <4>1. files'.html = files.html /\ UNCHANGED <<store, view>>
        BY <1>18, <3>2 DEF Publish, Abandoned
      <4> QED BY <4>1 DEF AcknowledgedIsRendered, Pending
    <3> QED BY <3>1, <3>2
  <2> QED BY <2>1, <2>2, <2>3, <2>4
<1>19. ASSUME NEW t \in Tasks, BuildFails(t)
      PROVE  (PassInvalidates /\ NothingAhead /\ StagingAccounted /\ AcknowledgedIsRendered)'
  <2>1. PassInvalidates'
    BY <1>19 DEF BuildFails, At, PassInvalidates, Maintaining, Building
  <2>2. NothingAhead'
    BY <1>19 DEF BuildFails, Returns, At, NothingAhead
  <2>3. StagingAccounted'
    <3>1. files'.reservation = "stale"
      BY <1>19 DEF BuildFails, Abandoned
    <3> QED BY <3>1 DEF StagingAccounted
  <2>4. AcknowledgedIsRendered'
    BY <1>19 DEF BuildFails, SnapshotCurrent, Abandoned, AcknowledgedIsRendered, Pending
  <2> QED BY <2>1, <2>2, <2>3, <2>4
<1>20. ASSUME NEW t \in Tasks, Settle(t)
      PROVE  (PassInvalidates /\ NothingAhead /\ StagingAccounted /\ AcknowledgedIsRendered)'
  <2>1. PassInvalidates'
    <3>1. UNCHANGED <<store, call>>
      BY <1>20 DEF Settle
    <3>2. \A s \in Tasks : task'[s].pc = "build" => task[s].pc = "build"
      BY <1>20, SettleMoves
    <3> QED BY <3>1, <3>2 DEF PassInvalidates, Maintaining, Building, Pending
  <2>2. NothingAhead'
    <3>1. UNCHANGED <<store, observed, requested>>
      BY <1>20 DEF Settle
    <3>2. task[t].epoch <= requested
      BY <1>20, SettleMoves DEF NothingAhead
    <3>3. \A s \in Tasks : task'[s].pc # "idle" => task'[s].epoch <= requested
      BY <1>20, <3>2, SettleMoves DEF NothingAhead
    <3> QED BY <3>1, <3>3 DEF NothingAhead
  <2>3. StagingAccounted'
    BY <1>20 DEF Settle, StagingAccounted
  <2>4. AcknowledgedIsRendered'
    BY <1>20 DEF Settle, Pending, AcknowledgedIsRendered
  <2> QED BY <2>1, <2>2, <2>3, <2>4
<1>21. ASSUME NEW t \in Tasks, RereadRequests(t)
      PROVE  (PassInvalidates /\ NothingAhead /\ StagingAccounted /\ AcknowledgedIsRendered)'
  <2>1. PassInvalidates'
    BY <1>21 DEF RereadRequests, PassInvalidates, Maintaining, Building, Pending
  <2>2. NothingAhead'
    BY <1>21 DEF RereadRequests, At, NothingAhead
  <2>3. StagingAccounted'
    BY <1>21 DEF RereadRequests, At, StagingAccounted
  <2>4. AcknowledgedIsRendered'
    BY <1>21 DEF RereadRequests, At, NothingAhead, PassInvalidates,
       AcknowledgedIsRendered, Pending
  <2> QED BY <2>1, <2>2, <2>3, <2>4
<1>22. ASSUME NEW t \in Tasks, RereadStatus(t)
      PROVE  (PassInvalidates /\ NothingAhead /\ StagingAccounted /\ AcknowledgedIsRendered)'
  <2>1. PassInvalidates'
    BY <1>22 DEF RereadStatus, Leaves, IdleTask, PassInvalidates, Maintaining, Building,
       Pending
  <2>2. NothingAhead'
    BY <1>22 DEF RereadStatus, Leaves, Goes, IdleTask, At, NothingAhead
  <2>3. StagingAccounted'
    BY <1>22 DEF RereadStatus, StagingAccounted
  <2>4. AcknowledgedIsRendered'
    BY <1>22 DEF RereadStatus, AcknowledgedIsRendered, Pending
  <2> QED BY <2>1, <2>2, <2>3, <2>4
<1>23. ASSUME NEW t \in Tasks, Unmark(t)
      PROVE  (PassInvalidates /\ NothingAhead /\ StagingAccounted /\ AcknowledgedIsRendered)'
  <2>1. PassInvalidates'
    BY <1>23 DEF Unmark, Leaves, IdleTask, PassInvalidates, Maintaining, Building,
       Pending
  <2>2. NothingAhead'
    BY <1>23 DEF Unmark, Leaves, IdleTask, At, NothingAhead
  <2>3. StagingAccounted'
    BY <1>23 DEF Unmark, Leaves, IdleTask, At, StagingAccounted
  <2>4. AcknowledgedIsRendered'
    BY <1>23 DEF Unmark, AcknowledgedIsRendered, Pending
  <2> QED BY <2>1, <2>2, <2>3, <2>4
<1>24. ASSUME NEW t \in Tasks, Cleanup(t)
      PROVE  (PassInvalidates /\ NothingAhead /\ StagingAccounted /\ AcknowledgedIsRendered)'
  <2>1. PassInvalidates'
    BY <1>24 DEF Cleanup, PassInvalidates, Maintaining
  <2>2. NothingAhead'
    BY <1>24 DEF Cleanup, Recovered, Goes, At, NothingAhead
  <2>3. StagingAccounted'
    BY <1>24 DEF Cleanup, Recovered, Goes, At, StagingAccounted
  <2>4. AcknowledgedIsRendered'
    BY <1>24 DEF Cleanup, Recovered, AcknowledgedIsRendered, Pending
  <2> QED BY <2>1, <2>2, <2>3, <2>4
<1>25. ASSUME NEW t \in Tasks, CleanupFails(t)
      PROVE  (PassInvalidates /\ NothingAhead /\ StagingAccounted /\ AcknowledgedIsRendered)'
  <2>1. PassInvalidates'
    BY <1>25 DEF CleanupFails, Goes, PassInvalidates, Maintaining, Building, Pending
  <2>2. NothingAhead'
    BY <1>25 DEF CleanupFails, Fault, NoFault, Goes, At, NothingAhead
  <2>3. StagingAccounted'
    BY <1>25 DEF CleanupFails, Fault, NoFault, Goes, At, StagingAccounted
  <2>4. AcknowledgedIsRendered'
    BY <1>25 DEF CleanupFails, AcknowledgedIsRendered, Pending
  <2> QED BY <2>1, <2>2, <2>3, <2>4
<1>26. ASSUME NEW t \in Tasks, GiveUp(t)
      PROVE  (PassInvalidates /\ NothingAhead /\ StagingAccounted /\ AcknowledgedIsRendered)'
  <2>1. PassInvalidates'
    BY <1>26 DEF GiveUp, Goes, PassInvalidates, Maintaining, Building, Pending
  <2>2. NothingAhead'
    BY <1>26 DEF GiveUp, Goes, At, NothingAhead
  <2>3. StagingAccounted'
    BY <1>26 DEF GiveUp, Goes, At, StagingAccounted
  <2>4. AcknowledgedIsRendered'
    BY <1>26 DEF GiveUp, AcknowledgedIsRendered, Pending
  <2> QED BY <2>1, <2>2, <2>3, <2>4
<1>27. ASSUME NEW t \in Tasks, Reconsider(t)
      PROVE  (PassInvalidates /\ NothingAhead /\ StagingAccounted /\ AcknowledgedIsRendered)'
  <2>1. PassInvalidates'
    BY <1>27 DEF Reconsider, Leaves, IdleTask, PassInvalidates, Maintaining, Building,
       Pending
  <2>2. NothingAhead'
    BY <1>27 DEF Reconsider, Leaves, IdleTask, At, NothingAhead
  <2>3. StagingAccounted'
    BY <1>27 DEF Reconsider, Leaves, IdleTask, At, StagingAccounted
  <2>4. AcknowledgedIsRendered'
    BY <1>27 DEF Reconsider, AcknowledgedIsRendered, Pending
  <2> QED BY <2>1, <2>2, <2>3, <2>4
<1>28. CASE UNCHANGED vars
  BY <1>28 DEF vars, PassInvalidates, Maintaining, Building, Pending, NothingAhead,
     StagingAccounted, AcknowledgedIsRendered
<1> QED BY <1>1, <1>2, <1>3, <1>4, <1>5, <1>6, <1>7, <1>8, <1>9, <1>10, <1>11, <1>11a,
   <1>11b, <1>11c, <1>12, <1>13, <1>14, <1>15, <1>16, <1>17, <1>18, <1>19, <1>20, <1>21, <1>22, <1>23, <1>24,
   <1>25, <1>26, <1>27, <1>28 DEF Next, CallStep, TaskStep

\* A pending generation that the watcher knows of never loses its reason.
\* An attempt that returned, and a task that left with or without a last call.
LEMMA ReturnsMoves ==
  ASSUME TaskTyped, NEW t \in Tasks, NEW o, Returns(t, o)
  PROVE  /\ task'[t].pc = "settle" /\ task'[t].epoch = task[t].epoch
         /\ \A s \in Tasks : s # t => task'[s] = task[s]
BY DEF Returns, TaskTyped, TaskType

\* A task that leaves moves itself only.
LEMMA LeavesMoves ==
  ASSUME TaskTyped, CallTyped, NEW t \in Tasks, NEW again \in BOOLEAN, Leaves(t, again)
  PROVE  /\ task'[t].pc = "idle" /\ \A s \in Tasks : s # t => task'[s] = task[s]
         /\ call'[t] = (IF again THEN "inc" ELSE "none")
         /\ \A c \in Callers : c # t => call'[c] = call[c]
<1>1. t \in Callers
  BY DEF Callers
<1>2. task'[t] = IdleTask /\ \A s \in Tasks : s # t => task'[s] = task[s]
  BY DEF Leaves, TaskTyped
<1>3. IdleTask.pc = "idle"
  BY DEF IdleTask
<1> QED BY <1>1, <1>2, <1>3 DEF Leaves, CallTyped

\* A reason to act outlives every step, for every step.
LEMMA WakeKept ==
  ASSUME RefreshInv, RefreshInv', WakeInv, [Next]_vars
  PROVE  WakeInv'
<1>0. /\ TaskTyped /\ TaskTyped' /\ CallTyped /\ CallTyped' /\ StoreTyped /\ StoreTyped'
      /\ CountersTyped /\ CountersTyped' /\ FlagsTyped /\ FlagsTyped'
      /\ OneRefreshOwner /\ NothingAhead /\ OneCallPerTask
  BY DEF RefreshInv, TypeOK, TaskTyped, TaskType, CallTyped, StoreTyped, CountersTyped,
     FlagsTyped
<1> SUFFICES ASSUME alive', Pending', (observed = store.generation)'
             PROVE  (~tried' => Wakes') /\ (~degraded' => Wakes' \/ Decides')
  BY DEF WakeInv
<1> HIDE DEF WakeInv
<1> USE <1>0, RefreshAssumption DEF Callers, TaskTyped, TaskType, CallTyped, StoreTyped, CountersTyped,
        FlagsTyped
<1>1. CASE Serve
  <2>1. Pending
    BY <1>1 DEF Serve, Pending
  <2>2. \E s \in Tasks : task'[s].pc = "debounce"
    BY <1>1, <2>1, ServeMoves
  <2> QED BY <2>2 DEF Wakes, Attempts
<1>2. CASE Crash
  BY <1>2 DEF Crash, Lost
<1>3. CASE IngestInterrupted
  BY <1>3 DEF IngestInterrupted, Lost
<1>4. ASSUME NEW c \in Callers, Request(c)
      PROVE  (~tried' => Wakes') /\ (~degraded' => Wakes' \/ Decides')
  BY <1>4 DEF Request, NothingAhead, OneRefreshOwner, Owners, Wakes, Asks, Attempts,
     Renews
<1>5. ASSUME NEW c \in Callers, Spawn(c)
      PROVE  (~tried' => Wakes') /\ (~degraded' => Wakes' \/ Decides')
  <2>1. CASE ~scheduled
    <3>1. \E s \in Tasks : task'[s].pc = "debounce"
      BY <1>5, <2>1, SpawnMoves
    <3> QED BY <3>1 DEF Wakes, Attempts
  <2>2. CASE scheduled
    <3>1. /\ task' = task /\ scheduled' = scheduled /\ requested' = requested
          /\ \A d \in Callers : d # c => call'[d] = call[d]
          /\ call[c] = "cas"
      BY <1>5, <2>2 DEF Spawn
    <3>2. WakeInv /\ alive /\ Pending /\ observed = store.generation
      BY <1>5 DEF Spawn, Pending
    <3>3. tried' = tried /\ degraded' = degraded
      BY <1>5 DEF Spawn
    <3>4. Wakes => Wakes'
      BY <2>2, <3>1 DEF Wakes, Asks, Attempts, Renews
    <3>5. Decides => Decides'
      BY <3>1 DEF Decides
    <3> QED BY <3>2, <3>3, <3>4, <3>5 DEF WakeInv
  <2> QED BY <2>1, <2>2
<1>6. ASSUME NEW h \in Handlers, Ingest(h)
      PROVE  (~tried' => Wakes') /\ (~degraded' => Wakes' \/ Decides')
  BY <1>6 DEF Ingest, Wakes, Asks
<1>7. ASSUME NEW h \in Handlers, IngestUnchanged(h)
      PROVE  (~tried' => Wakes') /\ (~degraded' => Wakes' \/ Decides')
  BY <1>7 DEF IngestUnchanged, Pending, WakeInv, Wakes, Asks, Attempts, Renews, Decides
<1>8. CASE LifecycleInvalidate
  BY <1>8 DEF LifecycleInvalidate, Wakes, Asks
<1>9. CASE LifecyclePass
  BY <1>9 DEF LifecyclePass, Wakes, Asks
<1>10. CASE ForeignCommit
  <2>1. observed' = observed /\ observed <= store.generation
    BY <1>10 DEF ForeignCommit, NothingAhead
  <2>2. \E g \in {store.generation + 1, store.generation + 2} : Commit(g)
    BY <1>10 DEF ForeignCommit
  <2>3. store'.generation > store.generation
    BY <2>2 DEF Commit
  <2> QED BY <2>1, <2>3
<1>11. CASE ForeignRefresh
  BY <1>11 DEF ForeignRefresh, Pending
<1>11a. CASE RenderReport
  BY <1>11a DEF RenderReport, Fault, WakeInv, Wakes, Asks, Attempts, Renews, Decides, Pending
<1>11b. CASE WriteReport
  <2>1. store' = store
    BY <1>11b DEF WriteReport, Pending
  <2> QED BY <1>11b, <2>1 DEF WriteReport, WakeInv, Wakes, Asks, Attempts, Renews, Decides,
     Pending
<1>11c. CASE ReportFails
  BY <1>11c DEF ReportFails, WakeInv, Wakes, Asks, Attempts, Renews, Decides, Pending
<1>12. CASE Poll
  BY <1>12 DEF Poll, StillDegraded, WakesOnChange, Pending, WakeInv, Wakes, Asks,
     Attempts, Renews, Decides
<1>13. CASE PollFails
  BY <1>13 DEF PollFails, WakeInv, Wakes, Asks, Attempts, Renews, Pending
<1>14. ASSUME NEW t \in Tasks, Debounce(t)
      PROVE  (~tried' => Wakes') /\ (~degraded' => Wakes' \/ Decides')
  BY <1>14 DEF Debounce, At, WakeInv, Wakes, Attempts
<1>15. ASSUME NEW t \in Tasks, Retry(t)
      PROVE  (~tried' => Wakes') /\ (~degraded' => Wakes' \/ Decides')
  BY <1>15 DEF Retry, Wakes, Attempts
<1>16. ASSUME NEW t \in Tasks, Build(t)
      PROVE  (~tried' => Wakes') /\ (~degraded' => Wakes' \/ Decides')
  BY <1>16 DEF Build, Decides
<1>17. ASSUME NEW t \in Tasks, Refused(t)
      PROVE  (~tried' => Wakes') /\ (~degraded' => Wakes' \/ Decides')
  BY <1>17 DEF Refused, Fault, NoFault, Recovered, Promised, Returns, Decides
<1>18. ASSUME NEW t \in Tasks, Publish(t)
      PROVE  (~tried' => Wakes') /\ (~degraded' => Wakes' \/ Decides')
  <2>1. CASE SnapshotCurrent(t)
    BY <1>18, <2>1 DEF Publish, SnapshotCurrent, Pending
  <2>2. CASE ~SnapshotCurrent(t)
    <3>1. WakeInv /\ alive /\ Pending /\ observed = store.generation
      BY <1>18, <2>2 DEF Publish, Pending
    <3>2. tried' = tried /\ degraded' = degraded /\ call' = call /\ scheduled' = scheduled
          /\ requested' = requested
      BY <1>18 DEF Publish
    <3>3. /\ task[t].pc = "build" /\ task'[t].pc = "settle" /\ task'[t].epoch = task[t].epoch
          /\ \A s \in Tasks : s # t => task'[s] = task[s]
      BY <1>18, ReturnsMoves DEF Publish, At
    <3>4. Wakes => Wakes'
      BY <3>2, <3>3 DEF Wakes, Asks, Attempts, Renews
    <3>5. Decides'
      BY <3>3 DEF Decides
    <3> QED BY <3>1, <3>2, <3>4, <3>5 DEF WakeInv
  <2> QED BY <2>1, <2>2
<1>19. ASSUME NEW t \in Tasks, BuildFails(t)
      PROVE  (~tried' => Wakes') /\ (~degraded' => Wakes' \/ Decides')
  <2>1. CASE /\ SnapshotCurrent(t)
             /\ store' = [store EXCEPT !.acknowledged = task[t].generation]
    BY <2>1 DEF SnapshotCurrent, Pending
  <2>2. CASE store' = store
    <3>1. WakeInv /\ alive /\ Pending /\ observed = store.generation
      BY <1>19, <2>2 DEF BuildFails, Pending
    <3>2. tried' = tried /\ degraded' = degraded /\ call' = call /\ scheduled' = scheduled
          /\ requested' = requested
      BY <1>19 DEF BuildFails
    <3>3. /\ task[t].pc = "build" /\ task'[t].pc = "settle" /\ task'[t].epoch = task[t].epoch
          /\ \A s \in Tasks : s # t => task'[s] = task[s]
      BY <1>19, ReturnsMoves DEF BuildFails, At
    <3>4. Wakes => Wakes'
      BY <3>2, <3>3 DEF Wakes, Asks, Attempts, Renews
    <3>5. Decides'
      BY <3>3 DEF Decides
    <3> QED BY <3>1, <3>2, <3>4, <3>5 DEF WakeInv
  <2> QED BY <1>19, <2>1, <2>2 DEF BuildFails
<1>20. ASSUME NEW t \in Tasks, Settle(t)
      PROVE  (~tried' => Wakes') /\ (~degraded' => Wakes' \/ Decides')
  <2>1. WakeInv /\ alive /\ Pending /\ observed = store.generation
    BY <1>20 DEF Settle, Pending
  <2>2. tried' = tried /\ call' = call /\ requested' = requested
    BY <1>20 DEF Settle
  <2>3. /\ task[t].pc = "settle" /\ \A s \in Tasks : s # t => task'[s] = task[s]
        /\ scheduled' = scheduled /\ (degraded => degraded')
        /\ \/ task'[t].pc = "debounce"
           \/ task'[t].pc = "retry"
           \/ task'[t].pc = "cleanup" /\ degraded' /\ task'[t].epoch = task[t].epoch
    BY <1>20, <2>1, SettleMoves
  <2>4. CASE task'[t].pc \in {"debounce", "retry"}
    BY <2>4 DEF Wakes, Attempts
  <2>5. CASE task'[t].pc = "cleanup" /\ degraded' /\ task'[t].epoch = task[t].epoch
    <3>1. Wakes => Wakes'
      BY <2>2, <2>3, <2>5 DEF Wakes, Asks, Attempts, Renews
    <3> QED BY <2>1, <2>2, <2>5, <3>1 DEF WakeInv
  <2> QED BY <2>3, <2>4, <2>5
<1>21. ASSUME NEW t \in Tasks, RereadRequests(t)
      PROVE  (~tried' => Wakes') /\ (~degraded' => Wakes' \/ Decides')
  BY <1>21 DEF RereadRequests, At, WakeInv, Wakes, Attempts
<1>22. ASSUME NEW t \in Tasks, RereadStatus(t)
      PROVE  (~tried' => Wakes') /\ (~degraded' => Wakes' \/ Decides')
  BY <1>22 DEF RereadStatus, Leaves, Wakes, Asks, Pending
<1>23. ASSUME NEW t \in Tasks, Unmark(t)
      PROVE  (~tried' => Wakes') /\ (~degraded' => Wakes' \/ Decides')
  <2>1. WakeInv /\ alive /\ Pending /\ observed = store.generation
    BY <1>23 DEF Unmark, Pending
  <2>2. /\ tried' = tried /\ degraded' = degraded /\ scheduled' = scheduled
        /\ requested' = requested /\ task[t].pc = "unmark"
    BY <1>23 DEF Unmark, At
  <2>3. /\ task'[t].pc = "idle" /\ \A s \in Tasks : s # t => task'[s] = task[s]
        /\ call'[t] = (IF task[t].outcome = "again" THEN "inc" ELSE "none")
        /\ \A c \in Callers : c # t => call'[c] = call[c]
    BY <1>23, LeavesMoves DEF Unmark
  <2>4. call[t] = "none" /\ t \in Callers
    BY <2>2 DEF OneCallPerTask
  <2>5. Wakes => Wakes'
    <3>1. CASE Asks
      BY <2>2, <2>3, <2>4, <3>1 DEF Wakes, Asks
    <3>2. CASE \E s \in Tasks : s # t /\ (Attempts(s) \/ Renews(s))
      BY <2>2, <2>3, <3>2 DEF Wakes, Attempts, Renews
    <3>3. CASE Attempts(t) \/ Renews(t)
      <4>1. call'[t] = "inc"
        BY <2>2, <2>3, <3>3 DEF Attempts, Renews
      <4> QED BY <2>4, <4>1 DEF Wakes, Asks
    <3> QED BY <3>1, <3>2, <3>3 DEF Wakes
  <2>6. Decides => Decides'
    BY <2>2, <2>3 DEF Decides
  <2> QED BY <2>1, <2>2, <2>5, <2>6 DEF WakeInv
<1>24. ASSUME NEW t \in Tasks, Cleanup(t)
      PROVE  (~tried' => Wakes') /\ (~degraded' => Wakes' \/ Decides')
  BY <1>24 DEF Cleanup, Goes, At, WakeInv, Wakes, Asks, Attempts, Renews, Decides,
     Pending
<1>25. ASSUME NEW t \in Tasks, CleanupFails(t)
      PROVE  (~tried' => Wakes') /\ (~degraded' => Wakes' \/ Decides')
  BY <1>25 DEF CleanupFails, Goes, At, WakeInv, Wakes, Asks, Attempts, Renews, Decides,
     Pending
<1>26. ASSUME NEW t \in Tasks, GiveUp(t)
      PROVE  (~tried' => Wakes') /\ (~degraded' => Wakes' \/ Decides')
  BY <1>26 DEF GiveUp, Goes, At, WakeInv, Wakes, Asks, Attempts, Renews, Decides, Pending
<1>27. ASSUME NEW t \in Tasks, Reconsider(t)
      PROVE  (~tried' => Wakes') /\ (~degraded' => Wakes' \/ Decides')
  <2>1. WakeInv /\ alive /\ Pending /\ observed = store.generation
    BY <1>27 DEF Reconsider, Pending
  <2>2. /\ tried' = tried /\ degraded' = degraded /\ scheduled' = scheduled
        /\ requested' = requested /\ task[t].pc = "closed"
    BY <1>27 DEF Reconsider, At
  <2>3. /\ task'[t].pc = "idle" /\ \A s \in Tasks : s # t => task'[s] = task[s]
        /\ call'[t] = (IF requested # task[t].epoch THEN "inc" ELSE "none")
        /\ \A c \in Callers : c # t => call'[c] = call[c]
    BY <1>27, LeavesMoves DEF Reconsider
  <2>4. call[t] = "none" /\ t \in Callers
    BY <2>2 DEF OneCallPerTask
  <2>5. Wakes => Wakes'
    <3>1. CASE Asks
      BY <2>2, <2>3, <2>4, <3>1 DEF Wakes, Asks
    <3>2. CASE \E s \in Tasks : s # t /\ (Attempts(s) \/ Renews(s))
      BY <2>2, <2>3, <3>2 DEF Wakes, Attempts, Renews
    <3>3. CASE Attempts(t) \/ Renews(t)
      <4>1. call'[t] = "inc"
        BY <2>2, <2>3, <3>3 DEF Attempts, Renews
      <4> QED BY <2>4, <4>1 DEF Wakes, Asks
    <3> QED BY <3>1, <3>2, <3>3 DEF Wakes
  <2>6. Decides => Decides'
    BY <2>2, <2>3 DEF Decides
  <2> QED BY <2>1, <2>2, <2>5, <2>6 DEF WakeInv
<1>28. CASE UNCHANGED vars
  BY <1>28 DEF vars, WakeInv, Wakes, Asks, Attempts, Renews, Decides, Pending
<1> QED BY <1>1, <1>2, <1>3, <1>4, <1>5, <1>6, <1>7, <1>8, <1>9, <1>10, <1>11, <1>11a,
   <1>11b, <1>11c, <1>12, <1>13, <1>14, <1>15, <1>16, <1>17, <1>18, <1>19, <1>20, <1>21, <1>22, <1>23, <1>24,
   <1>25, <1>26, <1>27, <1>28 DEF Next, CallStep, TaskStep

\* The collector has not started: nothing is pending, nothing runs.
LEMMA RefreshInit == Init => RefreshInv /\ WakeInv
<1> SUFFICES ASSUME Init PROVE RefreshInv /\ WakeInv
  OBVIOUS
<1>1. IdleTask \in TaskType
  BY RetryRange DEF IdleTask, TaskType
<1>2. StoreTyped /\ FilesTyped /\ FlagsTyped /\ CountersTyped /\ CallTyped /\ TaskTyped
  <2>1. StoreTyped
    BY RefreshAssumption DEF Init, NoView, StoreTyped
  <2>2. FilesTyped /\ FlagsTyped
    <3>1. NoView \in NoView..MaxGeneration
      BY RefreshAssumption DEF NoView
    <3>2. FilesTyped
      BY <3>1 DEF Init, FilesTyped
    <3> QED BY <3>2 DEF Init, FlagsTyped
  <2>3. CountersTyped
    BY RefreshAssumption DEF Init, CountersTyped
  <2>4. CallTyped /\ TaskTyped
    BY <1>1 DEF Init, CallTyped, TaskTyped
  <2> QED BY <2>1, <2>2, <2>3, <2>4
<1>3. /\ ~alive /\ ~scheduled /\ \A c \in Callers : call[c] = "none"
      /\ \A t \in Tasks : task[t].pc = "idle"
  BY DEF Init, IdleTask
<1>4. DeadIsIdle /\ OneCallPerTask /\ OneRefreshOwner
  BY <1>3 DEF DeadIsIdle, OneCallPerTask, OneRefreshOwner, Owners
<1>5. PassInvalidates
  BY <1>3 DEF PassInvalidates, Maintaining, Callers
<1>6. NothingAhead /\ RendersPending
  BY <1>3 DEF Init, NothingAhead, RendersPending, Rendering
<1>7. StagingAccounted /\ AcknowledgedIsRendered
  BY DEF Init, StagingAccounted, AcknowledgedIsRendered, Pending
<1>8. WakeInv
  BY <1>3 DEF WakeInv
<1> QED BY <1>2, <1>4, <1>5, <1>6, <1>7, <1>8, TypeParts DEF RefreshInv

\* Both invariants together, for every step.
LEMMA RefreshStep == RefreshInv /\ WakeInv /\ [Next]_vars => RefreshInv' /\ WakeInv'
<1> SUFFICES ASSUME RefreshInv, WakeInv, [Next]_vars PROVE RefreshInv' /\ WakeInv'
  OBVIOUS
<1>1. TypeOK'
  BY TypeKept DEF RefreshInv
<1>2. DeadIsIdle' /\ OneRefreshOwner' /\ OneCallPerTask'
  BY <1>1, OwnerKept, TypeParts DEF RefreshInv
<1>3. PassInvalidates' /\ NothingAhead' /\ StagingAccounted' /\ AcknowledgedIsRendered'
  BY <1>1, <1>2, PublicationKept, TypeParts DEF RefreshInv
<1>3a. RendersPending'
  BY RenderingKept DEF RefreshInv
<1>4. RefreshInv'
  BY <1>1, <1>2, <1>3, <1>3a DEF RefreshInv
<1> QED BY <1>4, WakeKept

\* At rest nobody is left who would wake or decide.
LEMMA RestIsReported == TypeOK /\ WakeInv => NoLostWakeup
<1> SUFFICES ASSUME TypeOK, WakeInv, Quiescent, Pending PROVE tried /\ degraded
  BY DEF NoLostWakeup
<1>1. ~Wakes /\ ~Decides
  BY DEF Quiescent, Wakes, Asks, Attempts, Renews, Decides
<1> QED BY <1>1 DEF WakeInv, Quiescent, TypeOK

\* The invariant behind the theorems below.
LEMMA RefreshInvariance == Spec => [](RefreshInv /\ WakeInv)
BY RefreshInit, RefreshStep, PTL DEF Spec

-----------------------------------------------------------------------------
(* The collector's state keeps its types, and a refresh task never counts  *)
(* REPORT_RETRY_LIMIT failed attempts: it gives up with the last of them.  *)
THEOREM RefreshTypes == Spec => []TypeOK
BY RefreshInvariance, PTL DEF RefreshInv

(* report_refresh_scheduled is up exactly while one task owns the refresh, *)
(* however schedule_report_refresh interleaves with tasks that retire, for *)
(* any number of requests in flight and of tasks that have not returned.   *)
THEOREM OneOwner == Spec => []OneRefreshOwner
BY RefreshInvariance, PTL DEF RefreshInv

(* run_report_refresh loses no wake-up: a collector that came to rest with *)
(* a pending report has tried it after the last commit and says in health  *)
(* that it is degraded. No timing is assumed of the sleeps.                *)
THEOREM WakeupsSurvive == Spec => []NoLostWakeup
<1>1. RefreshInv /\ WakeInv => NoLostWakeup
  BY RestIsReported DEF RefreshInv
<1> QED BY <1>1, RefreshInvariance, PTL

(* The collector acknowledges behind the catalog, the report command behind *)
(* the HTML file: what the store calls current is what one of them shows,  *)
(* across foreign commits, overtaken renders, maintenance passes, broken   *)
(* builds and crashes.                                                     *)
THEOREM AcknowledgementsHold == Spec => []AcknowledgedIsRendered
BY RefreshInvariance, PTL DEF RefreshInv

(* The bytes of a build that did not publish stay under a reservation      *)
(* until recovery has removed them.                                        *)
THEOREM StagingIsAccounted == Spec => []StagingAccounted
BY RefreshInvariance, PTL DEF RefreshInv

----------------------------------------------------------------------------
(* The locks                                                               *)

\* Whoever is past the mutation lock holds it.
MutationHeld ==
  \A w \in Writers :
    calls[w] # NotWriting /\ ~IsKind(w, "permit")
      /\ calls[w].step \in {"owner", "permitted", "working", "leaving"} => mutation = w

\* Whoever saw the accounting lock and works holds it the way it asked for.
AccountingHeld ==
  \A w \in Writers :
    calls[w] # NotWriting /\ calls[w].seen /\ ~IsKind(w, "bootstrap")
      /\ calls[w].step \in {"permitted", "working"} =>
         IF WantsCut(w) THEN cut = w ELSE w \in shared

AccountingLock == cut # Nobody => shared = {}

\* What is known about the lock does not become false while it matters.
SeenExists == \A w \in Writers : calls[w] # NotWriting /\ calls[w].seen => barrier
UnseenAbsent ==
  \A w \in Writers :
    Reached(w, "working") /\ IsKind(w, "exclusive") /\ ~calls[w].seen => ~barrier

IInv ==
  /\ BarrierTypes /\ MutationHeld /\ AccountingHeld /\ AccountingLock
  /\ SeenExists /\ UnseenAbsent

\* The strengthened invariant gives the exclusion.
LEMMA CutFromInvariant == IInv => CutExcludesWriters
<1> SUFFICES ASSUME IInv, NEW w \in Writers, NEW v \in Writers,
                    w # v, Cut(w), Reached(v, "working")
             PROVE  IsKind(v, "permit") /\ ~calls[v].seen
  BY DEF CutExcludesWriters
<1>1. mutation = w
  BY DEF IInv, MutationHeld, Cut, Reached, IsKind
<1>2. IsKind(v, "permit")
  BY <1>1 DEF IInv, MutationHeld, Reached, IsKind
<1>3. ASSUME calls[v].seen PROVE FALSE
  <2>1. v \in shared /\ barrier
    BY <1>2, <1>3 DEF IInv, AccountingHeld, SeenExists, Reached, IsKind, WantsCut
  <2>2. calls[w].seen
    BY <2>1 DEF IInv, UnseenAbsent, Cut, BarrierTypes
  <2>3. cut = w
    BY <2>2 DEF IInv, AccountingHeld, Cut, Reached, IsKind, WantsCut
  <2> QED BY <2>1, <2>3, WritersAssumption DEF IInv, AccountingLock
<1> QED BY <1>2, <1>3

\* No writer, no lock.
LEMMA InitIInv == BarrierInit => IInv
BY DEF BarrierInit, IInv, BarrierTypes, MutationHeld, AccountingHeld, AccountingLock, SeenExists,
       UnseenAbsent, Reached

\* A writer that goes away disturbs nobody else's locks.
LEMMA GoneKeeps ==
  ASSUME IInv, NEW w \in Writers, GoneAway(w), barrier' = barrier
  PROVE  IInv'
<1>1. /\ calls' = [calls EXCEPT ![w] = NotWriting]
      /\ shared' = shared \ {w}
      /\ cut' = IF cut = w THEN Nobody ELSE cut
      /\ mutation' = IF mutation = w THEN Nobody ELSE mutation
  BY DEF GoneAway, ReleaseAccounting, ReleaseMutation
<1>2. BarrierTypes'
  BY <1>1 DEF IInv, BarrierTypes
<1>3. \A v \in Writers : v # w => calls'[v] = calls[v]
  BY <1>1 DEF IInv, BarrierTypes
<1>4. calls'[w] = NotWriting
  BY <1>1 DEF IInv, BarrierTypes
<1>5. MutationHeld'
  BY <1>1, <1>3, <1>4 DEF IInv, MutationHeld, IsKind
<1>6. AccountingHeld'
  BY <1>1, <1>3, <1>4 DEF IInv, AccountingHeld, IsKind, WantsCut
<1>7. AccountingLock'
  BY <1>1 DEF IInv, AccountingLock
<1>8. SeenExists' /\ UnseenAbsent'
  BY <1>3, <1>4 DEF IInv, SeenExists, UnseenAbsent, Reached, IsKind
<1> QED BY <1>2, <1>5, <1>6, <1>7, <1>8 DEF IInv

\* What one more step of a call means for the calls.
LEMMA Moved ==
  ASSUME BarrierTypes, NEW w \in Writers, calls[w] # NotWriting, NEW s,
         s \in {"found", "checked", "owner", "permitted", "working", "leaving"},
         MovesTo(w, s)
  PROVE  /\ \A v \in Writers : v # w => calls'[v] = calls[v]
         /\ calls'[w].step = s /\ calls'[w].kind = calls[w].kind
         /\ calls'[w].seen = calls[w].seen
         /\ calls' \in [Writers -> {NotWriting} \cup
              [kind : WriterKinds, waits : BOOLEAN, seen : BOOLEAN,
               step : {"found", "checked", "owner", "permitted", "working", "leaving"}]]
<1>1. calls[w] \in [kind : WriterKinds, waits : BOOLEAN, seen : BOOLEAN,
                   step : {"found", "checked", "owner", "permitted", "working", "leaving"}]
  BY DEF BarrierTypes
<1> QED BY <1>1 DEF MovesTo, BarrierTypes

\* Every step of every writer keeps the strengthened invariant.
LEMMA StepKeeps ==
  ASSUME IInv, NEW w \in Writers,
         \/ \E kind \in WriterKinds, waits \in BOOLEAN : Discover(w, kind, waits)
         \/ CheckScope(w) \/ TakeMutation(w) \/ TakeAccounting(w) \/ Revalidate(w)
         \/ InitializeBarrier(w) \/ FinishWrite(w) \/ LeaveScope(w) \/ AbandonScope(w)
  PROVE  IInv'
<1> USE DEF IsKind, Reached, WantsCut
<1>1. ASSUME GoneAway(w), barrier' = barrier PROVE IInv'
  BY <1>1, GoneKeeps
<1>2. ASSUME NEW kind \in WriterKinds, NEW waits \in BOOLEAN, Discover(w, kind, waits)
      PROVE IInv'
  <2>1. /\ \A v \in Writers : v # w => calls'[v] = calls[v]
        /\ calls'[w].step = "found" /\ calls'[w].seen = barrier
        /\ BarrierTypes'
    BY <1>2 DEF Discover, IInv, BarrierTypes
  <2>2. UNCHANGED <<barrier, mutation, shared, cut>>
    BY <1>2 DEF Discover
  <2> QED BY <2>1, <2>2 DEF IInv, MutationHeld, AccountingHeld, AccountingLock, SeenExists,
                           UnseenAbsent
<1>3. CASE CheckScope(w)
  <2>1. CASE GoneAway(w)
    BY <1>1, <1>3, <2>1 DEF CheckScope
  <2>2. CASE MovesTo(w, "checked") /\ UNCHANGED <<mutation, shared, cut>>
    BY <1>3, <2>2, Moved DEF CheckScope, IInv, BarrierTypes, MutationHeld, AccountingHeld,
       AccountingLock, SeenExists, UnseenAbsent
  <2> QED BY <1>3, <2>1, <2>2 DEF CheckScope
<1>4. CASE TakeMutation(w)
  <2>1. CASE GoneAway(w)
    BY <1>1, <1>4, <2>1 DEF TakeMutation
  <2>2. CASE /\ mutation = Nobody /\ mutation' = w /\ MovesTo(w, "owner")
             /\ UNCHANGED <<shared, cut>>
    BY <1>4, <2>2, Moved, WritersAssumption DEF TakeMutation, IInv, BarrierTypes,
       MutationHeld, AccountingHeld, AccountingLock, SeenExists, UnseenAbsent
  <2> QED BY <1>4, <2>1, <2>2 DEF TakeMutation
<1>5. CASE TakeAccounting(w)
  <2>1. CASE GoneAway(w)
    BY <1>1, <1>5, <2>1 DEF TakeAccounting
  <2>2. CASE /\ ~calls[w].seen
             /\ MovesTo(w, IF IsKind(w, "permit") THEN "working" ELSE "permitted")
             /\ UNCHANGED <<mutation, shared, cut>>
    BY <1>5, <2>2, Moved DEF TakeAccounting, IInv, BarrierTypes,
       MutationHeld, AccountingHeld, AccountingLock, SeenExists, UnseenAbsent
  <2>3. CASE /\ calls[w].seen /\ cut = Nobody
             /\ IF WantsCut(w)
                THEN shared = {} /\ cut' = w /\ shared' = shared
                ELSE shared' = shared \cup {w} /\ cut' = cut
             /\ MovesTo(w, "permitted") /\ UNCHANGED mutation
    <3>1. calls[w] # NotWriting /\ barrier' = barrier
      BY <1>5 DEF TakeAccounting
    <3>2. /\ \A v \in Writers : v # w => calls'[v] = calls[v]
          /\ calls'[w].step = "permitted" /\ calls'[w].kind = calls[w].kind
          /\ calls'[w].seen = calls[w].seen
          /\ BarrierTypes'
      <4>1. BarrierTypes /\ MovesTo(w, "permitted")
        BY <2>3 DEF IInv
      <4>2. /\ \A v \in Writers : v # w => calls'[v] = calls[v]
            /\ calls'[w].step = "permitted" /\ calls'[w].kind = calls[w].kind
            /\ calls'[w].seen = calls[w].seen
            /\ calls' \in [Writers -> {NotWriting} \cup
                 [kind : WriterKinds, waits : BOOLEAN, seen : BOOLEAN,
                  step : {"found", "checked", "owner", "permitted", "working", "leaving"}]]
        BY <3>1, <4>1, Moved
      <4>3. shared' \subseteq Writers /\ cut' \in Writers \cup {Nobody} /\ mutation' = mutation
        BY <2>3, <4>1 DEF BarrierTypes
      <4> QED BY <3>1, <4>1, <4>2, <4>3 DEF BarrierTypes
    <3>3. MutationHeld' /\ SeenExists' /\ UnseenAbsent' /\ AccountingLock'
      <4>1. MutationHeld'
        BY <1>5, <2>3, <3>1, <3>2, WritersAssumption DEF TakeAccounting, IInv, MutationHeld
      <4>2. SeenExists' /\ UnseenAbsent'
        BY <1>5, <2>3, <3>1, <3>2 DEF TakeAccounting, IInv, SeenExists, UnseenAbsent
      <4>3. AccountingLock'
        BY <2>3, <3>1, <3>2 DEF IInv, AccountingLock
      <4> QED BY <4>1, <4>2, <4>3
    <3>4. AccountingHeld'
      BY <2>3, <3>1, <3>2, WritersAssumption DEF IInv, AccountingHeld
    <3> QED BY <3>2, <3>3, <3>4 DEF IInv
  <2> QED BY <1>5, <2>1, <2>2, <2>3 DEF TakeAccounting
<1>6. CASE Revalidate(w)
  <2>1. CASE GoneAway(w)
    BY <1>1, <1>6, <2>1 DEF Revalidate
  <2>2. CASE ~Surprised(w) /\ MovesTo(w, "working") /\ UNCHANGED <<mutation, shared, cut>>
    BY <1>6, <2>2, Moved DEF Revalidate, Surprised, IInv, BarrierTypes, MutationHeld,
       AccountingHeld, AccountingLock, SeenExists, UnseenAbsent
  <2> QED BY <1>6, <2>1, <2>2 DEF Revalidate
<1>7. CASE InitializeBarrier(w)
  BY <1>7, Moved DEF InitializeBarrier, IInv, BarrierTypes, MutationHeld, AccountingHeld,
     AccountingLock, SeenExists, UnseenAbsent
<1>8. CASE FinishWrite(w)
  BY <1>8, Moved DEF FinishWrite, ReleaseAccounting, IInv, BarrierTypes, MutationHeld,
     AccountingHeld, AccountingLock, SeenExists, UnseenAbsent
<1>9. CASE LeaveScope(w)
  BY <1>1, <1>9 DEF LeaveScope
<1>10. CASE AbandonScope(w)
  BY <1>1, <1>10 DEF AbandonScope
<1> QED BY <1>2, <1>3, <1>4, <1>5, <1>6, <1>7, <1>8, <1>9, <1>10

\* For any number of writers, processes that die anywhere and a lock created
\* at any moment, a cut is exclusive.
THEOREM CutsAreExclusive == BarrierSpec => []CutExcludesWriters
<1>1. IInv /\ [BarrierNext]_barrierVars => IInv'
  <2> SUFFICES ASSUME IInv, [BarrierNext]_barrierVars PROVE IInv'
    OBVIOUS
  <2>1. CASE BarrierNext
    BY <2>1, StepKeeps DEF BarrierNext
  <2>2. CASE UNCHANGED barrierVars
    BY <2>2 DEF barrierVars, IInv, BarrierTypes, MutationHeld, AccountingHeld, AccountingLock,
       SeenExists, UnseenAbsent, Reached, IsKind, WantsCut
  <2> QED BY <2>1, <2>2
<1> QED BY <1>1, InitIInv, CutFromInvariant, PTL DEF BarrierSpec

----------------------------------------------------------------------------
(* The private turn details                                                *)

\* A capture holds the mutation lock.
Capturing == job # NoJob /\ job.step \in {"check", "prune", "publish", "sweep", "status"}

\* The types, part by part.
DetailsTyped == details \in [Turns -> DetailFiles \cup {NoDetail}]
StatusesTyped == statuses \in [Turns -> StatusFiles \cup {NoDetail}]
TurnsTyped ==
  /\ DetailsTyped /\ StatusesTyped /\ job \in Jobs \cup {NoJob} /\ today \in Nat
  /\ captures \in Seq([turn: Turns, failed: BOOLEAN])

\* A file carries the number of a capture of its turn and a day that was.
Dated(x, t) == /\ x.stamp \in 1 .. Len(captures) /\ captures[x.stamp].turn = t
               /\ x.day \in Nat /\ x.day <= today
FilesDated ==
  \A t \in Turns : /\ details[t] # NoDetail => Dated(details[t], t)
                   /\ statuses[t] # NoDetail => Dated(statuses[t], t)
PromisesDated == \A a \in acknowledged : a.turn \in Turns /\ Dated(a, a.turn)

\* The capture at work is the last one and has promised nothing yet. It
\* publishes over nothing and promises what is there.
CaptureIsLast ==
  /\ job.turn \in Turns /\ job.content \in Contents
  /\ Len(captures) > 0
  /\ captures[Len(captures)].turn = job.turn /\ ~captures[Len(captures)].failed
  /\ \A t \in Turns : statuses[t] # NoDetail => statuses[t].stamp < Len(captures)
  /\ \A a \in acknowledged : a.stamp < Len(captures)
PublishesOverNothing == job.step \in {"prune", "publish"} => details[job.turn] = NoDetail
PromisesTheDetail ==
  job.step \in {"sweep", "status"} /\ job.code = "ok" =>
    details[job.turn] # NoDetail /\ details[job.turn].content = job.content
CaptureInv == Capturing => CaptureIsLast /\ PublishesOverNothing /\ PromisesTheDetail

\* Why a promised detail may be gone, and what is there as long as it is not.
Since(a) == (a.stamp + 1) .. Len(captures)
Others(a) == {captures[i].turn : i \in Since(a)} \ {a.turn}
Excused(a) ==
  \/ today - a.day > MaxAge
  \/ Cardinality(Others(a)) >= MaxFiles
  \/ \E i \in Since(a) : captures[i].turn = a.turn /\ captures[i].failed
  \/ <<a.turn, a.stamp>> \in misread
DetailKept(a) ==
  /\ details[a.turn] # NoDetail /\ details[a.turn].content = a.content
  /\ details[a.turn].stamp = a.stamp /\ details[a.turn].day = a.day
StatusKept(a) ==
  Allowed(a.turn) /\ statuses[a.turn].stamp >= a.stamp /\ statuses[a.turn].day >= a.day
PromiseInv == \A a \in acknowledged : (DetailKept(a) /\ StatusKept(a)) \/ Excused(a)

TurnsInv == TurnsTyped /\ FilesDated /\ PromisesDated /\ CaptureInv /\ PromiseInv

\* The strengthened invariant gives the property.
LEMMA ShownFromInvariant == TurnsInv => ShownUntilDue
BY DEF TurnsInv, PromiseInv, DetailKept, StatusKept, Excused, Since, Others, ShownUntilDue, Available

\* No capture, no promise.
LEMMA TurnsInitInv == TurnsInit => TurnsInv
<1> SUFFICES ASSUME TurnsInit PROVE TurnsInv
  OBVIOUS
<1>1. TurnsTyped
  BY DEF TurnsInit, TurnsTyped, DetailsTyped, StatusesTyped
<1> QED BY <1>1 DEF TurnsInit, TurnsInv, FilesDated, PromisesDated, CaptureInv, Capturing,
                  PromiseInv

\* The turns of finitely many captures are finitely many.
LEMMA TurnsOfFinite ==
  ASSUME NEW s, NEW I, IsFiniteSet(I)
  PROVE  IsFiniteSet({s[i].turn : i \in I})
<1> DEFINE T == {s[i].turn : i \in I}
           f == [i \in I |-> s[i].turn]
<1>1. f \in Surjection(I, T)
  BY DEF Surjection
<1> HIDE DEF f, T
<1>2. IsFiniteSet(T)
  BY <1>1, FS_Surjection
<1> QED BY <1>2 DEF T

\* The other turns captured since a promise, in any captures s.
OthersIn(s, a) == {s[i].turn : i \in (a.stamp + 1) .. Len(s)} \ {a.turn}

\* There are finitely many captures, and so finitely many other turns.
LEMMA OthersFinite ==
  ASSUME NEW s, NEW a, a.stamp \in Nat, Len(s) \in Nat
  PROVE  IsFiniteSet(OthersIn(s, a)) /\ Cardinality(OthersIn(s, a)) \in Nat
<1> DEFINE I == (a.stamp + 1) .. Len(s)
<1>1. a.stamp + 1 \in Int /\ Len(s) \in Int
  OBVIOUS
<1>2. IsFiniteSet(I)
  BY <1>1, FS_Interval
<1> HIDE DEF I
<1>3. IsFiniteSet({s[i].turn : i \in I})
  BY <1>2, TurnsOfFinite
<1>4. IsFiniteSet({s[i].turn : i \in I} \ {a.turn})
  BY <1>3, FS_Subset
<1>5. IsFiniteSet(OthersIn(s, a))
  BY <1>4 DEF I, OthersIn
<1> QED BY <1>5, FS_CardinalityType

\* Captures are only added, and a failure that was reported stays reported.
CapturesGrow ==
  /\ Len(captures) \in Nat /\ Len(captures') \in Nat /\ Len(captures') >= Len(captures)
  /\ \A i \in 1 .. Len(captures) : /\ captures'[i].turn = captures[i].turn
                                   /\ captures[i].failed => captures'[i].failed

\* An excuse stays one.
LEMMA ExcuseStays ==
  ASSUME NEW a, a.stamp \in Nat, a.day \in Nat, today \in Nat, today' \in Nat,
         CapturesGrow, today' >= today, misread \subseteq misread', Excused(a)
  PROVE  Excused(a)'
<1>1. CASE today - a.day > MaxAge
  BY <1>1, TurnsAssumption DEF Excused
<1>2. CASE Cardinality(Others(a)) >= MaxFiles
  <2> DEFINE O == OthersIn(captures, a)
             Q == OthersIn(captures', a)
  <2>1. O \subseteq Q
    BY DEF CapturesGrow, OthersIn
  <2>2. IsFiniteSet(Q) /\ Cardinality(O) \in Nat
    BY OthersFinite DEF CapturesGrow
  <2>3. Cardinality(O) >= MaxFiles
    BY <1>2 DEF Others, Since, OthersIn
  <2> HIDE DEF O, Q
  <2>4. Cardinality(O) <= Cardinality(Q) /\ Cardinality(Q) \in Nat
    BY <2>1, <2>2, FS_Subset, FS_CardinalityType
  <2>5. Cardinality(Q) >= MaxFiles
    BY <2>2, <2>3, <2>4, TurnsAssumption
  <2> QED BY <2>5 DEF Q, OthersIn, Excused, Others, Since
<1>3. CASE \E i \in Since(a) : captures[i].turn = a.turn /\ captures[i].failed
  BY <1>3 DEF CapturesGrow, Since, Excused
<1>4. CASE <<a.turn, a.stamp>> \in misread
  BY <1>4 DEF Excused
<1> QED BY <1>1, <1>2, <1>3, <1>4 DEF Excused

\* The files of one directory carry the numbers of captures of their turns.
Numbered(dir) ==
  \A t \in Turns : dir[t] # NoDetail =>
    /\ dir[t].stamp \in 1 .. Len(captures) /\ captures[dir[t].stamp].turn = t
    /\ dir[t].day \in Nat /\ dir[t].day <= today

\* The file of a turn as old as the promise goes only when the promise is
\* too old or crowded out. The turn that is being captured takes one of the
\* places, and is one of the turns captured since.
LEMMA CrowdedOut ==
  ASSUME NEW dir, NEW a, NEW r, Len(captures) \in Nat, today \in Nat, Numbered(dir),
         a.turn \in Turns, a.stamp \in Nat, a.stamp > 0, a.day \in Nat,
         dir[a.turn].stamp >= a.stamp, dir[a.turn].day >= a.day,
         r = NoTurn \/ (r \in Turns /\ a.stamp < Len(captures) /\ captures[Len(captures)].turn = r),
         a.turn \in Pruned(dir, r)
  PROVE  Excused(a)
<1> DEFINE young == {t \in Stored(dir) \ {r} : ~TooOld(dir, t)}
           N == Newer(dir, young, a.turn)
           O == OthersIn(captures, a)
<1>0. /\ dir[a.turn] # NoDetail /\ a.turn # r
      /\ TooOld(dir, a.turn)
         \/ Cardinality(N) >= (IF r = NoTurn THEN MaxFiles ELSE MaxFiles - 1)
  BY DEF Pruned, Stored
<1>1. CASE TooOld(dir, a.turn)
  BY <1>0, <1>1, TurnsAssumption DEF TooOld, Excused, Numbered
<1>2. N \subseteq O
  BY <1>0 DEF Newer, Stored, OthersIn, Numbered
<1>3. IsFiniteSet(O) /\ Cardinality(O) \in Nat
  BY OthersFinite
<1>4. r \notin N
  BY DEF Newer
<1>5. r # NoTurn => r \in O
  BY <1>0 DEF OthersIn
<1> HIDE DEF young, N, O
<1>6. IsFiniteSet(N) /\ Cardinality(N) \in Nat /\ Cardinality(N) <= Cardinality(O)
  BY <1>2, <1>3, FS_Subset, FS_CardinalityType
<1>7. r # NoTurn => Cardinality(N) + 1 <= Cardinality(O)
  <2> SUFFICES ASSUME r # NoTurn PROVE Cardinality(N) + 1 <= Cardinality(O)
    OBVIOUS
  <2>1. N \cup {r} \subseteq O
    BY <1>2, <1>5
  <2>2. Cardinality(N \cup {r}) = Cardinality(N) + 1
    BY <1>4, <1>6, FS_AddElement
  <2> QED BY <1>3, <2>1, <2>2, FS_Subset
<1>8. CASE ~TooOld(dir, a.turn)
  <2>1. Cardinality(O) >= MaxFiles
    BY <1>0, <1>8, <1>3, <1>6, <1>7, TurnsAssumption
  <2> QED BY <2>1 DEF O, OthersIn, Excused, Others, Since
<1> QED BY <1>1, <1>8

\* What the types say about captures and promises.
LEMMA CapturesTyped ==
  ASSUME TurnsInv
  PROVE  /\ Len(captures) \in Nat /\ DOMAIN captures = 1 .. Len(captures)
         /\ today \in Nat /\ Numbered(details) /\ Numbered(statuses)
         /\ \A a \in acknowledged : /\ a.turn \in Turns /\ a.stamp \in Nat /\ a.stamp > 0
                                    /\ a.stamp <= Len(captures) /\ a.day \in Nat
BY DEF TurnsInv, TurnsTyped, FilesDated, PromisesDated, Dated, Numbered

\* Files that only go keep their dates.
LEMMA FilesOnlyGo ==
  ASSUME TurnsInv, captures' = captures, acknowledged' = acknowledged,
         today' \in Nat, today' >= today,
         \A t \in Turns : details'[t] \in {details[t], NoDetail},
         \A t \in Turns : statuses'[t] \in {statuses[t], NoDetail}
  PROVE  FilesDated' /\ PromisesDated'
<1>1. FilesDated'
  BY CapturesTyped DEF Numbered, FilesDated, Dated
<1>2. PromisesDated'
  BY CapturesTyped DEF TurnsInv, PromisesDated, Dated
<1> QED BY <1>1, <1>2

\* A promise is kept or excused while its files stay or it gets an excuse.
LEMMA PromisesStay ==
  ASSUME TurnsInv, CapturesGrow, acknowledged' = acknowledged, misread \subseteq misread',
         today' \in Nat, today' >= today,
         \A a \in acknowledged :
           DetailKept(a) /\ StatusKept(a) /\ ~Excused(a) =>
             \/ details'[a.turn] = details[a.turn] /\ statuses'[a.turn] = statuses[a.turn]
             \/ Excused(a)'
  PROVE  PromiseInv'
<1> SUFFICES ASSUME NEW a \in acknowledged
             PROVE  (DetailKept(a)' /\ StatusKept(a)') \/ Excused(a)'
  BY DEF PromiseInv
<1>1. a.stamp \in Nat /\ a.day \in Nat /\ today \in Nat
  BY CapturesTyped
<1>2. CASE Excused(a)
  BY <1>1, <1>2, ExcuseStays
<1>3. CASE ~Excused(a)
  <2>1. DetailKept(a) /\ StatusKept(a)
    BY <1>3 DEF TurnsInv, PromiseInv
  <2>2. CASE details'[a.turn] = details[a.turn] /\ statuses'[a.turn] = statuses[a.turn]
    BY <2>1, <2>2 DEF DetailKept, StatusKept, Allowed
  <2> QED BY <1>3, <2>1, <2>2
<1> QED BY <1>2, <1>3

\* What the holder of the mutation lock turns into.
LEMMA JobsTyped ==
  ASSUME TurnsInv
  PROVE  /\ \A step \in {"prune", "publish", "sweep", "status"}, code \in {"ok", "failed"} :
              job # NoJob /\ JobGoes(step, code) =>
                /\ job' \in Jobs /\ job' # NoJob
                /\ job'.turn = job.turn /\ job'.content = job.content
                /\ job'.step = step /\ job'.code = code
         /\ \A step \in {"statuses", "pairs"} :
              Maintenance(step) \in Jobs /\ Maintenance(step).step = step
         /\ job # NoJob => job.code \in {"ok", "failed"}
BY TurnSentinelAssumption DEF TurnsInv, TurnsTyped, Jobs, JobGoes, Maintenance

\* The parts of CaptureInv that stay while the job goes on with its turn and
\* files only go.
LEMMA CaptureStaysLast ==
  ASSUME TurnsInv, Capturing, captures' = captures, acknowledged' = acknowledged,
         \A t \in Turns : statuses'[t] \in {statuses[t], NoDetail},
         job'.turn = job.turn, job'.content = job.content
  PROVE  CaptureIsLast'
BY DEF TurnsInv, CaptureInv, CaptureIsLast

\* The same captures are captures that grow.
LEMMA SameCaptures ==
  ASSUME TurnsInv, captures' = captures
  PROVE  CapturesGrow
BY CapturesTyped DEF CapturesGrow

\* A capture begins with the next number.
LEMMA BeginStep ==
  ASSUME TurnsInv, NEW t \in Turns, NEW c \in Contents, CaptureBegin(t, c)
  PROVE  TurnsInv'
<1>1. /\ Len(captures) \in Nat /\ Len(captures') = Len(captures) + 1
      /\ captures' \in Seq([turn: Turns, failed: BOOLEAN])
      /\ \A i \in 1 .. Len(captures) : captures'[i] = captures[i]
      /\ captures'[Len(captures')] = [turn |-> t, failed |-> FALSE]
  <2>1. /\ captures \in Seq([turn: Turns, failed: BOOLEAN])
        /\ [turn |-> t, failed |-> FALSE] \in [turn: Turns, failed: BOOLEAN]
    BY DEF TurnsInv, TurnsTyped
  <2>2. captures' = Append(captures, [turn |-> t, failed |-> FALSE])
    BY DEF CaptureBegin
  <2> QED BY <2>1, <2>2
<1>2. CapturesGrow
  BY <1>1 DEF CapturesGrow
<1>3. job' \in Jobs /\ job'.turn = t /\ job'.content = c /\ job'.step = "check"
  BY DEF CaptureBegin, Jobs
<1>4. TurnsTyped'
  BY <1>1, <1>3 DEF CaptureBegin, TurnsInv, TurnsTyped, DetailsTyped, StatusesTyped
<1>5. FilesDated'
  BY <1>1, CapturesTyped DEF CaptureBegin, Numbered, FilesDated, Dated
<1>6. PromisesDated'
  BY <1>1, CapturesTyped DEF CaptureBegin, TurnsInv, PromisesDated, Dated
<1>7. CaptureIsLast'
  BY <1>1, <1>3, CapturesTyped DEF CaptureBegin, CaptureIsLast, Numbered
<1>8. PublishesOverNothing' /\ PromisesTheDetail'
  BY <1>3 DEF PublishesOverNothing, PromisesTheDetail
<1>9. PromiseInv'
  BY <1>2, CapturesTyped, PromisesStay DEF CaptureBegin
<1> QED BY <1>4, <1>5, <1>6, <1>7, <1>8, <1>9 DEF TurnsInv, CaptureInv

\* A capture looks for the detail of its turn.
LEMMA CheckStep ==
  ASSUME TurnsInv, CaptureCheck
  PROVE  TurnsInv'
<1>0. Capturing
  BY DEF CaptureCheck, JobAt, Capturing
<1>1. /\ UNCHANGED <<details, statuses, captures, acknowledged, misread, today>>
      /\ job' \in Jobs /\ job'.turn = job.turn /\ job'.content = job.content
      /\ \/ job'.step = "prune" /\ details[job.turn] = NoDetail
         \/ job'.step = "sweep" /\ details[job.turn] # NoDetail
            /\ details[job.turn].content = job.content
         \/ job'.step = "sweep" /\ job'.code = "failed"
  BY JobsTyped DEF CaptureCheck, JobAt
<1>2. TurnsTyped'
  BY <1>1 DEF TurnsInv, TurnsTyped, DetailsTyped, StatusesTyped
<1>3. FilesDated' /\ PromisesDated'
  BY <1>1, CapturesTyped, FilesOnlyGo
<1>4. CaptureIsLast'
  BY <1>0, <1>1, CaptureStaysLast
<1>5. PublishesOverNothing' /\ PromisesTheDetail'
  BY <1>1 DEF PublishesOverNothing, PromisesTheDetail
<1>6. PromiseInv'
  BY <1>1, CapturesTyped, SameCaptures, PromisesStay
<1> QED BY <1>2, <1>3, <1>4, <1>5, <1>6 DEF TurnsInv, CaptureInv

\* The promises of files that a prune may remove are excused.
LEMMA PruneIsExcused ==
  ASSUME TurnsInv, captures' = captures, misread' = misread, today' = today,
         NEW dir \in {details, statuses}, NEW r,
         r = NoTurn \/ (Capturing /\ r = job.turn),
         NEW a \in acknowledged, DetailKept(a), StatusKept(a), a.turn \in Pruned(dir, r)
  PROVE  Excused(a)'
<1>1. Numbered(dir) /\ a.turn \in Turns /\ a.stamp \in Nat /\ a.stamp > 0 /\ a.day \in Nat
      /\ Len(captures) \in Nat /\ today \in Nat
  BY CapturesTyped
<1>2. dir[a.turn].stamp >= a.stamp /\ dir[a.turn].day >= a.day
  BY <1>1 DEF DetailKept, StatusKept
<1>3. r = NoTurn \/ (r \in Turns /\ a.stamp < Len(captures) /\ captures[Len(captures)].turn = r)
  BY DEF TurnsInv, CaptureInv, CaptureIsLast
<1>4. Excused(a)
  BY <1>1, <1>2, <1>3, CrowdedOut
<1> QED BY <1>1, <1>4, ExcuseStays, SameCaptures

\* A capture makes room among the details.
LEMMA PruneStep ==
  ASSUME TurnsInv, CapturePrune
  PROVE  TurnsInv'
<1>0. Capturing /\ job # NoJob
  BY DEF CapturePrune, JobAt, Capturing
<1> PICK S \in SUBSET Pruned(details, job.turn) :
      /\ details' = Without(details, S)
      /\ \/ S = Pruned(details, job.turn) /\ JobGoes("publish", "ok")
         \/ JobGoes("sweep", "failed")
  BY DEF CapturePrune
<1>1. /\ UNCHANGED <<statuses, captures, acknowledged, misread, today>>
      /\ job.step = "prune" /\ job' \in Jobs
      /\ job'.turn = job.turn /\ job'.content = job.content
      /\ job'.step = "publish" \/ (job'.step = "sweep" /\ job'.code = "failed")
  BY <1>0, JobsTyped DEF CapturePrune, JobAt
<1>2. /\ details' \in [Turns -> DetailFiles \cup {NoDetail}]
      /\ \A t \in Turns : /\ details'[t] \in {details[t], NoDetail}
                          /\ t \notin S => details'[t] = details[t]
  <2>1. details \in [Turns -> DetailFiles \cup {NoDetail}]
    BY DEF TurnsInv, TurnsTyped, DetailsTyped
  <2>2. details' = Without(details, S)
    OBVIOUS
  <2> QED BY <2>1, <2>2 DEF Without
<1>3. TurnsTyped'
  BY <1>1, <1>2 DEF TurnsInv, TurnsTyped, DetailsTyped, StatusesTyped
<1>4. FilesDated' /\ PromisesDated'
  BY <1>1, <1>2, CapturesTyped, FilesOnlyGo
<1>5. CaptureIsLast'
  BY <1>0, <1>1, CaptureStaysLast
<1>6. PublishesOverNothing' /\ PromisesTheDetail'
  BY <1>0, <1>1, <1>2 DEF PublishesOverNothing, PromisesTheDetail, TurnsInv, CaptureInv, CaptureIsLast
<1>7. ASSUME NEW a \in acknowledged, DetailKept(a), StatusKept(a)
      PROVE  (details'[a.turn] = details[a.turn] /\ statuses'[a.turn] = statuses[a.turn])
             \/ Excused(a)'
  <2>1. a.turn \in Turns
    BY CapturesTyped
  <2>2. CASE a.turn \notin S
    BY <1>1, <1>2, <2>1, <2>2
  <2>3. CASE a.turn \in S
    BY <1>0, <1>1, <1>7, <2>3, PruneIsExcused
  <2> QED BY <2>2, <2>3
<1>8. PromiseInv'
  BY <1>1, <1>7, CapturesTyped, SameCaptures, PromisesStay
<1> QED BY <1>3, <1>4, <1>5, <1>6, <1>8 DEF TurnsInv, CaptureInv

\* A capture publishes its detail, or fails to.
LEMMA PublishStep ==
  ASSUME TurnsInv, CapturePublish
  PROVE  TurnsInv'
<1>0. Capturing /\ job # NoJob
  BY DEF CapturePublish, JobAt, Capturing
<1> DEFINE d == [content |-> job.content, stamp |-> Stamp, day |-> today]
<1>1. /\ UNCHANGED <<statuses, captures, acknowledged, misread, today>>
      /\ job.step = "publish" /\ job' \in Jobs
      /\ job'.turn = job.turn /\ job'.content = job.content /\ job'.step = "sweep"
      /\ \/ details' = [details EXCEPT ![job.turn] = d]
         \/ details' = details /\ job'.code = "failed"
  BY <1>0, JobsTyped DEF CapturePublish, JobAt
<1>2. /\ CaptureIsLast /\ details[job.turn] = NoDetail
      /\ job.turn \in Turns /\ job.content \in Contents
  BY <1>0, <1>1 DEF TurnsInv, CaptureInv, PublishesOverNothing, CaptureIsLast
<1>3. /\ d \in DetailFiles /\ d # NoDetail
      /\ d.content = job.content /\ d.stamp = Len(captures) /\ d.day = today
  BY <1>2, CapturesTyped, TurnSentinelAssumption DEF DetailFiles, Stamp
<1>4. Dated(d, job.turn)
  BY <1>2, <1>3, CapturesTyped DEF Dated, CaptureIsLast
<1> HIDE DEF d
<1>5. details \in [Turns -> DetailFiles \cup {NoDetail}]
  BY DEF TurnsInv, TurnsTyped, DetailsTyped
<1>6. /\ details' \in [Turns -> DetailFiles \cup {NoDetail}]
      /\ \A t \in Turns \ {job.turn} : details'[t] = details[t]
      /\ details'[job.turn] = d \/ (details'[job.turn] = NoDetail /\ job'.code = "failed")
  BY <1>1, <1>2, <1>3, <1>5
<1>7. TurnsTyped'
  BY <1>1, <1>6 DEF TurnsInv, TurnsTyped, DetailsTyped, StatusesTyped
<1>8. FilesDated'
  BY <1>1, <1>2, <1>4, <1>6 DEF TurnsInv, FilesDated, Dated
<1>9. PromisesDated'
  BY <1>1 DEF TurnsInv, PromisesDated, Dated
<1>10. CaptureIsLast'
  BY <1>0, <1>1, CaptureStaysLast
<1>11. PublishesOverNothing' /\ PromisesTheDetail'
  BY <1>1, <1>3, <1>6 DEF PublishesOverNothing, PromisesTheDetail
<1>12. PromiseInv'
  <2>1. \A a \in acknowledged : DetailKept(a) =>
          details'[a.turn] = details[a.turn] /\ statuses'[a.turn] = statuses[a.turn]
    BY <1>1, <1>2, <1>6, CapturesTyped DEF DetailKept
  <2> QED BY <1>1, <2>1, CapturesTyped, SameCaptures, PromisesStay
<1> QED BY <1>7, <1>8, <1>9, <1>10, <1>11, <1>12 DEF TurnsInv, CaptureInv

\* A pass over the statuses keeps what it does not remove; what it removes
\* is excused.
LEMMA StatusesGo ==
  ASSUME TurnsInv, NEW S, statuses' = Without(statuses, S),
         UNCHANGED <<details, captures, acknowledged, misread, today>>,
         \A a \in acknowledged : DetailKept(a) /\ StatusKept(a) /\ a.turn \in S => Excused(a)'
  PROVE  /\ DetailsTyped' /\ StatusesTyped' /\ FilesDated' /\ PromisesDated' /\ PromiseInv'
         /\ \A t \in Turns : statuses'[t] \in {statuses[t], NoDetail}
<1>1. statuses \in [Turns -> StatusFiles \cup {NoDetail}] /\ DetailsTyped
  BY DEF TurnsInv, TurnsTyped, StatusesTyped
<1>2. /\ statuses' \in [Turns -> StatusFiles \cup {NoDetail}]
      /\ \A t \in Turns : /\ statuses'[t] \in {statuses[t], NoDetail}
                          /\ t \notin S => statuses'[t] = statuses[t]
  <2>1. statuses \in [Turns -> StatusFiles \cup {NoDetail}]
    BY <1>1
  <2>2. statuses' = Without(statuses, S)
    OBVIOUS
  <2> QED BY <2>1, <2>2 DEF Without
<1>3. FilesDated' /\ PromisesDated'
  BY <1>2, CapturesTyped, FilesOnlyGo
<1>4. ASSUME NEW a \in acknowledged, DetailKept(a), StatusKept(a)
      PROVE  (details'[a.turn] = details[a.turn] /\ statuses'[a.turn] = statuses[a.turn])
             \/ Excused(a)'
  <2>1. a.turn \in Turns
    BY CapturesTyped
  <2> QED BY <1>2, <1>4, <2>1
<1>5. PromiseInv'
  BY <1>4, CapturesTyped, SameCaptures, PromisesStay
<1> QED BY <1>1, <1>2, <1>3, <1>5 DEF DetailsTyped, StatusesTyped

\* No job, no capture.
LEMMA NoCapture ==
  ASSUME Ends \/ (\E step \in {"statuses", "pairs"} : job' = Maintenance(step))
  PROVE  CaptureInv' /\ job' \in Jobs \cup {NoJob}
BY DEF Ends, Maintenance, CaptureInv, Capturing, Jobs

\* A capture makes room among the statuses.
LEMMA StatusPruneStep ==
  ASSUME TurnsInv, StatusPrune
  PROVE  TurnsInv'
<1>0. Capturing /\ job # NoJob /\ job.step = "sweep"
  BY DEF StatusPrune, JobAt, Capturing
<1> PICK S \in SUBSET Pruned(statuses, job.turn) :
      /\ statuses' = Without(statuses, S)
      /\ JobGoes("status", job.code) \/ Ends
  BY DEF StatusPrune
<1>1. UNCHANGED <<details, captures, acknowledged, misread, today>>
  BY DEF StatusPrune
<1>2. /\ DetailsTyped' /\ StatusesTyped' /\ FilesDated' /\ PromisesDated' /\ PromiseInv'
      /\ \A t \in Turns : statuses'[t] \in {statuses[t], NoDetail}
  <2>1. \A a \in acknowledged : DetailKept(a) /\ StatusKept(a) /\ a.turn \in S => Excused(a)'
    BY <1>0, <1>1, PruneIsExcused
  <2> QED BY <1>1, <2>1, StatusesGo
<1>3. CaptureInv' /\ job' \in Jobs \cup {NoJob}
  <2>1. CASE Ends
    BY <2>1, NoCapture
  <2>2. CASE JobGoes("status", job.code)
    <3>1. /\ job' \in Jobs /\ job'.turn = job.turn /\ job'.content = job.content
          /\ job'.step = "status" /\ job'.code = job.code
      BY <1>0, <2>2, JobsTyped
    <3>2. CaptureIsLast'
      BY <1>0, <1>1, <1>2, <3>1, CaptureStaysLast
    <3>3. PublishesOverNothing' /\ PromisesTheDetail'
      BY <1>0, <1>1, <3>1 DEF PublishesOverNothing, PromisesTheDetail, TurnsInv, CaptureInv
    <3> QED BY <3>1, <3>2, <3>3 DEF CaptureInv
  <2> QED BY <2>1, <2>2
<1>4. TurnsTyped'
  BY <1>1, <1>2, <1>3 DEF TurnsInv, TurnsTyped
<1> QED BY <1>2, <1>3, <1>4 DEF TurnsInv

\* Maintenance prunes the statuses.
LEMMA MaintainStatusesStep ==
  ASSUME TurnsInv, MaintainStatuses
  PROVE  TurnsInv'
<1> PICK S \in SUBSET Pruned(statuses, NoTurn) :
      /\ statuses' = Without(statuses, S)
      /\ job' = Maintenance("pairs") \/ Ends
  BY DEF MaintainStatuses
<1>1. UNCHANGED <<details, captures, acknowledged, misread, today>>
  BY DEF MaintainStatuses
<1>2. DetailsTyped' /\ StatusesTyped' /\ FilesDated' /\ PromisesDated' /\ PromiseInv'
  <2>1. \A a \in acknowledged : DetailKept(a) /\ StatusKept(a) /\ a.turn \in S => Excused(a)'
    BY <1>1, PruneIsExcused
  <2> QED BY <1>1, <2>1, StatusesGo
<1>3. CaptureInv' /\ job' \in Jobs \cup {NoJob}
  BY NoCapture
<1>4. TurnsTyped'
  BY <1>1, <1>2, <1>3 DEF TurnsInv, TurnsTyped
<1> QED BY <1>2, <1>3, <1>4 DEF TurnsInv

\* A pass over the details keeps what it does not remove; what it removes is
\* excused.
LEMMA DetailsGo ==
  ASSUME TurnsInv, NEW S, details' = Without(details, S), misread \subseteq misread',
         UNCHANGED <<statuses, captures, acknowledged, today>>,
         \A a \in acknowledged : DetailKept(a) /\ StatusKept(a) /\ a.turn \in S => Excused(a)'
  PROVE  DetailsTyped' /\ StatusesTyped' /\ FilesDated' /\ PromisesDated' /\ PromiseInv'
<1>1. details \in [Turns -> DetailFiles \cup {NoDetail}] /\ StatusesTyped
  BY DEF TurnsInv, TurnsTyped, DetailsTyped
<1>2. /\ details' \in [Turns -> DetailFiles \cup {NoDetail}]
      /\ \A t \in Turns : /\ details'[t] \in {details[t], NoDetail}
                          /\ t \notin S => details'[t] = details[t]
  <2>1. details \in [Turns -> DetailFiles \cup {NoDetail}]
    BY <1>1
  <2>2. details' = Without(details, S)
    OBVIOUS
  <2> QED BY <2>1, <2>2 DEF Without
<1>3. FilesDated' /\ PromisesDated'
  BY <1>2, CapturesTyped, FilesOnlyGo
<1>4. ASSUME NEW a \in acknowledged, DetailKept(a), StatusKept(a)
      PROVE  (details'[a.turn] = details[a.turn] /\ statuses'[a.turn] = statuses[a.turn])
             \/ Excused(a)'
  <2>1. a.turn \in Turns
    BY CapturesTyped
  <2> QED BY <1>2, <1>4, <2>1
<1>5. PromiseInv'
  BY <1>4, CapturesTyped, SameCaptures, PromisesStay
<1> QED BY <1>1, <1>2, <1>3, <1>5 DEF DetailsTyped, StatusesTyped

\* Maintenance prunes the details.
LEMMA MaintainDetailsStep ==
  ASSUME TurnsInv, MaintainDetails
  PROVE  TurnsInv'
<1> PICK S \in SUBSET Pruned(details, NoTurn) :
      /\ details' = Without(details, S)
      /\ job' = Maintenance("statuses") \/ Ends
  BY DEF MaintainDetails
<1>1. UNCHANGED <<statuses, captures, acknowledged, misread, today>>
  BY DEF MaintainDetails
<1>2. \A a \in acknowledged : DetailKept(a) /\ StatusKept(a) /\ a.turn \in S => Excused(a)'
  BY <1>1, PruneIsExcused
<1>3. DetailsTyped' /\ StatusesTyped' /\ FilesDated' /\ PromisesDated' /\ PromiseInv'
  BY <1>1, <1>2, DetailsGo
<1>4. CaptureInv' /\ job' \in Jobs \cup {NoJob}
  BY NoCapture
<1>5. TurnsTyped'
  BY <1>1, <1>3, <1>4 DEF TurnsInv, TurnsTyped
<1> QED BY <1>3, <1>4, <1>5 DEF TurnsInv

\* A detail that goes although its status allows it is on record as misread.
LEMMA ReconcileStep ==
  ASSUME TurnsInv, ReconcilePairs
  PROVE  TurnsInv'
<1> PICK S \in SUBSET Stored(details) :
      /\ details' = Without(details, S)
      /\ misread' = misread \cup {<<t, details[t].stamp>> : t \in {u \in S : Allowed(u)}}
  BY DEF ReconcilePairs
<1>1. UNCHANGED <<statuses, captures, acknowledged, today>> /\ Ends
  BY DEF ReconcilePairs
<1>2. ASSUME NEW a \in acknowledged, DetailKept(a), StatusKept(a), a.turn \in S
      PROVE  Excused(a)'
  BY <1>2 DEF Excused, DetailKept, StatusKept
<1>3. DetailsTyped' /\ StatusesTyped' /\ FilesDated' /\ PromisesDated' /\ PromiseInv'
  BY <1>1, <1>2, DetailsGo
<1>4. CaptureInv' /\ job' \in Jobs \cup {NoJob}
  BY <1>1, NoCapture
<1>5. TurnsTyped'
  BY <1>1, <1>3, <1>4 DEF TurnsInv, TurnsTyped
<1> QED BY <1>3, <1>4, <1>5 DEF TurnsInv

\* The status is written: this is where a promise is made.
LEMMA StatusWriteStep ==
  ASSUME TurnsInv, StatusWrite
  PROVE  TurnsInv'
<1> DEFINE n == Len(captures)
           s == [code |-> job.code, stamp |-> Stamp, day |-> today]
           b == [turn |-> job.turn, content |-> job.content,
                 stamp |-> details[job.turn].stamp, day |-> details[job.turn].day]
<1>0. Capturing /\ job # NoJob /\ job.step = "status" /\ job.code \in {"ok", "failed"}
  BY JobsTyped DEF StatusWrite, JobAt, Capturing
<1>1. /\ statuses' = [statuses EXCEPT ![job.turn] = s]
      /\ captures' = [captures EXCEPT ![n].failed = job.code # "ok"]
      /\ acknowledged' = IF job.code # "ok" THEN acknowledged ELSE acknowledged \cup {b}
      /\ Ends /\ UNCHANGED <<details, misread, today>>
  BY DEF StatusWrite, Stamp
<1>2. /\ CaptureIsLast /\ job.turn \in Turns /\ job.content \in Contents
      /\ n \in Nat /\ n > 0 /\ today \in Nat /\ DOMAIN captures = 1 .. n
      /\ captures \in Seq([turn: Turns, failed: BOOLEAN])
  BY <1>0, CapturesTyped DEF TurnsInv, CaptureInv, CaptureIsLast, TurnsTyped
<1>3. /\ s \in StatusFiles /\ s # NoDetail
      /\ s.code = job.code /\ s.stamp = n /\ s.day = today
  BY <1>0, <1>2, TurnSentinelAssumption DEF StatusFiles, Stamp
<1>4. /\ b.turn = job.turn /\ b.content = job.content
      /\ b.stamp = details[job.turn].stamp /\ b.day = details[job.turn].day
  OBVIOUS
<1>5. /\ captures' \in Seq([turn: Turns, failed: BOOLEAN]) /\ Len(captures') = n
      /\ \A i \in 1 .. n : captures'[i].turn = captures[i].turn
      /\ \A i \in 1 .. (n - 1) : captures'[i] = captures[i]
      /\ job.code # "ok" => captures'[n].failed
  <2>1. n \in 1 .. n /\ n \in DOMAIN captures
    BY <1>2
  <2>2. \A i \in 1 .. n : captures[i] \in [turn: Turns, failed: BOOLEAN]
    <3>1. captures \in Seq([turn: Turns, failed: BOOLEAN])
      BY <1>2
    <3> QED BY <3>1, ElementOfSeq
  <2>3. captures' = [captures EXCEPT ![n] = [captures[n] EXCEPT !.failed = job.code # "ok"]]
    BY <1>1
  <2>4. [captures[n] EXCEPT !.failed = job.code # "ok"] \in [turn: Turns, failed: BOOLEAN]
    BY <2>1, <2>2
  <2>5. captures' \in Seq([turn: Turns, failed: BOOLEAN]) /\ Len(captures') = n
    BY <1>2, <2>1, <2>3, <2>4
  <2> QED BY <1>2, <2>1, <2>2, <2>3, <2>5
<1>6. CapturesGrow
  BY <1>2, <1>5 DEF CapturesGrow, CaptureIsLast
<1>7. statuses \in [Turns -> StatusFiles \cup {NoDetail}] /\ DetailsTyped
  BY DEF TurnsInv, TurnsTyped, StatusesTyped
<1> HIDE DEF n, s, b
<1>8. /\ statuses' \in [Turns -> StatusFiles \cup {NoDetail}]
      /\ statuses'[job.turn] = s
      /\ \A t \in Turns \ {job.turn} : statuses'[t] = statuses[t]
  BY <1>1, <1>2, <1>3, <1>7
<1>9. CaptureInv' /\ job' \in Jobs \cup {NoJob}
  BY <1>1, NoCapture
<1>10. TurnsTyped'
  BY <1>1, <1>2, <1>5, <1>7, <1>8, <1>9 DEF TurnsTyped, DetailsTyped, StatusesTyped
<1>11. /\ \A t \in Turns : details[t] # NoDetail => Dated(details[t], t)
       /\ \A t \in Turns : statuses[t] # NoDetail => Dated(statuses[t], t)
       /\ \A a \in acknowledged : a.turn \in Turns /\ Dated(a, a.turn)
  BY DEF TurnsInv, FilesDated, PromisesDated
<1>12. FilesDated'
  BY <1>1, <1>2, <1>3, <1>5, <1>8, <1>11 DEF FilesDated, Dated, CaptureIsLast, n
<1>13. job.code = "ok" => details[job.turn] # NoDetail /\ details[job.turn].content = job.content
  BY <1>0 DEF TurnsInv, CaptureInv, PromisesTheDetail
<1>14. job.code = "ok" => Dated(b, job.turn)
  BY <1>2, <1>4, <1>11, <1>13 DEF Dated
<1>15. PromisesDated'
  BY <1>1, <1>2, <1>4, <1>5, <1>11, <1>14 DEF PromisesDated, Dated, n
<1>16. ASSUME NEW a \in acknowledged
       PROVE  (DetailKept(a)' /\ StatusKept(a)') \/ Excused(a)'
  <2>1. a.stamp \in Nat /\ a.day \in Nat /\ a.day <= today /\ a.turn \in Turns /\ a.stamp < n
    BY <1>2, <1>11 DEF Dated, CaptureIsLast, n
  <2>2. CASE Excused(a)
    BY <1>1, <1>2, <1>6, <2>1, <2>2, ExcuseStays
  <2>3. CASE ~Excused(a) /\ a.turn = job.turn /\ job.code # "ok"
    <3>1. captures'[n].failed /\ captures'[n].turn = a.turn
      BY <1>2, <1>5, <2>3 DEF CaptureIsLast, n
    <3>2. n \in (a.stamp + 1) .. Len(captures')
      BY <1>2, <1>5, <2>1
    <3> QED BY <3>1, <3>2 DEF Excused, Since
  <2>4. CASE ~Excused(a) /\ (a.turn # job.turn \/ job.code = "ok")
    <3>1. DetailKept(a) /\ StatusKept(a)
      BY <2>4 DEF TurnsInv, PromiseInv
    <3>2. DetailKept(a)'
      BY <1>1, <3>1 DEF DetailKept
    <3>3. StatusKept(a)'
      BY <1>2, <1>3, <1>8, <2>1, <2>4, <3>1 DEF StatusKept, Allowed
    <3> QED BY <3>2, <3>3
  <2> QED BY <2>2, <2>3, <2>4
<1>17. ASSUME job.code = "ok", NEW c \in acknowledged', c = b
       PROVE  DetailKept(c)' /\ StatusKept(c)'
  <2>1. DetailKept(c)'
    BY <1>1, <1>4, <1>13, <1>17 DEF DetailKept
  <2>2. StatusKept(c)'
    BY <1>1, <1>2, <1>3, <1>4, <1>8, <1>14, <1>17 DEF StatusKept, Allowed, Dated, n
  <2> QED BY <2>1, <2>2
<1>18. PromiseInv'
  BY <1>1, <1>16, <1>17 DEF PromiseInv
<1> QED BY <1>9, <1>10, <1>12, <1>15, <1>18 DEF TurnsInv

\* A crash only lets go of the lock, and a day makes everything older.
LEMMA QuietStep ==
  ASSUME TurnsInv, CrashOfJob \/ DayPasses \/ UNCHANGED turnVars
  PROVE  TurnsInv'
<1>1. /\ UNCHANGED <<details, statuses, captures, acknowledged, misread>>
      /\ today' \in Nat /\ today' >= today
      /\ job' = job \/ Ends
  BY CapturesTyped DEF CrashOfJob, DayPasses, turnVars
<1>2. FilesDated' /\ PromisesDated'
  BY <1>1, FilesOnlyGo
<1>3. PromiseInv'
  BY <1>1, SameCaptures, PromisesStay
<1>4. CaptureInv' /\ job' \in Jobs \cup {NoJob}
  <2>1. CASE Ends
    BY <2>1, NoCapture
  <2>2. CASE job' = job
    BY <1>1, <2>2 DEF TurnsInv, TurnsTyped, CaptureInv, Capturing, CaptureIsLast,
                      PublishesOverNothing, PromisesTheDetail
  <2> QED BY <1>1, <2>1, <2>2
<1>5. TurnsTyped'
  BY <1>1, <1>4 DEF TurnsInv, TurnsTyped, DetailsTyped, StatusesTyped
<1> QED BY <1>2, <1>3, <1>4, <1>5 DEF TurnsInv

\* A detail that a status promised is shown until it is due, for any number
\* of turns, any room and any age: no failure, crash or order of the passes
\* over the two directories separates a detail from its status.
THEOREM PromisesAreKept == TurnsSpec => []ShownUntilDue
<1>1. TurnsInit => TurnsInv
  BY TurnsInitInv
<1>2. TurnsInv /\ [TurnsNext]_turnVars => TurnsInv'
  <2> SUFFICES ASSUME TurnsInv, [TurnsNext]_turnVars PROVE TurnsInv'
    OBVIOUS
  <2> QED BY BeginStep, CheckStep, PruneStep, PublishStep, StatusPruneStep, StatusWriteStep,
             MaintainDetailsStep, MaintainStatusesStep, ReconcileStep, QuietStep DEF TurnsNext
<1>3. TurnsInv => ShownUntilDue
  BY ShownFromInvariant
<1> QED BY <1>1, <1>2, <1>3, PTL DEF TurnsSpec

----------------------------------------------------------------------------
(* The pairing of requests and responses                                   *)


\* A state by itself.
Good(state) ==
  /\ state.next \in Nat
  /\ IsFiniteSet(state.entries)
  /\ \A e \in state.entries :
       e.sequence \in Nat /\ e.sequence < state.next /\ e.at \in Nat /\ e.answered \in BOOLEAN
  /\ \A e, f \in state.entries : e.sequence = f.sequence => e = f
  /\ \A e, f \in state.entries :
       e.official /\ f.official /\ e.key = f.key /\ e.label = f.label => e = f

\* Requests Q and responses P up to cursor c.
Follows(Q, P, next, c) ==
  /\ \A q \in Q : q.sequence \in Nat /\ q.sequence < next /\ q.at \in Nat
                  /\ q.cursor \in Nat /\ q.cursor <= c
  /\ \A q, r \in Q : q.sequence = r.sequence => q = r
  /\ \A p \in P :
       /\ p.sequence \in Nat /\ p.cursor \in Nat /\ p.cursor <= c
       /\ \E q \in Q : /\ q.key = p.key /\ q.sequence = p.sequence /\ q.cursor < p.cursor
                       /\ p.label # NoId => Hashed(p.label) = Hashed(q.label)
       /\ \A o \in P : o.key = p.key /\ o.cursor < p.cursor => o.sequence < p.sequence

\* What waits is a request not yet answered, and younger than any answered
\* one of its conversation.
Backed(state, Q, P) ==
  \A e \in state.entries : ~e.answered =>
    /\ \E q \in Q : q.sequence = e.sequence /\ q.key = e.key /\ q.label = e.label /\ q.at = e.at
    /\ \A p \in P : p.key = e.key => p.sequence < e.sequence

Sound(state, Q, P, c) ==
  /\ Good(state) /\ Follows(Q, P, state.next, c) /\ Backed(state, Q, P)

AllQueued == queued \cup parsing.queued
AllPaired == paired \cup parsing.paired

CopySound ==
  /\ parsing.count \in Nat /\ parsing.time \in Nat /\ parsing.time <= clock
  /\ parsing.export \in Exports /\ parsing.count <= Len(parsing.export)
  /\ Sound(parsing.state, AllQueued, AllPaired, cursor + parsing.count)
  /\ \A q \in queued, r \in parsing.queued : q.sequence # r.sequence

CorrelationInv ==
  /\ cursor \in Nat /\ clock \in Nat
  /\ Sound(snapshot, queued, paired, cursor)
  /\ memory.next = snapshot.next /\ memory.entries \subseteq snapshot.entries
  /\ parsing # NoExport => CopySound

----------------------------------------------------------------------------
(* Operators of the correlation                                            *)

\* Hashing an identifier again changes nothing.
LEMMA HashedTwice == \A x : Hashed(Hashed(x)) = Hashed(x)
  BY DEF Hashed

\* A set of entries has an oldest one.
LEMMA OldestOf ==
  ASSUME NEW S, S # {}, \A e \in S : e.sequence \in Nat
  PROVE  Oldest(S) \in S /\ \A f \in S : Oldest(S).sequence <= f.sequence
<1> DEFINE T == {f.sequence : f \in S}
           R == OpToRel(<, Nat)
<1>1. T \subseteq Nat /\ T # {}
  OBVIOUS
<1>2. \A x, y \in Nat : <<x, y>> \in R <=> x < y
  BY DEF OpToRel
<1>3. PICK m \in T : \A k \in T : ~(<<k, m>> \in R)
  <2>1. IsWellFoundedOn(R, Nat)
    BY NatLessThanWellFounded, Zenon DEF R
  <2> HIDE DEF T, R
  <2>2. QED
    BY <1>1, <2>1, WFMin
<1>4. \A k \in T : m <= k
  <2> SUFFICES ASSUME NEW k \in T PROVE m <= k
    OBVIOUS
  <2> HIDE DEF T, R
  <2>1. k \in Nat /\ m \in Nat
    BY <1>1
  <2>2. ~(k < m)
    BY <1>2, <1>3, <2>1, Zenon
  <2>3. QED
    BY <2>1, <2>2
<1>5. \E f \in S : \A g \in S : f.sequence <= g.sequence
  BY <1>4
<1>6. QED
  BY <1>5 DEF Oldest

\* The capacity takes nothing but the oldest entry.
LEMMA KeptSome ==
  ASSUME NEW S, IsFiniteSet(S), \A e \in S : e.sequence \in Nat
  PROVE  /\ Kept(S) \subseteq S /\ IsFiniteSet(Kept(S))
         /\ Kept(S) # S => Cardinality(S) > MaxRemembered /\ S # {} /\ Kept(S) = S \ {Oldest(S)}
<1>1. Kept(S) \subseteq S
  BY DEF Kept
<1>2. IsFiniteSet(Kept(S))
  BY <1>1, FS_Subset
<1>3. Kept(S) # S => Cardinality(S) > MaxRemembered /\ S # {} /\ Kept(S) = S \ {Oldest(S)}
  BY DEF Kept
<1>4. QED
  BY <1>1, <1>2, <1>3

\* Remembering an entry keeps a state good, if it repeats no official one.
LEMMA RememberedGood ==
  ASSUME NEW state, Good(state), NEW key, NEW label, NEW official \in BOOLEAN,
         NEW answered \in BOOLEAN, NEW time \in Nat,
         official => ~ContainsOfficialRetry(state, key, label)
  PROVE  Good(Remembered(state, key, label, official, answered, time))
<1> DEFINE new == [key |-> key, label |-> label, official |-> official,
                   answered |-> answered, at |-> time, sequence |-> state.next]
           S == state.entries \cup {new}
           after == Remembered(state, key, label, official, answered, time)
<1>1. new.sequence = state.next /\ new.at = time /\ new.answered = answered
      /\ new.official = official /\ new.key = key /\ new.label = label
  OBVIOUS
<1>2. IsFiniteSet(S)
  BY FS_AddElement DEF Good
<1>3. \A e \in S : e.sequence \in Nat /\ e.sequence < state.next + 1 /\ e.at \in Nat
                   /\ e.answered \in BOOLEAN
  BY <1>1 DEF Good
<1>4. \A e, f \in S : e.sequence = f.sequence => e = f
  BY <1>1 DEF Good
<1>5. \A e, f \in S : e.official /\ f.official /\ e.key = f.key /\ e.label = f.label => e = f
  BY <1>1 DEF Good, ContainsOfficialRetry
<1>6. after.entries = Kept(S) /\ after.next = state.next + 1
  BY DEF Remembered
<1>7. Kept(S) \subseteq S /\ IsFiniteSet(Kept(S))
  BY <1>2, <1>3, KeptSome
<1>8. state.next + 1 \in Nat
  BY DEF Good
<1> HIDE DEF new, S, after
<1>9. QED
  BY <1>3, <1>4, <1>5, <1>6, <1>7, <1>8 DEF Good, after

\* Fewer entries of a good state are a good state.
LEMMA FewerGood ==
  ASSUME NEW state, Good(state), NEW fewer, fewer.next = state.next,
         fewer.entries \subseteq state.entries
  PROVE  Good(fewer)
<1>1. IsFiniteSet(fewer.entries)
  BY FS_Subset DEF Good
<1>2. QED
  BY <1>1 DEF Good

\* Expiry removes entries and numbers none.
LEMMA ExpiredFewer ==
  ASSUME NEW state, NEW time
  PROVE  /\ Expired(state, time).next = state.next
         /\ Expired(state, time).entries \subseteq state.entries
  BY DEF Expired

\* A sound state with fewer entries is sound.
LEMMA FewerSound ==
  ASSUME NEW state, NEW Q, NEW P, NEW c, Sound(state, Q, P, c), NEW fewer,
         fewer.next = state.next, fewer.entries \subseteq state.entries
  PROVE  Sound(fewer, Q, P, c)
<1>1. Good(fewer)
  BY FewerGood DEF Sound
<1>2. QED
  BY <1>1 DEF Sound, Backed

----------------------------------------------------------------------------
(* The two steps that change a correlation state                           *)

\* A request that begins to wait.
LEMMA QueueSound ==
  ASSUME NEW state, NEW Q, NEW P, NEW c \in Nat, Sound(state, Q, P, c),
         NEW key, NEW label, NEW official \in BOOLEAN, NEW time \in Nat,
         official => ~ContainsOfficialRetry(state, key, label),
         NEW q, q = [key |-> key, sequence |-> state.next, label |-> label,
                     at |-> time, cursor |-> c + 1]
  PROVE  Sound(Remembered(state, key, label, official, FALSE, time), Q \cup {q}, P, c + 1)
<1> DEFINE new == [key |-> key, label |-> label, official |-> official,
                   answered |-> FALSE, at |-> time, sequence |-> state.next]
           after == Remembered(state, key, label, official, FALSE, time)
<1>1. /\ q.key = key /\ q.sequence = state.next /\ q.label = label /\ q.at = time
      /\ q.cursor = c + 1
  OBVIOUS
<1>2. /\ new.key = key /\ new.label = label /\ new.answered = FALSE /\ new.at = time
      /\ new.sequence = state.next
  OBVIOUS
<1>3. Good(after)
  BY RememberedGood DEF Sound
<1>4. after.next = state.next + 1 /\ after.entries \subseteq state.entries \cup {new}
  BY DEF Remembered, Kept
<1>5. state.next \in Nat
  BY DEF Sound, Good
<1> HIDE DEF new, after
<1>6. Follows(Q \cup {q}, P, after.next, c + 1)
  <2>1. \A r \in Q \cup {q} : r.sequence \in Nat /\ r.sequence < after.next /\ r.at \in Nat
                               /\ r.cursor \in Nat /\ r.cursor <= c + 1
    BY <1>1, <1>4, <1>5 DEF Sound, Follows
  <2>2. \A r, s \in Q \cup {q} : r.sequence = s.sequence => r = s
    BY <1>1, <1>5 DEF Sound, Follows
  <2>3. \A p \in P :
          /\ p.sequence \in Nat /\ p.cursor \in Nat /\ p.cursor <= c + 1
          /\ \E r \in Q \cup {q} : /\ r.key = p.key /\ r.sequence = p.sequence /\ r.cursor < p.cursor
                                   /\ p.label # NoId => Hashed(p.label) = Hashed(r.label)
          /\ \A o \in P : o.key = p.key /\ o.cursor < p.cursor => o.sequence < p.sequence
    BY DEF Sound, Follows
  <2>4. QED
    BY <2>1, <2>2, <2>3 DEF Follows
<1>7. \A p \in P : p.sequence < state.next
  BY DEF Sound, Follows
<1>8. Backed(after, Q \cup {q}, P)
  BY <1>1, <1>2, <1>4, <1>7 DEF Sound, Backed
<1>9. QED
  BY <1>3, <1>6, <1>8 DEF Sound, after

\* A request that is answered: its entry may live on as an answered one, and
\* its id may have changed with the response's.
LEMMA AnswerSound ==
  ASSUME NEW state, NEW Q, NEW P, NEW c \in Nat, Sound(state, Q, P, c), parsing.time \in Nat,
         NEW key, NEW p, p \in Waiting(state, key),
         \A e \in Waiting(state, key) : p.sequence <= e.sequence,
         NEW label, NEW R,
         \A r \in R : \E q \in Q : r.sequence = q.sequence /\ r.at = q.at /\ r.cursor = q.cursor,
         \A r, s \in R : r.sequence = s.sequence => r = s,
         \A q \in Q : \E r \in R :
           /\ r.key = q.key /\ r.sequence = q.sequence /\ r.at = q.at /\ r.cursor = q.cursor
           /\ IF q.sequence = p.sequence
              THEN label # NoId => Hashed(label) = Hashed(r.label)
              ELSE r.label = q.label,
         NEW n, n = [key |-> key, sequence |-> p.sequence, label |-> label, cursor |-> c + 1]
  PROVE  Sound(Answered(state, p), R, P \cup {n}, c + 1)
<1> DEFINE after == Answered(state, p)
           left == [entries |-> state.entries \ {p}, next |-> state.next]
<1>1. n.key = key /\ n.sequence = p.sequence /\ n.label = label /\ n.cursor = c + 1
  OBVIOUS
<1>2. p \in state.entries /\ p.key = key /\ ~p.answered
  BY DEF Waiting
<1>3. Good(left) /\ left.next = state.next /\ left.entries = state.entries \ {p}
  <2>1. left.next = state.next /\ left.entries = state.entries \ {p}
    OBVIOUS
  <2> HIDE DEF left
  <2>2. QED
    BY <2>1, FewerGood DEF Sound
<1> HIDE DEF left
<1>4. /\ Good(after) /\ after.next \in Nat /\ state.next <= after.next
      /\ \A e \in after.entries : ~e.answered => e \in state.entries \ {p}
  <2>1. CASE p.official
    <3>1. ~ContainsOfficialRetry(left, p.key, p.label)
      BY <1>2, <1>3, <2>1 DEF ContainsOfficialRetry, Sound, Good
    <3>2. after = Remembered(left, p.key, p.label, TRUE, TRUE, parsing.time)
      BY <2>1 DEF after, Answered, left
    <3> HIDE DEF after
    <3>3. Good(after)
      BY <1>3, <3>1, <3>2, RememberedGood, Zenon
    <3>4. after.next = state.next + 1
      BY <1>3, <3>2 DEF Remembered
    <3>5. \A e \in after.entries : ~e.answered => e \in state.entries \ {p}
      BY <1>3, <3>2 DEF Remembered, Kept
    <3>6. QED
      BY <3>3, <3>4, <3>5 DEF Sound, Good
  <2>2. CASE ~p.official
    <3>1. after = left
      BY <2>2 DEF after, Answered, left
    <3> HIDE DEF after
    <3>2. after.next = state.next /\ after.entries = state.entries \ {p} /\ Good(after)
      BY <1>3, <3>1, Zenon
    <3>3. QED
      BY <3>2 DEF Good
  <2>3. QED
    BY <2>1, <2>2
<1> HIDE DEF after
<1>5. /\ state.next \in Nat /\ p.sequence \in Nat /\ p.sequence < state.next
      /\ \A e \in state.entries : e.sequence \in Nat /\ (e.sequence = p.sequence => e = p)
  BY <1>2 DEF Sound, Good
<1>6. PICK b \in Q : b.sequence = p.sequence /\ b.key = key
  BY <1>2 DEF Sound, Backed
<1>7. \A o \in P : o.key = key => o.sequence < p.sequence
  BY <1>2 DEF Sound, Backed
<1>8. \A o \in P : o.sequence # p.sequence
  <2> SUFFICES ASSUME NEW o \in P, o.sequence = p.sequence PROVE FALSE
    OBVIOUS
  <2>1. PICK q \in Q : q.key = o.key /\ q.sequence = o.sequence
    BY DEF Sound, Follows
  <2>2. q = b
    BY <1>6, <2>1 DEF Sound, Follows
  <2>3. QED
    BY <1>5, <1>6, <1>7, <2>1, <2>2
<1>9. Follows(R, P \cup {n}, after.next, c + 1)
  <2>1. \A r \in R : r.sequence \in Nat /\ r.sequence < after.next /\ r.at \in Nat
                     /\ r.cursor \in Nat /\ r.cursor <= c + 1
    <3> SUFFICES ASSUME NEW r \in R
                 PROVE  r.sequence \in Nat /\ r.sequence < after.next /\ r.at \in Nat
                        /\ r.cursor \in Nat /\ r.cursor <= c + 1
      OBVIOUS
    <3>1. PICK q \in Q : r.sequence = q.sequence /\ r.at = q.at /\ r.cursor = q.cursor
      OBVIOUS
    <3>2. q.sequence \in Nat /\ q.sequence < state.next /\ q.at \in Nat
          /\ q.cursor \in Nat /\ q.cursor <= c
      BY DEF Sound, Follows
    <3>3. QED
      BY <1>4, <1>5, <3>1, <3>2
  <2>2. \A x \in P \cup {n} : x.sequence \in Nat /\ x.cursor \in Nat /\ x.cursor <= c + 1
    BY <1>1, <1>5 DEF Sound, Follows
  <2>3. ASSUME NEW x \in P \cup {n}
        PROVE  \E r \in R : /\ r.key = x.key /\ r.sequence = x.sequence /\ r.cursor < x.cursor
                            /\ x.label # NoId => Hashed(x.label) = Hashed(r.label)
    <3>1. CASE x = n
      <4>1. PICK r \in R : /\ r.key = b.key /\ r.sequence = b.sequence /\ r.cursor = b.cursor
                           /\ label # NoId => Hashed(label) = Hashed(r.label)
        BY <1>6
      <4>2. b.cursor \in Nat /\ b.cursor <= c
        BY DEF Sound, Follows
      <4>3. QED
        BY <1>1, <1>6, <3>1, <4>1, <4>2
    <3>2. CASE x \in P
      <4>1. PICK q \in Q : /\ q.key = x.key /\ q.sequence = x.sequence /\ q.cursor < x.cursor
                           /\ x.label # NoId => Hashed(x.label) = Hashed(q.label)
        BY <3>2 DEF Sound, Follows
      <4>2. q.sequence # p.sequence
        BY <1>8, <3>2, <4>1
      <4>3. PICK r \in R : r.key = q.key /\ r.sequence = q.sequence /\ r.cursor = q.cursor
                           /\ r.label = q.label
        BY <4>2
      <4>4. QED
        BY <4>1, <4>3
    <3>3. QED
      BY <3>1, <3>2
  <2>4. \A x, o \in P \cup {n} : o.key = x.key /\ o.cursor < x.cursor => o.sequence < x.sequence
    <3>1. \A o \in P : o.cursor \in Nat /\ o.cursor <= c
      BY DEF Sound, Follows
    <3>2. \A x, o \in P : o.key = x.key /\ o.cursor < x.cursor => o.sequence < x.sequence
      BY DEF Sound, Follows
    <3>3. QED
      BY <1>1, <1>7, <3>1, <3>2
  <2>5. QED
    BY <2>1, <2>2, <2>3, <2>4 DEF Follows
<1>10. Backed(after, R, P \cup {n})
  <2> SUFFICES ASSUME NEW e \in after.entries, ~e.answered
               PROVE  /\ \E r \in R : /\ r.sequence = e.sequence /\ r.key = e.key
                                      /\ r.label = e.label /\ r.at = e.at
                      /\ \A x \in P \cup {n} : x.key = e.key => x.sequence < e.sequence
    BY DEF Backed
  <2>1. e \in state.entries /\ e # p /\ e.sequence # p.sequence /\ e.sequence \in Nat
    BY <1>4, <1>5
  <2>2. PICK q \in Q : q.sequence = e.sequence /\ q.key = e.key /\ q.label = e.label /\ q.at = e.at
    BY <2>1 DEF Sound, Backed
  <2>3. \E r \in R : r.sequence = e.sequence /\ r.key = e.key /\ r.label = e.label /\ r.at = e.at
    BY <2>1, <2>2
  <2>4. e.key = key => p.sequence < e.sequence
    BY <1>5, <2>1 DEF Waiting
  <2>5. \A x \in P : x.key = e.key => x.sequence < e.sequence
    BY <2>1 DEF Sound, Backed
  <2>6. QED
    BY <1>1, <2>3, <2>4, <2>5
<1>11. QED
  BY <1>4, <1>9, <1>10 DEF Sound, after

----------------------------------------------------------------------------
(* The actions of the correlation                                          *)

\* At first there is nothing to pair.
LEMMA InitCorrelation == CorrelationInit => CorrelationInv
<1> SUFFICES ASSUME CorrelationInit PROVE CorrelationInv
  OBVIOUS
<1>1. snapshot.entries = {} /\ snapshot.next = 0
  BY DEF CorrelationInit, NothingWaits
<1>2. Good(snapshot)
  BY <1>1, FS_EmptySet DEF Good
<1>3. Sound(snapshot, queued, paired, cursor)
  BY <1>1, <1>2 DEF Sound, Follows, Backed, CorrelationInit
<1>4. QED
  BY <1>3 DEF CorrelationInit, CorrelationInv

\* The copy begins with what is in memory and not too old.
LEMMA ReceiveInv ==
  ASSUME CorrelationInv, NEW x \in Exports, Receive(x)
  PROVE  CorrelationInv'
<1>1. UNCHANGED <<memory, snapshot, cursor, paired, queued, clock>>
  BY DEF Receive, committed
<1>2. /\ parsing'.export = x /\ parsing'.count = 0 /\ parsing'.time = clock
      /\ parsing'.state = Expired(memory, clock) /\ parsing'.paired = {} /\ parsing'.queued = {}
  BY DEF Receive
<1>3. Sound(memory, queued, paired, cursor)
  BY FewerSound DEF CorrelationInv
<1>4. Sound(Expired(memory, clock), queued, paired, cursor)
  BY <1>3, ExpiredFewer, FewerSound
<1>5. AllQueued' = queued /\ AllPaired' = paired /\ cursor' + parsing'.count = cursor
  BY <1>1, <1>2 DEF AllQueued, AllPaired, CorrelationInv
<1>6. CopySound'
  <2>1. Len(x) \in Nat
    BY CorrelationAssumption
  <2>2. Sound(parsing'.state, AllQueued', AllPaired', cursor' + parsing'.count)
    BY <1>2, <1>4, <1>5
  <2>3. QED
    BY <1>1, <1>2, <2>1, <2>2 DEF CopySound, CorrelationInv
<1>7. QED
  BY <1>1, <1>6 DEF CorrelationInv

\* What every step of parsing leaves alone, and what it must show.
LEMMA ParsedInv ==
  ASSUME CorrelationInv, Parsing, NEW state, NEW P, NEW Q,
         Parsed(state, P, Q), UNCHANGED <<committed, clock, deliveries>>,
         Sound(state, queued \cup Q, paired \cup P, cursor + parsing.count + 1),
         \A q \in queued, r \in Q : q.sequence # r.sequence
  PROVE  CorrelationInv'
<1>1. UNCHANGED <<memory, snapshot, cursor, paired, queued, clock>>
  BY DEF committed
<1>2. /\ parsing'.export = parsing.export /\ parsing'.count = parsing.count + 1
      /\ parsing'.time = parsing.time
      /\ parsing'.state = state /\ parsing'.paired = P /\ parsing'.queued = Q
  BY DEF Parsed
<1>3. /\ parsing.count \in Nat /\ parsing.time \in Nat /\ parsing.time <= clock
      /\ parsing.export \in Exports /\ parsing.count < Len(parsing.export)
      /\ cursor \in Nat /\ Len(parsing.export) \in Nat
  BY CorrelationAssumption DEF CorrelationInv, CopySound, Parsing
<1>4. cursor' + parsing'.count = cursor + parsing.count + 1
  BY <1>1, <1>2, <1>3
<1>5. AllQueued' = queued \cup Q /\ AllPaired' = paired \cup P
  BY <1>1, <1>2 DEF AllQueued, AllPaired
<1>6. Sound(parsing'.state, AllQueued', AllPaired', cursor' + parsing'.count)
  BY <1>2, <1>4, <1>5
<1>7. CopySound'
  BY <1>1, <1>2, <1>3, <1>6 DEF CopySound
<1>8. QED
  BY <1>1, <1>7 DEF CorrelationInv

\* A record that changes nothing moves the cursor on.
LEMMA SkippedInv ==
  ASSUME CorrelationInv, Parsing, Skipped, UNCHANGED <<committed, clock, deliveries>>
  PROVE  CorrelationInv'
<1>1. CopySound /\ cursor \in Nat /\ parsing.count \in Nat
  BY DEF CorrelationInv, CopySound, Parsing
<1> DEFINE c == cursor + parsing.count
<1>2. c \in Nat /\ Sound(parsing.state, AllQueued, AllPaired, c)
  BY <1>1 DEF CopySound
<1>3. Sound(parsing.state, AllQueued, AllPaired, c + 1)
  <2> HIDE DEF c
  <2>1. Follows(AllQueued, AllPaired, parsing.state.next, c + 1)
    BY <1>2 DEF Sound, Follows
  <2>2. QED
    BY <1>2, <2>1 DEF Sound
<1>4. Sound(parsing.state, queued \cup parsing.queued, paired \cup parsing.paired,
            cursor + parsing.count + 1)
  BY <1>3 DEF AllQueued, AllPaired
<1>5. \A q \in queued, r \in parsing.queued : q.sequence # r.sequence
  BY <1>1 DEF CopySound
<1>6. QED
  BY <1>4, <1>5, ParsedInv DEF Skipped

\* A request is correlated.
LEMMA StartInv ==
  ASSUME CorrelationInv, CorrelateStart
  PROVE  CorrelationInv'
<1> DEFINE official == Record.id # NoId
           state == parsing.state
           c == cursor + parsing.count
           q == [key |-> Record.key, sequence |-> state.next, label |-> Label,
                 at |-> parsing.time, cursor |-> Cursor]
           after == Remembered(state, Record.key, Label, official, FALSE, parsing.time)
<1>1. /\ Parsing /\ UNCHANGED <<committed, clock, deliveries>>
      /\ \/ /\ official => ~ContainsOfficialRetry(state, Record.key, Label)
            /\ Parsed(after, parsing.paired, parsing.queued \cup {q})
         \/ Skipped
  BY DEF CorrelateStart
<1>2. CASE Skipped
  BY <1>1, <1>2, SkippedInv
<1>3. CASE /\ official => ~ContainsOfficialRetry(state, Record.key, Label)
           /\ Parsed(after, parsing.paired, parsing.queued \cup {q})
  <2>1. /\ CopySound /\ cursor \in Nat /\ parsing.count \in Nat /\ parsing.time \in Nat
        /\ c \in Nat /\ Sound(state, AllQueued, AllPaired, c)
    BY <1>1 DEF CorrelationInv, CopySound, Parsing
  <2>2. q = [key |-> Record.key, sequence |-> state.next, label |-> Label,
             at |-> parsing.time, cursor |-> c + 1]
    BY DEF Cursor
  <2>3. q.sequence = state.next
    OBVIOUS
  <2> HIDE DEF q, c
  <2>4. Sound(after, AllQueued \cup {q}, AllPaired, c + 1)
    <3> HIDE DEF state
    <3>1. official \in BOOLEAN
      OBVIOUS
    <3> HIDE DEF official
    <3>2. QED
      BY <1>3, <2>1, <2>2, <3>1, QueueSound, Zenon
  <2> HIDE DEF after
  <2>5. Sound(after, queued \cup (parsing.queued \cup {q}), paired \cup parsing.paired,
              cursor + parsing.count + 1)
    <3>1. AllQueued \cup {q} = queued \cup (parsing.queued \cup {q})
      BY DEF AllQueued
    <3>2. QED
      BY <2>4, <3>1 DEF AllPaired, c
  <2>6. \A o \in queued, r \in parsing.queued \cup {q} : o.sequence # r.sequence
    <3>1. \A o \in queued : o.sequence \in Nat /\ o.sequence < state.next
      BY <2>1 DEF Sound, Follows, AllQueued
    <3>2. \A o \in queued, r \in parsing.queued : o.sequence # r.sequence
      BY <2>1 DEF CopySound
    <3>3. state.next \in Nat
      BY <2>1 DEF Sound, Good
    <3>4. QED
      BY <2>3, <3>1, <3>2, <3>3
  <2>7. QED
    BY <1>1, <1>3, <2>5, <2>6, ParsedInv
<1>4. QED
  BY <1>1, <1>2, <1>3

\* A response is correlated.
LEMMA ResponseInv ==
  ASSUME CorrelationInv, CorrelateResponse
  PROVE  CorrelationInv'
<1> DEFINE state == parsing.state
           waiting == Waiting(state, Record.key)
           p == Oldest(waiting)
           c == cursor + parsing.count
           n == [key |-> Record.key, sequence |-> p.sequence, label |-> PairLabel(p),
                 cursor |-> Cursor]
           R == queued \cup Relabelled(parsing.queued, p)
<1>1. /\ Parsing /\ UNCHANGED <<committed, clock, deliveries>>
      /\ \/ /\ waiting # {}
            /\ Parsed(Answered(state, p), parsing.paired \cup {n}, Relabelled(parsing.queued, p))
         \/ Skipped
  BY DEF CorrelateResponse
<1>2. CASE Skipped
  BY <1>1, <1>2, SkippedInv
<1>3. CASE /\ waiting # {}
           /\ Parsed(Answered(state, p), parsing.paired \cup {n}, Relabelled(parsing.queued, p))
  <2>1. /\ CopySound /\ cursor \in Nat /\ parsing.count \in Nat /\ parsing.time \in Nat
        /\ c \in Nat /\ Sound(state, AllQueued, AllPaired, c)
    BY <1>1 DEF CorrelationInv, CopySound, Parsing
  <2>2. p \in waiting /\ \A e \in waiting : p.sequence <= e.sequence
    <3>1. \A e \in waiting : e.sequence \in Nat
      BY <2>1 DEF Waiting, Sound, Good
    <3> HIDE DEF waiting
    <3>2. QED
      BY <1>3, <3>1, OldestOf
  <2>3. n = [key |-> Record.key, sequence |-> p.sequence, label |-> PairLabel(p), cursor |-> c + 1]
    BY DEF Cursor
  <2> HIDE DEF p, n, c, state
  <2>4. ASSUME NEW r \in R
        PROVE  \/ r \in queued
               \/ \E q \in parsing.queued :
                    /\ r.key = q.key /\ r.sequence = q.sequence /\ r.at = q.at
                    /\ r.cursor = q.cursor
                    /\ r.label = IF q.sequence = p.sequence THEN PairLabel(p) ELSE q.label
    BY DEF Relabelled
  <2>5. ASSUME NEW q \in parsing.queued
        PROVE  \E r \in Relabelled(parsing.queued, p) :
                 /\ r.key = q.key /\ r.sequence = q.sequence /\ r.at = q.at
                 /\ r.cursor = q.cursor
                 /\ r.label = IF q.sequence = p.sequence THEN PairLabel(p) ELSE q.label
    <3> DEFINE r == [key |-> q.key, sequence |-> q.sequence, at |-> q.at, cursor |-> q.cursor,
                     label |-> IF q.sequence = p.sequence THEN PairLabel(p) ELSE q.label]
    <3>1. r \in Relabelled(parsing.queued, p)
      BY DEF Relabelled
    <3>2. QED
      BY <3>1
  <2>6. \A r \in R : \E q \in AllQueued : r.sequence = q.sequence /\ r.at = q.at /\ r.cursor = q.cursor
    BY <2>4 DEF AllQueued
  <2>7. \A r, s \in R : r.sequence = s.sequence => r = s
    <3>1. \A q, o \in AllQueued : q.sequence = o.sequence => q = o
      BY <2>1 DEF Sound, Follows
    <3>2. \A q \in queued, o \in parsing.queued : q.sequence # o.sequence
      BY <2>1 DEF CopySound
    <3>3. \A r \in Relabelled(parsing.queued, p), s \in Relabelled(parsing.queued, p) :
            r.sequence = s.sequence => r = s
      BY <3>1 DEF Relabelled, AllQueued
    <3>4. \A q \in queued, s \in Relabelled(parsing.queued, p) : q.sequence # s.sequence
      BY <3>2 DEF Relabelled
    <3>5. QED
      BY <3>1, <3>3, <3>4 DEF AllQueued
  <2>8. PairLabel(p) # NoId => Hashed(PairLabel(p)) = Hashed(p.label)
    BY HashedTwice DEF PairLabel
  <2>9. \A q \in AllQueued : q.sequence = p.sequence => q.label = p.label
    <3>1. PICK b \in AllQueued : b.sequence = p.sequence /\ b.label = p.label
      BY <2>1, <2>2 DEF Waiting, Sound, Backed
    <3>2. QED
      BY <2>1, <3>1 DEF Sound, Follows
  <2>10. ASSUME NEW q \in AllQueued
         PROVE  \E r \in R :
                  /\ r.key = q.key /\ r.sequence = q.sequence /\ r.at = q.at /\ r.cursor = q.cursor
                  /\ IF q.sequence = p.sequence
                     THEN PairLabel(p) # NoId => Hashed(PairLabel(p)) = Hashed(r.label)
                     ELSE r.label = q.label
    <3>1. CASE q \in queued
      <4>1. q \in R
        BY <3>1
      <4> HIDE DEF R
      <4>2. QED
        BY <2>8, <2>9, <4>1
    <3>2. CASE q \in parsing.queued
      <4>1. PICK r \in Relabelled(parsing.queued, p) :
                 /\ r.key = q.key /\ r.sequence = q.sequence /\ r.at = q.at
                 /\ r.cursor = q.cursor
                 /\ r.label = IF q.sequence = p.sequence THEN PairLabel(p) ELSE q.label
        BY <2>5, <3>2
      <4>2. r \in R
        BY <4>1
      <4> HIDE DEF R
      <4>3. QED
        BY <4>1, <4>2
    <3>3. QED
      BY <3>1, <3>2 DEF AllQueued
  <2> HIDE DEF R
  <2>11. Sound(Answered(state, p), R, AllPaired \cup {n}, c + 1)
    BY <2>1, <2>2, <2>3, <2>6, <2>7, <2>10, AnswerSound, ZenonT(40)
  <2>12. Sound(Answered(state, p), queued \cup Relabelled(parsing.queued, p),
               paired \cup (parsing.paired \cup {n}), cursor + parsing.count + 1)
    <3>1. AllPaired \cup {n} = paired \cup (parsing.paired \cup {n})
      BY DEF AllPaired
    <3>2. QED
      BY <2>11, <3>1 DEF c, R
  <2>13. \A o \in queued, r \in Relabelled(parsing.queued, p) : o.sequence # r.sequence
    BY <2>1 DEF CopySound, Relabelled
  <2>14. QED
    BY <1>1, <1>3, <2>12, <2>13, ParsedInv
<1>4. QED
  BY <1>1, <1>2, <1>3

\* The transaction commits what the copy follows from together with the copy.
LEMMA CommitInv ==
  ASSUME CorrelationInv, CommitExport
  PROVE  CorrelationInv'
<1>1. /\ memory' = parsing.state /\ snapshot' = parsing.state
      /\ cursor' = cursor + Len(parsing.export) /\ paired' = AllPaired /\ queued' = AllQueued
      /\ parsing' = NoExport /\ clock' = clock /\ parsing # NoExport /\ ~Parsing
  BY DEF CommitExport, AllPaired, AllQueued
<1>2. CopySound /\ cursor \in Nat /\ clock \in Nat
  BY <1>1 DEF CorrelationInv
<1>3. parsing.count = Len(parsing.export) /\ Len(parsing.export) \in Nat
  BY <1>1, <1>2, CorrelationAssumption DEF CopySound, Parsing
<1>4. Sound(snapshot', queued', paired', cursor')
  BY <1>1, <1>2, <1>3 DEF CopySound
<1>5. QED
  BY <1>1, <1>2, <1>3, <1>4 DEF CorrelationInv

\* Every action keeps the three states sound: what waits in them is backed by
\* a request, and what was answered was paired in order.
THEOREM CorrelationInductive == CorrelationSpec => []CorrelationInv
<1>1. CorrelationInit => CorrelationInv
  BY InitCorrelation
<1>2. CorrelationInv /\ [CorrelationNext]_correlationVars => CorrelationInv'
  <2> SUFFICES ASSUME CorrelationInv, [CorrelationNext]_correlationVars
               PROVE  CorrelationInv'
    OBVIOUS
  <2>1. CASE \E x \in Exports : Receive(x)
    BY <2>1, ReceiveInv
  <2>2. CASE CorrelateOther
    BY <2>2, SkippedInv DEF CorrelateOther
  <2>3. CASE CorrelateStart
    BY <2>3, StartInv
  <2>4. CASE CorrelateResponse
    BY <2>4, ResponseInv
  <2>5. CASE CommitExport
    BY <2>5, CommitInv
  <2>6. CASE RefuseExport
    BY <2>6 DEF RefuseExport, committed, CorrelationInv
  <2>7. CASE RestartCollector
    <3>1. memory' = Expired(snapshot, clock) /\ parsing' = NoExport
          /\ UNCHANGED <<snapshot, cursor, paired, queued, clock>>
      BY <2>7 DEF RestartCollector
    <3>2. memory'.next = snapshot.next /\ memory'.entries \subseteq snapshot.entries
      BY <3>1, ExpiredFewer
    <3>3. QED
      BY <3>1, <3>2 DEF CorrelationInv
  <2>8. CASE TimePasses
    <3>1. clock' = clock + 1 /\ UNCHANGED <<memory, snapshot, cursor, paired, queued, parsing>>
      BY <2>8 DEF TimePasses, committed
    <3>2. parsing # NoExport => CopySound'
      <4> SUFFICES ASSUME parsing # NoExport PROVE CopySound'
        OBVIOUS
      <4>1. CopySound /\ clock \in Nat
        BY DEF CorrelationInv
      <4>2. parsing.time <= clock'
        BY <3>1, <4>1 DEF CopySound
      <4>3. QED
        BY <3>1, <4>1, <4>2 DEF CopySound, AllQueued, AllPaired
    <3>3. QED
      BY <3>1, <3>2 DEF CorrelationInv
  <2>9. CASE UNCHANGED correlationVars
    BY <2>9 DEF correlationVars, CorrelationInv, CopySound, AllQueued, AllPaired
  <2>10. QED
    BY <2>1, <2>2, <2>3, <2>4, <2>5, <2>6, <2>7, <2>8, <2>9 DEF CorrelationNext
<1>3. QED
  BY <1>1, <1>2, PTL DEF CorrelationSpec

\* For any exports in any order, sent again or refused, over restarts and for
\* every capacity and lifetime, correlate pairs requests and responses right.
THEOREM PairingCorrect == CorrelationSpec => []PairedRight
<1>1. CorrelationInv => PairedRight
  BY DEF CorrelationInv, Sound, Follows, PairedRight
<1>2. QED
  BY <1>1, CorrelationInductive, PTL

\* contains_official_retry keeps every recognisable request to one entry.
THEOREM RetriesRecognised == CorrelationSpec => []RememberedOnce
<1>1. CorrelationInv => RememberedOnce
  BY DEF CorrelationInv, Sound, Good, RememberedOnce
<1>2. QED
  BY <1>1, CorrelationInductive, PTL

----------------------------------------------------------------------------
(* Requests wait until they are due                                        *)

\* Every request of Q waits, was answered, is too old or was pushed out.
Due(state, Q, P) ==
  \A q \in Q :
    \/ \E e \in state.entries : e.sequence = q.sequence /\ ~e.answered
    \/ \E p \in P : p.sequence = q.sequence
    \/ clock - q.at >= Ttl
    \/ state.next - q.sequence > MaxRemembered

DueInv ==
  /\ Due(snapshot, queued, paired) /\ Due(memory, queued, paired)
  /\ parsing # NoExport => Due(parsing.state, AllQueued, AllPaired)

\* The entry that the capacity takes has as many younger ones as there is
\* room for: sequences differ, so they are counted by an interval.
LEMMA KeptDue ==
  ASSUME NEW S, IsFiniteSet(S), NEW next \in Nat,
         \A e \in S : e.sequence \in Nat /\ e.sequence < next,
         \A e, f \in S : e.sequence = f.sequence => e = f,
         NEW e \in S, e \notin Kept(S)
  PROVE  next - e.sequence > MaxRemembered
<1> DEFINE I == e.sequence .. (next - 1)
           f == [x \in S |-> x.sequence]
<1>1. Cardinality(S) > MaxRemembered /\ e = Oldest(S)
  BY KeptSome
<1>2. \A x \in S : e.sequence <= x.sequence
  BY <1>1, OldestOf
<1>3. f \in Injection(S, I)
  <2>1. f \in [S -> I]
    BY <1>2
  <2>2. \A x, y \in S : f[x] = f[y] => x = y
    OBVIOUS
  <2>3. QED
    BY <2>1, <2>2 DEF Injection, IsInjective
<1>4. IsFiniteSet(I) /\ Cardinality(I) = next - e.sequence
  <2>1. e.sequence \in Int /\ next - 1 \in Int /\ e.sequence <= next - 1
    OBVIOUS
  <2>2. QED
    BY <2>1, FS_Interval, SMTT(20)
<1>5. Cardinality(S) <= Cardinality(I)
  <2> HIDE DEF f, I
  <2>1. QED
    BY <1>3, <1>4, FS_Injection
<1>6. Cardinality(S) \in Nat /\ MaxRemembered \in Nat
  BY FS_CardinalityType, CorrelationAssumption
<1>7. QED
  BY <1>1, <1>4, <1>5, <1>6

\* One more entry, which may be a request that begins to wait.
LEMMA RememberedDue ==
  ASSUME NEW state, Good(state), NEW Q, NEW P, Due(state, Q, P),
         \A q \in Q : q.sequence \in Nat,
         NEW key, NEW label, NEW official, NEW answered \in BOOLEAN, NEW time,
         NEW R, \A r \in R : \/ \E q \in Q : r.sequence = q.sequence /\ r.at = q.at
                             \/ r.sequence = state.next /\ ~answered
  PROVE  Due(Remembered(state, key, label, official, answered, time), R, P)
<1> DEFINE new == [key |-> key, label |-> label, official |-> official,
                   answered |-> answered, at |-> time, sequence |-> state.next]
           S == state.entries \cup {new}
           after == Remembered(state, key, label, official, answered, time)
<1>1. new.sequence = state.next /\ new.answered = answered
  OBVIOUS
<1>2. IsFiniteSet(S)
  <2>1. IsFiniteSet(state.entries)
    BY DEF Good
  <2> HIDE DEF new
  <2>2. QED
    BY <2>1, FS_AddElement
<1>3. state.next \in Nat /\ state.next + 1 \in Nat /\ MaxRemembered \in Nat
  BY CorrelationAssumption DEF Good
<1>4. /\ \A e \in S : e.sequence \in Nat /\ e.sequence < state.next + 1
      /\ \A e, f \in S : e.sequence = f.sequence => e = f
  BY <1>1 DEF Good
<1>5. after.entries = Kept(S) /\ after.next = state.next + 1
  BY DEF Remembered
<1>6. new \in S /\ state.entries \subseteq S
  OBVIOUS
<1> HIDE DEF new, S, after
<1>7. ASSUME NEW e \in S, ~e.answered
      PROVE  \/ \E x \in after.entries : x.sequence = e.sequence /\ ~x.answered
             \/ after.next - e.sequence > MaxRemembered
  BY <1>2, <1>3, <1>4, <1>5, <1>7, KeptDue
<1> SUFFICES ASSUME NEW r \in R
             PROVE  \/ \E x \in after.entries : x.sequence = r.sequence /\ ~x.answered
                    \/ \E p \in P : p.sequence = r.sequence
                    \/ clock - r.at >= Ttl
                    \/ after.next - r.sequence > MaxRemembered
  BY DEF Due, after
<1>8. CASE r.sequence = state.next /\ ~answered
  BY <1>1, <1>6, <1>7, <1>8
<1>9. ASSUME NEW q \in Q, r.sequence = q.sequence, r.at = q.at
      PROVE  \/ \E x \in after.entries : x.sequence = r.sequence /\ ~x.answered
             \/ \E p \in P : p.sequence = r.sequence
             \/ clock - r.at >= Ttl
             \/ after.next - r.sequence > MaxRemembered
  <2>1. CASE \E e \in state.entries : e.sequence = q.sequence /\ ~e.answered
    BY <1>6, <1>7, <1>9, <2>1
  <2>2. CASE \E p \in P : p.sequence = q.sequence
    BY <1>9, <2>2
  <2>3. CASE clock - q.at >= Ttl
    BY <1>9, <2>3
  <2>4. CASE state.next - q.sequence > MaxRemembered
    BY <1>3, <1>5, <1>9, <2>4
  <2>5. QED
    BY <2>1, <2>2, <2>3, <2>4 DEF Due
<1>10. QED
  BY <1>8, <1>9

\* Entries that are too old may go.
LEMMA ExpiredDue ==
  ASSUME NEW state, NEW Q, NEW P, NEW c, Sound(state, Q, P, c), clock \in Nat,
         Due(state, Q, P)
  PROVE  Due(Expired(state, clock), Q, P)
<1> DEFINE after == Expired(state, clock)
<1>1. after.next = state.next /\ after.entries = {e \in state.entries : clock - e.at < Ttl}
  BY DEF Expired
<1>2. Ttl \in Nat
  BY CorrelationAssumption
<1> HIDE DEF after
<1> SUFFICES ASSUME NEW q \in Q
             PROVE  \/ \E x \in after.entries : x.sequence = q.sequence /\ ~x.answered
                    \/ \E p \in P : p.sequence = q.sequence
                    \/ clock - q.at >= Ttl
                    \/ after.next - q.sequence > MaxRemembered
  BY DEF Due, after
<1>3. ASSUME NEW e \in state.entries, e.sequence = q.sequence, ~e.answered, ~(clock - e.at < Ttl)
      PROVE  clock - q.at >= Ttl
  <2>1. PICK b \in Q : b.sequence = e.sequence /\ b.at = e.at
    BY <1>3 DEF Sound, Backed
  <2>2. b = q
    BY <1>3, <2>1 DEF Sound, Follows
  <2>3. e.at \in Nat
    BY DEF Sound, Good
  <2>4. QED
    BY <1>2, <1>3, <2>1, <2>2, <2>3
<1>4. CASE \E e \in state.entries : e.sequence = q.sequence /\ ~e.answered
  BY <1>1, <1>3, <1>4
<1>5. CASE ~ \E e \in state.entries : e.sequence = q.sequence /\ ~e.answered
  BY <1>1, <1>5 DEF Due
<1>6. QED
  BY <1>4, <1>5

\* Time makes nothing undue.
LEMMA LaterDue ==
  ASSUME NEW state, NEW Q, NEW P, Due(state, Q, P), clock \in Nat, clock' = clock + 1,
         \A q \in Q : q.at \in Nat
  PROVE  \A q \in Q :
    \/ \E e \in state.entries : e.sequence = q.sequence /\ ~e.answered
    \/ \E p \in P : p.sequence = q.sequence
    \/ clock' - q.at >= Ttl
    \/ state.next - q.sequence > MaxRemembered
<1>1. Ttl \in Nat
  BY CorrelationAssumption
<1>2. \A q \in Q : clock - q.at >= Ttl => clock' - q.at >= Ttl
  BY <1>1
<1>3. QED
  BY <1>2 DEF Due

\* A step of parsing for which the copy is due.
LEMMA ParsedDue ==
  ASSUME DueInv, NEW state, NEW P, NEW Q, Parsed(state, P, Q),
         UNCHANGED <<committed, clock, deliveries>>,
         Due(state, queued \cup Q, paired \cup P)
  PROVE  DueInv'
<1>1. UNCHANGED <<memory, snapshot, paired, queued, clock>>
  BY DEF committed
<1>2. parsing'.state = state /\ parsing'.paired = P /\ parsing'.queued = Q
  BY DEF Parsed
<1>3. QED
  BY <1>1, <1>2 DEF DueInv, Due, AllQueued, AllPaired

\* A record without effect makes no request leave.
LEMMA SkippedDue ==
  ASSUME DueInv, Parsing, Skipped, UNCHANGED <<committed, clock, deliveries>>
  PROVE  DueInv'
<1>1. Due(parsing.state, queued \cup parsing.queued, paired \cup parsing.paired)
  BY DEF DueInv, Parsing, AllQueued, AllPaired
<1>2. QED
  BY <1>1, ParsedDue DEF Skipped

\* A new request pushes out only what is due or crowded out.
LEMMA StartDue ==
  ASSUME CorrelationInv, DueInv, CorrelateStart
  PROVE  DueInv'
<1> DEFINE official == Record.id # NoId
           state == parsing.state
           q == [key |-> Record.key, sequence |-> state.next, label |-> Label,
                 at |-> parsing.time, cursor |-> Cursor]
           after == Remembered(state, Record.key, Label, official, FALSE, parsing.time)
<1>1. /\ Parsing /\ UNCHANGED <<committed, clock, deliveries>>
      /\ \/ Parsed(after, parsing.paired, parsing.queued \cup {q})
         \/ Skipped
  BY DEF CorrelateStart
<1>2. CASE Skipped
  BY <1>1, <1>2, SkippedDue
<1>3. CASE Parsed(after, parsing.paired, parsing.queued \cup {q})
  <2>1. /\ Good(state) /\ Due(state, AllQueued, AllPaired)
        /\ \A r \in AllQueued : r.sequence \in Nat
    BY <1>1 DEF CorrelationInv, CopySound, Parsing, DueInv, Sound, Follows
  <2>2. q.sequence = state.next
    OBVIOUS
  <2> HIDE DEF q
  <2>3. \A r \in AllQueued \cup {q} :
          \/ \E o \in AllQueued : r.sequence = o.sequence /\ r.at = o.at
          \/ r.sequence = state.next /\ ~FALSE
    BY <2>2
  <2>4. Due(after, AllQueued \cup {q}, AllPaired)
    BY <2>1, <2>3, RememberedDue
  <2> HIDE DEF after
  <2>5. Due(after, queued \cup (parsing.queued \cup {q}), paired \cup parsing.paired)
    BY <2>4 DEF Due, AllQueued, AllPaired
  <2>6. QED
    BY <1>1, <1>3, <2>5, ParsedDue
<1>4. QED
  BY <1>1, <1>2, <1>3

\* A response answers the request it takes; the others wait on.
LEMMA ResponseDue ==
  ASSUME CorrelationInv, DueInv, CorrelateResponse
  PROVE  DueInv'
<1> DEFINE state == parsing.state
           waiting == Waiting(state, Record.key)
           p == Oldest(waiting)
           n == [key |-> Record.key, sequence |-> p.sequence, label |-> PairLabel(p),
                 cursor |-> Cursor]
           left == [entries |-> state.entries \ {p}, next |-> state.next]
           R == queued \cup Relabelled(parsing.queued, p)
           after == Answered(state, p)
<1>1. /\ Parsing /\ UNCHANGED <<committed, clock, deliveries>>
      /\ \/ Parsed(after, parsing.paired \cup {n}, Relabelled(parsing.queued, p))
         \/ Skipped
  BY DEF CorrelateResponse
<1>2. CASE Skipped
  BY <1>1, <1>2, SkippedDue
<1>3. CASE Parsed(after, parsing.paired \cup {n}, Relabelled(parsing.queued, p))
  <2>1. /\ Good(state) /\ Due(state, AllQueued, AllPaired)
        /\ \A r \in AllQueued : r.sequence \in Nat
    BY <1>1 DEF CorrelationInv, CopySound, Parsing, DueInv, Sound, Follows
  <2>2. n.sequence = p.sequence
    OBVIOUS
  <2>3. left.next = state.next /\ left.entries = state.entries \ {p}
    OBVIOUS
  <2>4. after = IF p.official THEN Remembered(left, p.key, p.label, TRUE, TRUE, parsing.time)
                ELSE left
    BY DEF Answered
  <2> HIDE DEF n, left, after, p
  <2>5. \A r \in R : \E q \in AllQueued : r.sequence = q.sequence /\ r.at = q.at
    BY DEF Relabelled, AllQueued
  <2>6. \A r \in R : r.sequence \in Nat
    BY <2>1, <2>5
  <2> HIDE DEF R
  <2>7. Due(left, R, AllPaired \cup {n})
    <3> SUFFICES ASSUME NEW r \in R
                 PROVE  \/ \E e \in left.entries : e.sequence = r.sequence /\ ~e.answered
                        \/ \E x \in AllPaired \cup {n} : x.sequence = r.sequence
                        \/ clock - r.at >= Ttl
                        \/ left.next - r.sequence > MaxRemembered
      BY DEF Due
    <3>1. PICK q \in AllQueued : r.sequence = q.sequence /\ r.at = q.at
      BY <2>5
    <3>2. \/ \E e \in state.entries : e.sequence = q.sequence /\ ~e.answered
          \/ \E x \in AllPaired : x.sequence = q.sequence
          \/ clock - q.at >= Ttl
          \/ state.next - q.sequence > MaxRemembered
      BY <2>1 DEF Due
    <3>3. QED
      BY <2>2, <2>3, <3>1, <3>2
  <2>8. Good(left)
    BY <2>1, <2>3, FewerGood
  <2>9. Due(after, R, AllPaired \cup {n})
    <3>1. \A r \in R : \/ \E q \in R : r.sequence = q.sequence /\ r.at = q.at
                       \/ r.sequence = left.next /\ ~TRUE
      OBVIOUS
    <3>2. Due(Remembered(left, p.key, p.label, TRUE, TRUE, parsing.time), R, AllPaired \cup {n})
      BY <2>6, <2>7, <2>8, <3>1, RememberedDue
    <3>3. QED
      BY <2>4, <2>7, <3>2
  <2>10. Due(after, queued \cup Relabelled(parsing.queued, p), paired \cup (parsing.paired \cup {n}))
    BY <2>9 DEF Due, R, AllPaired
  <2>11. QED
    BY <1>1, <1>3, <2>10, ParsedDue
<1>4. QED
  BY <1>1, <1>2, <1>3

\* No refused export, restart or answer to another request loses a request:
\* for every capacity and lifetime it waits until it is due.
THEOREM RequestsWait == CorrelationSpec => []WaitsUntilDue
<1>1. CorrelationInit => DueInv
  BY DEF CorrelationInit, DueInv, Due
<1>2. CorrelationInv /\ DueInv /\ [CorrelationNext]_correlationVars => DueInv'
  <2> SUFFICES ASSUME CorrelationInv, DueInv, [CorrelationNext]_correlationVars
               PROVE  DueInv'
    OBVIOUS
  <2>1. ASSUME NEW x \in Exports, Receive(x)
        PROVE  DueInv'
    <3>1. UNCHANGED <<memory, snapshot, paired, queued, clock>>
      BY <2>1 DEF Receive, committed
    <3>2. /\ parsing'.state = Expired(memory, clock)
          /\ parsing'.paired = {} /\ parsing'.queued = {}
      BY <2>1 DEF Receive
    <3>3. Sound(memory, queued, paired, cursor)
      BY FewerSound DEF CorrelationInv
    <3>4. Due(Expired(memory, clock), queued, paired)
      BY <3>3, ExpiredDue DEF CorrelationInv, DueInv
    <3>5. QED
      BY <3>1, <3>2, <3>4 DEF DueInv, Due, AllQueued, AllPaired
  <2>2. CASE CorrelateOther
    BY <2>2, SkippedDue DEF CorrelateOther
  <2>3. CASE CorrelateStart
    BY <2>3, StartDue
  <2>4. CASE CorrelateResponse
    BY <2>4, ResponseDue
  <2>5. CASE CommitExport
    <3>1. /\ memory' = parsing.state /\ snapshot' = parsing.state
          /\ paired' = AllPaired /\ queued' = AllQueued
          /\ parsing' = NoExport /\ clock' = clock /\ parsing # NoExport
      BY <2>5 DEF CommitExport, AllPaired, AllQueued
    <3>2. QED
      BY <3>1 DEF DueInv, Due
  <2>6. CASE RefuseExport
    BY <2>6 DEF RefuseExport, committed, DueInv, Due
  <2>7. CASE RestartCollector
    <3>1. memory' = Expired(snapshot, clock) /\ parsing' = NoExport
          /\ UNCHANGED <<snapshot, paired, queued, clock>>
      BY <2>7 DEF RestartCollector
    <3>2. Due(Expired(snapshot, clock), queued, paired)
      BY ExpiredDue DEF CorrelationInv, DueInv
    <3>3. QED
      BY <3>1, <3>2 DEF DueInv, Due
  <2>8. CASE TimePasses
    <3>1. clock' = clock + 1 /\ UNCHANGED <<memory, snapshot, paired, queued, parsing>>
      BY <2>8 DEF TimePasses, committed
    <3>2. clock \in Nat /\ \A q \in queued : q.at \in Nat
      BY DEF CorrelationInv, Sound, Follows
    <3>3. Due(snapshot, queued, paired)' /\ Due(memory, queued, paired)'
      BY <3>1, <3>2, LaterDue DEF DueInv, Due
    <3>4. parsing # NoExport => Due(parsing.state, AllQueued, AllPaired)'
      <4> SUFFICES ASSUME parsing # NoExport PROVE Due(parsing.state, AllQueued, AllPaired)'
        OBVIOUS
      <4>1. \A q \in AllQueued : q.at \in Nat
        BY DEF CorrelationInv, CopySound, Sound, Follows
      <4>2. AllQueued' = AllQueued /\ AllPaired' = AllPaired
        BY <3>1 DEF AllQueued, AllPaired
      <4>3. Due(parsing.state, AllQueued, AllPaired)
        BY DEF DueInv
      <4>4. QED
        BY <3>1, <3>2, <4>1, <4>2, <4>3, LaterDue DEF Due
    <3>5. QED
      BY <3>1, <3>3, <3>4 DEF DueInv
  <2>9. CASE UNCHANGED correlationVars
    BY <2>9 DEF correlationVars, DueInv, Due, AllQueued, AllPaired
  <2>10. QED
    BY <2>1, <2>2, <2>3, <2>4, <2>5, <2>6, <2>7, <2>8, <2>9 DEF CorrelationNext
<1>3. DueInv => WaitsUntilDue
  BY DEF DueInv, Due, WaitsUntilDue
<1>4. QED
  BY <1>1, <1>2, <1>3, CorrelationInductive, PTL DEF CorrelationSpec
==============================================================================
