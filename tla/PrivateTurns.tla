---------------------------- MODULE PrivateTurns ----------------------------
(***************************************************************************)
(* The private details of Codex turns: one file with the content of a turn *)
(* and one, in another directory, with the outcome of its capture. A       *)
(* detail is shown while its status is "ok". Both directories are pruned   *)
(* by age and by number, each by the times of its own files; maintenance   *)
(* then removes the details whose status does not (or no longer) allow     *)
(* them.                                                                   *)
(*                                                                         *)
(* Captures and maintenance hold the mutation lock, so that one of them is *)
(* at work at a time, in job; any step of it may fail half way and the     *)
(* process may end after any. A capture's number stands for the            *)
(* modification times it leaves behind.                                    *)
(***************************************************************************)
EXTENDS Integers, FiniteSets, Sequences

CONSTANTS
  Turns, Contents,
  MaxFiles,        \* MAX_PRIVATE_TURN_DETAIL_FILES
  MaxAge,          \* private_raw_days or max_record_age_days
  NoTurn, NoDetail, NoJob,
  MaxCaptures,     \* bound: captures
  MaxToday         \* bound: time

VARIABLES
  details,         \* private-turn-details: turn to [content, stamp, day]
  statuses,        \* their status files: turn to [code, stamp, day]
  job,             \* what the holder of the mutation lock is doing
  captures,        \* the captures so far: [turn, failed]
  acknowledged,    \* [turn, content, stamp, day] of the details a status promised
  misread,         \* <<turn, stamp>> of the details removed for an unreadable status
  today

turnVars == <<details, statuses, job, captures, acknowledged, misread, today>>

ASSUME TurnsAssumption ==
  /\ MaxFiles \in Nat \ {0} /\ MaxAge \in Nat
  /\ MaxCaptures \in Nat /\ MaxToday \in Nat

(* The two kinds of files, and the holder of the mutation lock.            *)
DetailFiles == [content: Contents, stamp: Nat, day: Nat]
StatusFiles == [code: {"ok", "failed"}, stamp: Nat, day: Nat]
Jobs == [turn: Turns \cup {NoTurn}, content: Contents \cup {NoDetail},
         step: {"check", "prune", "publish", "sweep", "status", "statuses", "pairs"},
         code: {"ok", "failed"}]

ASSUME TurnSentinelAssumption ==
  /\ NoTurn \notin Turns /\ NoJob \notin Jobs
  /\ NoDetail \notin DetailFiles /\ NoDetail \notin StatusFiles

TurnsInit ==
  /\ details = [t \in Turns |-> NoDetail]
  /\ statuses = [t \in Turns |-> NoDetail]
  /\ job = NoJob /\ captures = <<>> /\ acknowledged = {}
  /\ misread = {} /\ today = 0

----------------------------------------------------------------------------
(* Files                                                                   *)

Stored(files) == {t \in Turns : files[t] # NoDetail}
Newer(files, S, t) == {u \in S : files[u].stamp > files[t].stamp}
TooOld(files, t) == today - files[t].day > MaxAge

(* Mutant: the oldest are kept.                                            *)
PrunedNewest(files, replacement) ==
  LET others == Stored(files) \ {replacement}
      young == {t \in others : ~TooOld(files, t)}
      room == IF replacement = NoTurn THEN MaxFiles ELSE MaxFiles - 1
  IN {t \in others : TooOld(files, t)
                     \/ Cardinality(young \ (Newer(files, young, t) \cup {t})) >= room}
\* prune_private_turn_files_with_limit: what it would remove
Pruned(files, replacement) ==
  LET others == Stored(files) \ {replacement}
      young == {t \in others : ~TooOld(files, t)}
      room == IF replacement = NoTurn THEN MaxFiles ELSE MaxFiles - 1
  IN {t \in others : TooOld(files, t) \/ Cardinality(Newer(files, young, t)) >= room}

Without(files, S) == [t \in Turns |-> IF t \in S THEN NoDetail ELSE files[t]]

\* read_private_turn_detail_status
Allowed(t) == statuses[t] # NoDetail /\ statuses[t].code = "ok"
\* lookup_private_turn_detail
Available(t) == IF details[t] # NoDetail /\ Allowed(t) THEN details[t].content ELSE NoDetail

----------------------------------------------------------------------------
(* A capture                                                               *)

Stamp == Len(captures)
JobAt(step) == job # NoJob /\ job.step = step
JobGoes(step, code) ==
  job' = [turn |-> job.turn, content |-> job.content, step |-> step, code |-> code]
Ends == job' = NoJob

CaptureBegin(t, c) ==
  /\ job = NoJob
  /\ Len(captures) < MaxCaptures
  /\ captures' = Append(captures, [turn |-> t, failed |-> FALSE])
  /\ job' = [turn |-> t, content |-> c, step |-> "check", code |-> "ok"]
  /\ UNCHANGED <<details, statuses, acknowledged, misread, today>>

\* A turn that has a detail keeps it: the same again is a success, another
\* one a conflict. Every failure has a code of its own, all treated alike.
CaptureCheck ==
  /\ JobAt("check")
  /\ \/ details[job.turn] = NoDetail /\ JobGoes("prune", "ok")
     \/ /\ details[job.turn] # NoDetail /\ details[job.turn].content = job.content
        /\ JobGoes("sweep", "ok")
     \/ JobGoes("sweep", "failed")
  /\ UNCHANGED <<details, statuses, captures, acknowledged, misread, today>>

CapturePrune ==
  /\ JobAt("prune")
  /\ \E S \in SUBSET Pruned(details, job.turn) :
       /\ details' = Without(details, S)
       /\ \/ S = Pruned(details, job.turn) /\ JobGoes("publish", "ok")
          \/ JobGoes("sweep", "failed")
  /\ UNCHANGED <<statuses, captures, acknowledged, misread, today>>

\* RuntimeControl::admit may deny it; the file is renamed into place, and an
\* error may come before or after that.
CapturePublish ==
  /\ JobAt("publish")
  /\ \/ /\ details' = [details EXCEPT ![job.turn] =
                         [content |-> job.content, stamp |-> Stamp, day |-> today]]
        /\ JobGoes("sweep", "ok") \/ JobGoes("sweep", "failed")
     \/ details' = details /\ JobGoes("sweep", "failed")
  /\ UNCHANGED <<statuses, captures, acknowledged, misread, today>>

\* write_private_turn_detail_status_locked: an error in it ends the capture.
StatusPrune ==
  /\ JobAt("sweep")
  /\ \E S \in SUBSET Pruned(statuses, job.turn) :
       /\ statuses' = Without(statuses, S)
       /\ \/ S = Pruned(statuses, job.turn) /\ JobGoes("status", job.code)
          \/ Ends
  /\ UNCHANGED <<details, captures, acknowledged, misread, today>>

\* Whether or not an error follows and the receipt arrives, the status has
\* promised the detail.
StatusWrite ==
  /\ JobAt("status")
  /\ statuses' = [statuses EXCEPT ![job.turn] =
                    [code |-> job.code, stamp |-> Stamp, day |-> today]]
  /\ captures' = [captures EXCEPT ![Stamp].failed = job.code # "ok"]
  /\ acknowledged' =
       IF job.code # "ok"
       THEN acknowledged
       ELSE acknowledged \cup
              {[turn |-> job.turn, content |-> job.content,
                stamp |-> details[job.turn].stamp, day |-> details[job.turn].day]}
  /\ Ends
  /\ UNCHANGED <<details, misread, today>>

----------------------------------------------------------------------------
(* Maintenance: when the collector starts, at every pass of the lifecycle  *)
(* watch and after a retention                                             *)

Maintenance(step) == [turn |-> NoTurn, content |-> NoDetail, step |-> step, code |-> "ok"]

MaintainDetails ==
  /\ job = NoJob
  /\ \E S \in SUBSET Pruned(details, NoTurn) :
       /\ details' = Without(details, S)
       /\ \/ S = Pruned(details, NoTurn) /\ job' = Maintenance("statuses")
          \/ Ends
  /\ UNCHANGED <<statuses, captures, acknowledged, misread, today>>

MaintainStatuses ==
  /\ JobAt("statuses")
  /\ \E S \in SUBSET Pruned(statuses, NoTurn) :
       /\ statuses' = Without(statuses, S)
       /\ \/ S = Pruned(statuses, NoTurn) /\ job' = Maintenance("pairs")
          \/ Ends
  /\ UNCHANGED <<details, captures, acknowledged, misread, today>>

\* A status that cannot be read counts as one that does not allow the detail.
ReconcilePairs ==
  /\ JobAt("pairs")
  /\ \E S \in SUBSET Stored(details) :
       /\ details' = Without(details, S)
       /\ misread' = misread \cup {<<t, details[t].stamp>> : t \in {u \in S : Allowed(u)}}
  /\ Ends
  /\ UNCHANGED <<statuses, captures, acknowledged, today>>

----------------------------------------------------------------------------
CrashOfJob ==
  /\ job # NoJob /\ Ends
  /\ UNCHANGED <<details, statuses, captures, acknowledged, misread, today>>

DayPasses ==
  /\ today < MaxToday /\ today' = today + 1
  /\ UNCHANGED <<details, statuses, job, captures, acknowledged, misread>>

TurnsNext ==
  \/ \E t \in Turns, c \in Contents : CaptureBegin(t, c)
  \/ CaptureCheck \/ CapturePrune \/ CapturePublish
  \/ StatusPrune \/ StatusWrite
  \/ MaintainDetails \/ MaintainStatuses \/ ReconcilePairs
  \/ CrashOfJob \/ DayPasses

TurnsSpec == TurnsInit /\ [][TurnsNext]_turnVars

----------------------------------------------------------------------------
\* A detail that a status promised is shown, with its content, until it is
\* too old, as many other turns were captured since as there is room for, a
\* later capture of the same turn reported a failure, or maintenance could
\* not read its status and removed it. The two directories
\* are pruned apart, at different times and each by its own dates, and yet
\* no failure, crash or order of the passes separates a detail from its
\* status.
ShownUntilDue ==
  \A a \in acknowledged :
    LET since == (a.stamp + 1) .. Len(captures)
    IN \/ Available(a.turn) = a.content
       \/ today - a.day > MaxAge
       \/ Cardinality({captures[i].turn : i \in since} \ {a.turn}) >= MaxFiles
       \/ \E i \in since : captures[i].turn = a.turn /\ captures[i].failed
       \/ <<a.turn, a.stamp>> \in misread
=============================================================================
