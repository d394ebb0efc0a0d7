---------------------------- MODULE CodexConfig ----------------------------
(***************************************************************************)
(* Ownership of the user's Codex configuration file, as                    *)
(* CodexConfigManager keeps it. connect, disconnect and status run under   *)
(* one lock beside the configuration; each is a sequence of atomic file    *)
(* replacements, and the process may fail or die before or after any of    *)
(* them. The user edits the file without the lock, so a replacement first  *)
(* compares the file with what the call read. The comparison and the       *)
(* rename that follows it are one step here: the code says itself that     *)
(* nothing can exclude a foreign write in the interval between the two.    *)
(* Every runtime keeps its own snapshot of what it changed.                *)
(*                                                                         *)
(* A file is a record of what the code tells apart: the notify command,    *)
(* the exporter (standing for the three owned otel keys), what else the    *)
(* otel table holds, and everything else. A managed value is the runtime   *)
(* and the version of its settings. "mine" is the file as it would be if   *)
(* only the user had ever written it.                                      *)
(***************************************************************************)
EXTENDS Integers, FiniteSets

CONSTANTS
  Runtimes,   \* runtime roots, each with a state directory of its own
  Versions,   \* port, certificate and token of a runtime's collector
  Extras,     \* what the user may have in the rest of the file
  Originals,  \* the files a user may begin with
  NoItem, Theirs, Malformed,   \* a missing key; a value of the user's
  NoFile, NoSnapshot, NoOp, NoVersion,
  MaxEdits    \* bound: how often the user writes

VARIABLES
  config,     \* the configuration file
  mine,
  snapshots,  \* of every runtime: the ownership snapshot
  op,         \* the call that holds the lock
  edits,      \* how often the user has written
  edited      \* runtimes whose snapshot is older than an edit of the user's

configVars == <<config, mine, snapshots, op, edits, edited>>
user == <<edits, edited>>

Managed == Runtimes \X Versions
Doc == [notify : Managed \cup {NoItem, Theirs, Malformed},
        exporter : Managed \cup {NoItem, Theirs},
        otel : {"absent", "bare", "more"}, extra : Extras]
Empty == [notify |-> NoItem, exporter |-> NoItem, otel |-> "absent",
          extra |-> CHOOSE e \in Extras : TRUE]

Files == Doc \cup {NoFile}
Snapshots ==
  [phase : {"prepared", "connected", "rotating", "restoring"}, prior : Files, connected : Doc,
   owns : BOOLEAN, version : Versions, pending : Files, next : Versions \cup {NoVersion}]
Ops ==
  [runtime : Runtimes, call : {"connect", "disconnect", "status"},
   version : Versions \cup {NoVersion}, file : Snapshots \cup {NoSnapshot},
   step : {"fresh", "claim", "apply", "undo", "settle", "discard", "rebase", "rotate", "swap",
           "finish", "restoring", "restore", "recheck", "drop"}]

\* The sentinels are no values, and the user begins with a file of the kind
\* the code can parse.
ASSUME ConfigConstants ==
  /\ Extras # {} /\ Originals \subseteq Files
  /\ NoItem \notin Managed /\ Theirs \notin Managed /\ Malformed \notin Managed
  /\ NoItem # Theirs /\ NoItem # Malformed
  /\ NoFile \notin Doc /\ NoVersion \notin Versions
  /\ NoSnapshot \notin Snapshots /\ NoOp \notin Ops

Parse(file) == IF file = NoFile THEN Empty ELSE file

ConfigInit ==
  /\ config \in Originals /\ mine = config
  /\ snapshots = [r \in Runtimes |-> NoSnapshot]
  /\ op = NoOp /\ edits = 0 /\ edited = {}

----------------------------------------------------------------------------
(* Documents                                                               *)

ManagedConflict(d, m) ==
  d.notify = Malformed \/ d.exporter \notin {NoItem, m}

MayOwnNotify(d, m) == d.notify \in {NoItem, m}

\* patch_managed_values, replace_managed_values
WithManaged(d, m, owns) ==
  [d EXCEPT !.notify = IF owns THEN m ELSE @,
            !.otel = IF @ = "absent" THEN "bare" ELSE @,
            !.exporter = m]

OwnedValuesMatch(current, connected, owns) ==
  /\ IF owns THEN current.notify = connected.notify ELSE current.notify # Malformed
  /\ current.exporter = connected.exporter

\* An otel table that holds nothing any more is removed.
RestoreOwned(target, prior, owns) ==
  [target EXCEPT
     !.notify = IF owns THEN prior.notify ELSE @,
     !.exporter = prior.exporter,
     !.otel = IF @ = "bare" /\ prior.exporter = NoItem THEN "absent" ELSE @]

----------------------------------------------------------------------------
(* Snapshots: [phase, prior, connected, owns, version, pending, next]      *)

SnapshotState(s) ==
  CASE s.phase = "prepared" /\ config = s.prior      -> "prepared_prior"
    [] s.phase = "restoring" /\ config = s.prior     -> "restored_prior"
    [] s.phase = "rotating" /\ config = s.connected  -> "rotation_prepared"
    [] s.phase = "rotating" /\ config = s.pending
         /\ config # s.connected                      -> "rotation_applied"
    [] s.phase # "rotating" /\ config = s.connected
         /\ ~(s.phase \in {"prepared", "restoring"} /\ config = s.prior) -> "connected"
    [] OTHER -> "conflict"

\* A manager without settings accepts every version.
Fits(version, v) == v = NoVersion \/ version = v

(* Mutant: the new values count as connected before they are written.      *)
RotatingAtOnce(s, r, v) ==
  [s EXCEPT !.connected = WithManaged(s.connected, <<r, v>>, s.owns), !.version = v]
Rotating(s, r, v) ==
  [s EXCEPT !.phase = "rotating", !.next = v,
            !.pending = WithManaged(s.connected, <<r, v>>, s.owns)]

Rotated(s) ==
  [s EXCEPT !.phase = "connected", !.connected = s.pending, !.version = s.next,
            !.pending = NoFile, !.next = NoVersion]

Rebased(s) ==
  [s EXCEPT !.connected = config,
            !.prior = RestoreOwned(config, Parse(s.prior), s.owns)]

Rebases(s) ==
  /\ SnapshotState(s) = "conflict" /\ s.phase = "connected"
  /\ config # NoFile /\ OwnedValuesMatch(config, s.connected, s.owns)

----------------------------------------------------------------------------
(* Calls. "step" names the next change the call makes.                     *)

Snapshot == snapshots[op.runtime]
Goto(step) == op' = [op EXCEPT !.step = step]
Return == op' = NoOp
Recorded(file) ==
  edited' = IF config = file THEN edited \ {op.runtime} ELSE edited \cup {op.runtime}
Write(s) == snapshots' = [snapshots EXCEPT ![op.runtime] = s]

\* finish_rotation
FinishStep(state) ==
  CASE state = "rotation_prepared" -> "swap"
    [] state = "rotation_applied"  -> "finish"
    [] OTHER                       -> "return"

ConnectStep(s, v) ==
  LET state == SnapshotState(s)
  IN IF Rebases(s) THEN "rebase"
     ELSE IF s.phase = "rotating" THEN IF s.next = v THEN FinishStep(state) ELSE "return"
     ELSE IF s.version # v THEN IF state = "connected" THEN "rotate" ELSE "return"
     ELSE CASE state \in {"prepared_prior", "restored_prior"}  -> "discard"
            [] state = "connected" /\ s.phase # "connected"    -> "settle"
            [] OTHER                                           -> "return"

\* disconnect and status agree up to a connected file.
ReleaseStep(call, s, v) ==
  LET state == SnapshotState(s)
  IN IF s.phase = "rotating" THEN IF Fits(s.next, v) THEN FinishStep(state) ELSE "return"
     ELSE IF ~Fits(s.version, v) THEN "return"
     ELSE CASE state \in {"prepared_prior", "restored_prior"} -> "discard"
            [] state = "connected" /\ call = "disconnect"     ->
                 IF s.phase = "restoring" THEN "restore" ELSE "restoring"
            [] state = "connected" /\ call = "status" /\ s.phase # "connected" -> "settle"
            [] OTHER -> "return"

Call(r, call, v) ==
  /\ op = NoOp
  /\ call = "connect" => v # NoVersion
  /\ LET s == snapshots[r]
         step == IF s = NoSnapshot
                 THEN IF call = "connect" THEN "fresh" ELSE "return"
                 ELSE IF call = "connect" THEN ConnectStep(s, v) ELSE ReleaseStep(call, s, v)
     IN IF step = "return"
        THEN UNCHANGED op
        ELSE op' = [runtime |-> r, call |-> call, version |-> v, step |-> step,
                    file |-> IF step = "rebase" THEN Rebased(s) ELSE NoSnapshot]
  /\ UNCHANGED <<config, mine, snapshots, user>>

At(step) == op # NoOp /\ op.step = step

\* The file is read, and the snapshot that claims it is made up.
ConnectFresh ==
  /\ At("fresh")
  /\ LET m == <<op.runtime, op.version>>
         d == Parse(config)
         owns == MayOwnNotify(d, m)
         connected == WithManaged(d, m, owns)
     IN IF ManagedConflict(d, m)
        THEN Return
        ELSE op' = [op EXCEPT !.step = "claim",
               !.file = [phase |-> IF config = connected THEN "connected" ELSE "prepared",
                         prior |-> config, connected |-> connected, owns |-> owns,
                         version |-> op.version, pending |-> NoFile, next |-> NoVersion]]
  /\ UNCHANGED <<config, mine, snapshots, user>>

ConnectClaim ==
  /\ At("claim")
  /\ Write(op.file)
  /\ IF op.file.phase = "connected" THEN Return ELSE Goto("apply") \/ Return
  /\ Recorded(op.file.prior)
  /\ UNCHANGED <<config, mine, edits>>

(* Mutant: the file is replaced whatever it holds.                         *)
ApplyBlindly ==
  /\ At("apply")
  /\ \/ /\ config' = Snapshot.connected
        /\ Goto("settle") \/ Goto("undo") \/ Return
     \/ Goto("undo") /\ UNCHANGED config
  /\ UNCHANGED <<mine, snapshots, user>>
ConnectApply ==
  /\ At("apply")
  /\ \/ /\ config = Snapshot.prior
        /\ config' = Snapshot.connected
        /\ Goto("settle") \/ Goto("undo") \/ Return
     \/ Goto("undo") /\ UNCHANGED config
  /\ UNCHANGED <<mine, snapshots, user>>

\* A failed replacement: the claim is withdrawn if the file is untouched.
ConnectUndo ==
  /\ At("undo")
  /\ Return
  /\ IF SnapshotState(Snapshot) = "prepared_prior" THEN Write(NoSnapshot) ELSE UNCHANGED snapshots
  /\ UNCHANGED <<config, mine, user>>

Settle ==
  /\ At("settle")
  /\ Write([Snapshot EXCEPT !.phase = "connected"])
  /\ Return
  /\ UNCHANGED <<config, mine, user>>

\* A claim that was never applied, or a restored file.
Discard ==
  /\ At("discard")
  /\ Write(NoSnapshot)
  /\ IF op.call = "connect" THEN Goto("fresh") \/ Return ELSE Return
  /\ UNCHANGED <<config, mine, user>>

\* rebase_unowned_edits writes the snapshot, never the file.
ConnectRebase ==
  /\ At("rebase")
  /\ Write(op.file)
  /\ \/ op.file.version # op.version /\ Goto("rotate")
     \/ Return
  /\ Recorded(op.file.connected)
  /\ UNCHANGED <<config, mine, edits>>

Rotate ==
  /\ At("rotate")
  /\ Write(Rotating(Snapshot, op.runtime, op.version))
  /\ Goto("swap") \/ Return
  /\ UNCHANGED <<config, mine, user>>

Swap ==
  /\ At("swap")
  /\ config = Snapshot.connected
  /\ config' = Snapshot.pending
  /\ Goto("finish") \/ Return
  /\ UNCHANGED <<mine, snapshots, user>>

FinishRotation ==
  /\ At("finish")
  /\ Write(Rotated(Snapshot))
  /\ IF op.call = "disconnect" THEN Goto("restoring") \/ Return ELSE Return
  /\ UNCHANGED <<config, mine, user>>

(* Mutant: the snapshot goes before the file is restored.                  *)
RestoringEarly ==
  /\ At("restoring")
  /\ Write(NoSnapshot)
  /\ Return
  /\ UNCHANGED <<config, mine, user>>
DisconnectRestoring ==
  /\ At("restoring")
  /\ Write([Snapshot EXCEPT !.phase = "restoring"])
  /\ Goto("restore") \/ Return
  /\ UNCHANGED <<config, mine, user>>

DisconnectRestore ==
  /\ At("restore")
  /\ \/ /\ config = Snapshot.connected
        /\ config' = Snapshot.prior
        /\ Goto("drop") \/ Goto("recheck") \/ Return
     \/ Goto("recheck") /\ UNCHANGED config
  /\ UNCHANGED <<mine, snapshots, user>>

DisconnectRecheck ==
  /\ At("recheck")
  /\ Return
  /\ IF SnapshotState(Snapshot) = "restored_prior" THEN Write(NoSnapshot) ELSE UNCHANGED snapshots
  /\ UNCHANGED <<config, mine, user>>

DisconnectDrop ==
  /\ At("drop")
  /\ Write(NoSnapshot)
  /\ Return
  /\ UNCHANGED <<config, mine, user>>

\* A change that fails without effect ends the call, and so does a crash.
Abandon ==
  /\ op # NoOp
  /\ Return
  /\ UNCHANGED <<config, mine, snapshots, user>>

----------------------------------------------------------------------------
(* The user                                                                *)

Edits(d) ==
  {[d EXCEPT !.notify = n] : n \in {NoItem, Theirs, Malformed}}
  \cup {[d EXCEPT !.exporter = x, !.otel = IF @ = "absent" /\ x # NoItem THEN "bare" ELSE @]
          : x \in {NoItem, Theirs}}
  \cup {[d EXCEPT !.otel = "more"]}
  \cup {[d EXCEPT !.extra = e] : e \in Extras}

\* The user changes one thing; what the edit leaves alone is not the
\* user's doing.
Edit ==
  /\ edits < MaxEdits /\ edits' = edits + 1
  /\ \E after \in Edits(Parse(config)) :
    LET before == Parse(config)
        was == Parse(mine)
    IN /\ after # config
       /\ config' = after
       /\ mine' = [notify |-> IF after.notify # before.notify THEN after.notify ELSE was.notify,
                   exporter |-> IF after.exporter # before.exporter THEN after.exporter ELSE was.exporter,
                   otel |-> IF after.otel # before.otel THEN after.otel ELSE was.otel,
                   extra |-> after.extra]
       /\ edited' = Runtimes
       /\ UNCHANGED <<snapshots, op>>

Delete ==
  /\ config # NoFile
  /\ edits < MaxEdits /\ edits' = edits + 1
  /\ config' = NoFile /\ mine' = NoFile
  /\ edited' = Runtimes
  /\ UNCHANGED <<snapshots, op>>

ConfigNext ==
  \/ \E r \in Runtimes, call \in {"connect", "disconnect", "status"},
        v \in Versions \cup {NoVersion} : Call(r, call, v)
  \/ ConnectFresh \/ ConnectClaim \/ ConnectApply \/ ConnectUndo
  \/ Settle \/ Discard \/ ConnectRebase \/ Rotate \/ Swap \/ FinishRotation
  \/ DisconnectRestoring \/ DisconnectRestore \/ DisconnectRecheck \/ DisconnectDrop
  \/ Abandon \/ Edit \/ Delete

ConfigSpec == ConfigInit /\ [][ConfigNext]_configVars

----------------------------------------------------------------------------
(* An empty otel table and an empty file say nothing.                      *)
FileContent(file) ==
  LET d == Parse(file)
  IN [notify |-> d.notify, exporter |-> d.exporter,
      more |-> d.otel = "more", extra |-> d.extra]

\* At every moment, also in the middle of a call and after a crash, the file
\* holds everything the user put there: nothing the user wrote is replaced
\* or lost, whichever call read the file before the edit.
UserValuesSurvive ==
  LET c == FileContent(config)
      m == FileContent(mine)
  IN /\ c.extra = m.extra /\ c.more = m.more
     /\ m.notify \in {Theirs, Malformed} => c.notify = m.notify
     /\ m.exporter = Theirs => c.exporter = Theirs

\* Once no runtime has a snapshot, the file says what it would say if no
\* runtime had ever touched it: no crash, rotation or rebase leaves a managed
\* value that nothing remembers to take back.
ReleasedIsRestored ==
  (\A r \in Runtimes : snapshots[r] = NoSnapshot) => FileContent(config) = FileContent(mine)

\* A conflict is always the work of somebody else: if the user has not
\* written since the last call took the file as it was, and no other runtime
\* has a snapshot, then a crash or failure at any step leaves a state that
\* the next call can continue from.
OnlyEditsConflict ==
  \A r \in Runtimes :
    (/\ snapshots[r] # NoSnapshot
     /\ r \notin edited
     /\ \A q \in Runtimes \ {r} : snapshots[q] = NoSnapshot)
    => SnapshotState(snapshots[r]) # "conflict"
=============================================================================
