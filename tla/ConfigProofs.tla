----------------------------- MODULE ConfigProofs -----------------------------
(***************************************************************************)
(* The user's configuration file, for any runtimes, versions, files and    *)
(* edits, with a crash before any step. The argument has two layers.       *)
(*                                                                         *)
(* ConfigInv is about values: wherever the file differs from what the user *)
(* wrote it shows a value of a runtime whose snapshot owns the field, and  *)
(* while such a value shows, that snapshot remembers what the user has     *)
(* there. An older snapshot may be wrong about a field, but then its       *)
(* values are gone from the file, and the comparison with the whole file   *)
(* keeps it from being written back.                                       *)
(*                                                                         *)
(* LayerInv is about whole documents: until the user edits the file, it is *)
(* a document of every snapshot, or a document of one that was laid over   *)
(* the prior document of the others.                                       *)
(***************************************************************************)
EXTENDS CodexConfig, TLAPS

\* The values of one runtime, and the fields a runtime may own.
Of(r) == {r} \X Versions
Fields == {"notify", "exporter"}
Field(d, f) == IF f = "notify" THEN d.notify ELSE d.exporter
Owned(s, f) == f = "notify" => s.owns

\* Two documents that say the same of what s does not own.
SameUnowned(s, d, e) ==
  /\ d.extra = e.extra /\ (d.otel = "more" <=> e.otel = "more")
  /\ \A f \in Fields : ~Owned(s, f) => Field(d, f) = Field(e, f)

\* What runtime r puts into a snapshot: values of its own where there was
\* nothing, or another value of its own.
Claims(r, s) ==
  /\ SameUnowned(s, s.connected, Parse(s.prior))
  /\ \A f \in Fields : Owned(s, f) =>
       /\ Field(s.connected, f) \in Of(r)
       /\ Field(Parse(s.prior), f) \in Of(r) \cup {NoItem}
  /\ s.phase = "rotating" =>
       /\ s.pending \in Doc /\ s.next \in Versions /\ SameUnowned(s, s.pending, s.connected)
       /\ \A f \in Fields : Owned(s, f) => Field(s.pending, f) \in Of(r)

\* While document c shows a value of r in a field that s owns, s knows what
\* the user's document m has there.
Remembers(r, s, c, m) ==
  \A f \in Fields : Owned(s, f) /\ Field(c, f) \in Of(r) => Field(Parse(s.prior), f) = Field(m, f)

\* The snapshot of r may go: what c shows of r is the user's.
Free(r, c, m) == \A f \in Fields : Field(c, f) \in Of(r) => Field(c, f) = Field(m, f)

\* Where c differs from m it shows a value of a runtime that has a snapshot
\* owning the field.
AccountedBy(ss, c, m) ==
  \A f \in Fields : Field(c, f) # Field(m, f) =>
    \E r \in Runtimes : ss[r] # NoSnapshot /\ Owned(ss[r], f) /\ Field(c, f) \in Of(r)
KeptBy(ss, c, m) ==
  \A r \in Runtimes : ss[r] # NoSnapshot => Claims(r, ss[r]) /\ Remembers(r, ss[r], c, m)
SameRest(c, m) == c.extra = m.extra /\ (c.otel = "more" <=> m.otel = "more")

\* What the snapshots say of the file and of the user's part in it.
Restorable(ss, c, m) == AccountedBy(ss, c, m) /\ KeptBy(ss, c, m) /\ SameRest(c, m)

FilesTyped == config \in Files /\ mine \in Files
SnapshotsTyped == snapshots \in [Runtimes -> Snapshots \cup {NoSnapshot}]
\* What the call at work relies on at its next step.
CallInv ==
  op # NoOp =>
    /\ op \in Ops
    /\ IF op.step \in {"fresh", "claim"} THEN Snapshot = NoSnapshot ELSE Snapshot # NoSnapshot
    /\ op.step \in {"claim", "rebase"} =>
         /\ op.file # NoSnapshot /\ Claims(op.runtime, op.file)
         /\ Remembers(op.runtime, op.file, Parse(config), Parse(mine))
    /\ op.step = "rebase" => op.file.owns = Snapshot.owns
    /\ op.step \in {"fresh", "rebase", "rotate"} => op.call = "connect"
    /\ op.call = "connect" => op.version # NoVersion
    /\ op.step \in {"swap", "finish"} => Snapshot.phase = "rotating"
    /\ op.step \in {"discard", "drop"} => Free(op.runtime, Parse(config), Parse(mine))
FileInv == Restorable(snapshots, Parse(config), Parse(mine))
ConfigInv == FilesTyped /\ SnapshotsTyped /\ FileInv /\ CallInv

----------------------------------------------------------------------------
\* The values of different runtimes, and of nobody.
LEMMA Values ==
  ASSUME NEW r \in Runtimes
  PROVE  /\ Of(r) \subseteq Managed /\ \A v \in Versions : <<r, v>> \in Of(r)
         /\ NoItem \notin Of(r) /\ Theirs \notin Of(r) /\ Malformed \notin Of(r)
         /\ \A q \in Runtimes : \A x \in Of(r) : x \in Of(q) => q = r
BY ConfigConstants DEF Of, Managed

\* Every file parses, a missing one to the empty document.
LEMMA ParseDoc ==
  ASSUME NEW file \in Files
  PROVE  /\ Parse(file) \in Doc /\ Parse(NoFile) = Empty
         /\ file \in Doc => Parse(file) = file
<1>1. (CHOOSE e \in Extras : TRUE) \in Extras
  BY ConfigConstants
<1>2. Empty \in Doc
  BY <1>1 DEF Empty, Doc
<1> QED BY <1>2, ConfigConstants DEF Parse, Files

\* The two properties follow.
LEMMA PropertiesFromInvariant ==
  ASSUME ConfigInv
  PROVE  UserValuesSurvive /\ ReleasedIsRestored
<1> DEFINE c == Parse(config)
           m == Parse(mine)
<1>1. AccountedBy(snapshots, c, m) /\ KeptBy(snapshots, c, m) /\ SameRest(c, m)
  BY DEF ConfigInv, FileInv, Restorable
<1> HIDE DEF c, m
<1>2. ASSUME NEW f \in Fields, Field(m, f) \in {Theirs, Malformed}
      PROVE  Field(c, f) = Field(m, f)
  <2> SUFFICES ASSUME Field(c, f) # Field(m, f) PROVE FALSE
    OBVIOUS
  <2>1. PICK r \in Runtimes : /\ snapshots[r] # NoSnapshot /\ Owned(snapshots[r], f)
                              /\ Field(c, f) \in Of(r)
    BY <1>1 DEF AccountedBy
  <2>2. Claims(r, snapshots[r]) /\ Remembers(r, snapshots[r], c, m)
    BY <1>1, <2>1 DEF KeptBy
  <2>3. Field(m, f) \in Of(r) \cup {NoItem}
    BY <2>1, <2>2 DEF Claims, Remembers
  <2> QED BY <1>2, <2>3, Values, ConfigConstants
<1>3. UserValuesSurvive
  <2>1. m.notify \in {Theirs, Malformed} => c.notify = m.notify
    BY <1>2 DEF Fields, Field
  <2>2. m.exporter = Theirs => c.exporter = Theirs
    BY <1>2 DEF Fields, Field
  <2> QED BY <1>1, <2>1, <2>2 DEF UserValuesSurvive, FileContent, SameRest, c, m
<1>4. ReleasedIsRestored
  <2> SUFFICES ASSUME \A r \in Runtimes : snapshots[r] = NoSnapshot
               PROVE  FileContent(config) = FileContent(mine)
    BY DEF ReleasedIsRestored
  <2>1. \A f \in Fields : Field(c, f) = Field(m, f)
    BY <1>1 DEF AccountedBy
  <2>2. c.notify = m.notify /\ c.exporter = m.exporter
    BY <2>1 DEF Fields, Field
  <2> QED BY <1>1, <2>2 DEF FileContent, SameRest, c, m
<1> QED BY <1>3, <1>4

----------------------------------------------------------------------------
(* Documents and snapshots                                                 *)

\* The file of a connect is the one it read, with the runtime's values.
LEMMA ManagedDoc ==
  ASSUME NEW d \in Doc, NEW r \in Runtimes, NEW v \in Versions,
         NEW owns \in BOOLEAN
  PROVE  LET e == WithManaged(d, <<r, v>>, owns)
         IN /\ e \in Doc /\ e.extra = d.extra /\ (e.otel = "more" <=> d.otel = "more")
            /\ e.exporter = <<r, v>> /\ e.notify = IF owns THEN <<r, v>> ELSE d.notify
<1>1. <<r, v>> \in Managed
  BY DEF Managed
<1> QED BY <1>1 DEF WithManaged, Doc

\* The parts of a snapshot.
LEMMA SnapshotParts ==
  ASSUME NEW s \in Snapshots
  PROVE  /\ s.prior \in Files /\ s.connected \in Doc /\ s.owns \in BOOLEAN
         /\ s.version \in Versions /\ s.pending \in Files
         /\ s.next \in Versions \cup {NoVersion}
BY DEF Snapshots

\* A new claim.
Claim(file, r, v) ==
  LET m == <<r, v>>
      d == Parse(file)
      owns == MayOwnNotify(d, m)
      connected == WithManaged(d, m, owns)
  IN [phase |-> IF file = connected THEN "connected" ELSE "prepared",
      prior |-> file, connected |-> connected, owns |-> owns,
      version |-> v, pending |-> NoFile, next |-> NoVersion]

\* A fresh connect makes up a snapshot that claims its values.
LEMMA ClaimClaims ==
  ASSUME NEW file \in Files, NEW r \in Runtimes, NEW v \in Versions,
         ~ManagedConflict(Parse(file), <<r, v>>)
  PROVE  LET s == Claim(file, r, v)
         IN s \in Snapshots /\ Claims(r, s) /\ s.prior = file
<1> DEFINE d == Parse(file)
           owns == MayOwnNotify(d, <<r, v>>)
           e == WithManaged(d, <<r, v>>, owns)
           s == Claim(file, r, v)
<1>1. d \in Doc /\ owns \in BOOLEAN
  BY ParseDoc DEF MayOwnNotify
<1>2. /\ e \in Doc /\ e.extra = d.extra /\ (e.otel = "more" <=> d.otel = "more")
      /\ e.exporter = <<r, v>> /\ e.notify = IF owns THEN <<r, v>> ELSE d.notify
  BY <1>1, ManagedDoc
<1>3. /\ s.prior = file /\ s.connected = e /\ s.owns = owns /\ s.version = v
      /\ s.pending = NoFile /\ s.next = NoVersion /\ s.phase \in {"connected", "prepared"}
      /\ s \in [phase : {"connected", "prepared"}, prior : {file}, connected : {e}, owns : {owns},
                version : {v}, pending : {NoFile}, next : {NoVersion}]
  BY DEF Claim
<1>4. /\ d.exporter \in {NoItem, <<r, v>>} /\ (owns => d.notify \in {NoItem, <<r, v>>})
      /\ <<r, v>> \in Of(r)
  BY Values DEF ManagedConflict, MayOwnNotify
<1> HIDE DEF s, e, owns
<1>5. s \in Snapshots
  BY <1>1, <1>2, <1>3 DEF Snapshots, Files
<1>6. Claims(r, s)
  BY <1>2, <1>3, <1>4 DEF Claims, SameUnowned, Fields, Field, Owned, d
<1> QED BY <1>3, <1>5, <1>6 DEF s

\* A rebase takes over what the runtime does not own, and remembers what the
\* user had in the fields it does.
LEMMA RebaseClaims ==
  ASSUME NEW r \in Runtimes, NEW s \in Snapshots, Claims(r, s),
         config \in Doc, s.phase = "connected", OwnedValuesMatch(config, s.connected, s.owns)
  PROVE  /\ Rebased(s) \in Snapshots /\ Claims(r, Rebased(s)) /\ Rebased(s).owns = s.owns
         /\ \A f \in Fields : Owned(s, f) =>
              Field(Parse(Rebased(s).prior), f) = Field(Parse(s.prior), f)
<1> DEFINE p == Parse(s.prior)
           b == RestoreOwned(config, p, s.owns)
           t == Rebased(s)
<1>1. p \in Doc /\ s.connected \in Doc /\ s.owns \in BOOLEAN
  BY SnapshotParts, ParseDoc
<1>2. /\ b \in Doc /\ b.extra = config.extra /\ (b.otel = "more" <=> config.otel = "more")
      /\ b.exporter = p.exporter /\ b.notify = IF s.owns THEN p.notify ELSE config.notify
  <2> HIDE DEF p
  <2> QED BY <1>1 DEF RestoreOwned, Doc
<1> HIDE DEF p, b
<1>3. t = [s EXCEPT !.connected = config, !.prior = b]
  BY DEF Rebased, p, b
<1>4. /\ t \in Snapshots /\ t.connected = config /\ t.prior = b /\ t.owns = s.owns
      /\ t.phase = s.phase
  BY <1>2, <1>3 DEF Snapshots, Files
<1>5. Parse(t.prior) = b
  BY <1>2, <1>4, ParseDoc DEF Files
<1> HIDE DEF t
<1>6. /\ p.exporter \in Of(r) \cup {NoItem} /\ config.exporter \in Of(r)
      /\ s.owns => p.notify \in Of(r) \cup {NoItem} /\ config.notify \in Of(r)
  BY DEF Claims, Fields, Field, Owned, OwnedValuesMatch, p
<1>7. Claims(r, t)
  BY <1>2, <1>4, <1>5, <1>6 DEF Claims, SameUnowned, Fields, Field, Owned
<1>8. \A f \in Fields : Owned(s, f) => Field(Parse(t.prior), f) = Field(Parse(s.prior), f)
  BY <1>2, <1>5 DEF Fields, Field, Owned, p
<1> QED BY <1>4, <1>7, <1>8 DEF t

\* What a rewritten snapshot has in common with the one before.
SameClaim(s, t) == t.prior = s.prior /\ t.owns = s.owns

\* A rotation adds a pending document and claims what was claimed.
LEMMA RotatingClaims ==
  ASSUME NEW r \in Runtimes, NEW v \in Versions, NEW s \in Snapshots, Claims(r, s)
  PROVE  LET t == Rotating(s, r, v)
         IN t \in Snapshots /\ Claims(r, t) /\ SameClaim(s, t) /\ t.phase = "rotating"
<1> DEFINE e == WithManaged(s.connected, <<r, v>>, s.owns)
           t == Rotating(s, r, v)
<1>1. s.connected \in Doc /\ s.owns \in BOOLEAN /\ <<r, v>> \in Of(r)
  BY SnapshotParts, Values
<1>2. /\ e \in Doc /\ e.extra = s.connected.extra
      /\ (e.otel = "more" <=> s.connected.otel = "more")
      /\ e.exporter = <<r, v>> /\ e.notify = IF s.owns THEN <<r, v>> ELSE s.connected.notify
  BY <1>1, ManagedDoc
<1> HIDE DEF e
<1>3. t = [s EXCEPT !.phase = "rotating", !.next = v, !.pending = e]
  BY DEF Rotating, e
<1>4. /\ t \in Snapshots /\ t.prior = s.prior /\ t.owns = s.owns /\ t.connected = s.connected
      /\ t.phase = "rotating" /\ t.pending = e /\ t.next = v
  BY <1>2, <1>3 DEF Snapshots, Files
<1> HIDE DEF t
<1>5. Claims(r, t)
  BY <1>1, <1>2, <1>4 DEF Claims, SameUnowned, Fields, Field, Owned
<1> QED BY <1>4, <1>5 DEF SameClaim, t

\* A finished rotation claims the pending document.
LEMMA RotatedClaims ==
  ASSUME NEW r \in Runtimes, NEW s \in Snapshots, Claims(r, s),
         s.phase = "rotating"
  PROVE  Rotated(s) \in Snapshots /\ Claims(r, Rotated(s)) /\ SameClaim(s, Rotated(s))
<1> DEFINE t == Rotated(s)
<1>1. s.pending \in Doc /\ s.next \in Versions
  BY DEF Claims
<1>2. /\ t \in Snapshots /\ t.prior = s.prior /\ t.owns = s.owns /\ t.connected = s.pending
      /\ t.phase = "connected"
  BY <1>1 DEF Rotated, Snapshots, Files
<1> HIDE DEF t
<1>3. Claims(r, t)
  BY <1>2 DEF Claims, SameUnowned, Owned
<1> QED BY <1>2, <1>3 DEF SameClaim, t

\* Another phase claims the same.
LEMMA PhaseClaims ==
  ASSUME NEW r \in Runtimes, NEW s \in Snapshots, Claims(r, s),
         NEW p \in {"connected", "restoring"}
  PROVE  LET t == [s EXCEPT !.phase = p]
         IN t \in Snapshots /\ Claims(r, t) /\ SameClaim(s, t)
<1> DEFINE t == [s EXCEPT !.phase = p]
<1>1. /\ t \in Snapshots /\ t.prior = s.prior /\ t.owns = s.owns /\ t.connected = s.connected
      /\ t.phase = p
  BY DEF Snapshots
<1> HIDE DEF t
<1>2. Claims(r, t)
  BY <1>1 DEF Claims, SameUnowned, Owned
<1> QED BY <1>1, <1>2 DEF SameClaim, t

----------------------------------------------------------------------------
(* What a step may do to the snapshots and to the file                     *)

\* A snapshot is written that owns no less than the one before, and
\* remembers.
LEMMA SnapshotWritten ==
  ASSUME NEW ss, NEW c, NEW m, Restorable(ss, c, m), NEW r \in Runtimes, NEW tt, NEW s,
         s # NoSnapshot, tt[r] = s, \A q \in Runtimes \ {r} : tt[q] = ss[q],
         Claims(r, s), Remembers(r, s, c, m),
         ss[r] # NoSnapshot => (ss[r].owns => s.owns)
  PROVE  Restorable(tt, c, m)
<1>1. AccountedBy(tt, c, m)
  <2> SUFFICES ASSUME NEW f \in Fields, Field(c, f) # Field(m, f)
               PROVE  \E q \in Runtimes : /\ tt[q] # NoSnapshot /\ Owned(tt[q], f)
                                          /\ Field(c, f) \in Of(q)
    BY DEF AccountedBy
  <2>1. PICK q \in Runtimes : ss[q] # NoSnapshot /\ Owned(ss[q], f) /\ Field(c, f) \in Of(q)
    BY DEF Restorable, AccountedBy
  <2>2. tt[q] # NoSnapshot /\ Owned(tt[q], f)
    BY <2>1 DEF Owned
  <2> QED BY <2>1, <2>2
<1>2. KeptBy(tt, c, m)
  BY DEF Restorable, KeptBy
<1> QED BY <1>1, <1>2 DEF Restorable

\* A snapshot goes when the file shows nothing of it.
LEMMA SnapshotDropped ==
  ASSUME NEW ss, NEW c, NEW m, Restorable(ss, c, m), NEW r \in Runtimes, NEW tt,
         tt[r] = NoSnapshot, \A q \in Runtimes \ {r} : tt[q] = ss[q], Free(r, c, m)
  PROVE  Restorable(tt, c, m)
<1>1. AccountedBy(tt, c, m)
  <2> SUFFICES ASSUME NEW f \in Fields, Field(c, f) # Field(m, f)
               PROVE  \E q \in Runtimes : /\ tt[q] # NoSnapshot /\ Owned(tt[q], f)
                                          /\ Field(c, f) \in Of(q)
    BY DEF AccountedBy
  <2>1. PICK q \in Runtimes : ss[q] # NoSnapshot /\ Owned(ss[q], f) /\ Field(c, f) \in Of(q)
    BY DEF Restorable, AccountedBy
  <2>2. q # r
    BY <2>1 DEF Free
  <2> QED BY <2>1, <2>2
<1>2. KeptBy(tt, c, m)
  BY DEF Restorable, KeptBy
<1> QED BY <1>1, <1>2 DEF Restorable

\* The file shows what the snapshot remembers of the user's.
LEMMA PriorIsFree ==
  ASSUME NEW ss, NEW c, NEW m, Restorable(ss, c, m), NEW r \in Runtimes,
         ss[r] # NoSnapshot, c = Parse(ss[r].prior)
  PROVE  Free(r, c, m)
<1> SUFFICES ASSUME NEW f \in Fields, Field(c, f) \in Of(r), Field(c, f) # Field(m, f)
             PROVE  FALSE
  BY DEF Free
<1>1. PICK q \in Runtimes : ss[q] # NoSnapshot /\ Owned(ss[q], f) /\ Field(c, f) \in Of(q)
  BY DEF Restorable, AccountedBy
<1>2. q = r
  BY <1>1, Values
<1>3. Remembers(r, ss[r], c, m)
  BY DEF Restorable, KeptBy
<1> QED BY <1>1, <1>2, <1>3 DEF Remembers

\* The file that runtime r may write: it changes what its snapshot owns.
LEMMA FileReplaced ==
  ASSUME NEW ss, NEW c, NEW m, Restorable(ss, c, m), NEW r \in Runtimes,
         ss[r] # NoSnapshot, NEW d, SameUnowned(ss[r], d, c),
         \A f \in Fields : Owned(ss[r], f) =>
           /\ Field(Parse(ss[r].prior), f) = Field(m, f)
           /\ Field(d, f) \in Of(r) \/ (Field(d, f) = Field(m, f) /\ Field(d, f) = NoItem)
  PROVE  Restorable(ss, d, m)
<1>1. AccountedBy(ss, d, m)
  <2> SUFFICES ASSUME NEW f \in Fields, Field(d, f) # Field(m, f)
               PROVE  \E q \in Runtimes : /\ ss[q] # NoSnapshot /\ Owned(ss[q], f)
                                          /\ Field(d, f) \in Of(q)
    BY DEF AccountedBy
  <2>1. CASE Owned(ss[r], f)
    BY <2>1
  <2>2. CASE ~Owned(ss[r], f)
    BY <2>2 DEF SameUnowned, Restorable, AccountedBy
  <2> QED BY <2>1, <2>2
<1>2. ASSUME NEW q \in Runtimes, ss[q] # NoSnapshot
      PROVE  Claims(q, ss[q]) /\ Remembers(q, ss[q], d, m)
  <2>1. Claims(q, ss[q]) /\ Remembers(q, ss[q], c, m)
    BY <1>2 DEF Restorable, KeptBy
  <2> SUFFICES ASSUME NEW f \in Fields, Owned(ss[q], f), Field(d, f) \in Of(q)
               PROVE  Field(Parse(ss[q].prior), f) = Field(m, f)
    BY <2>1 DEF Remembers
  <2>2. CASE Owned(ss[r], f)
    BY <2>2, Values
  <2>3. CASE ~Owned(ss[r], f)
    BY <2>1, <2>3 DEF SameUnowned, Remembers
  <2> QED BY <2>2, <2>3
<1>3. SameRest(d, m)
  BY DEF SameUnowned, Restorable, SameRest
<1> QED BY <1>1, <1>2, <1>3 DEF Restorable, KeptBy

\* The user writes a field of both documents or of none.
UserWrites(c, m, d, n) ==
  \A f \in Fields :
    \/ Field(d, f) = Field(c, f) /\ Field(n, f) = Field(m, f)
    \/ Field(d, f) = Field(n, f) /\ \A r \in Runtimes : Field(d, f) \notin Of(r)

\* What the user writes makes no snapshot forget.
LEMMA UserKeeps ==
  ASSUME NEW c, NEW m, NEW d, NEW n, UserWrites(c, m, d, n)
  PROVE  /\ \A ss : Restorable(ss, c, m) /\ SameRest(d, n) => Restorable(ss, d, n)
         /\ \A r \in Runtimes : \A s : Remembers(r, s, c, m) => Remembers(r, s, d, n)
         /\ \A r \in Runtimes : Free(r, c, m) => Free(r, d, n)
<1>1. \A r \in Runtimes : \A s : Remembers(r, s, c, m) => Remembers(r, s, d, n)
  BY DEF UserWrites, Remembers
<1>2. \A r \in Runtimes : Free(r, c, m) => Free(r, d, n)
  BY DEF UserWrites, Free
<1>3. ASSUME NEW ss, Restorable(ss, c, m), SameRest(d, n)
      PROVE  Restorable(ss, d, n)
  <2>1. AccountedBy(ss, d, n)
    BY <1>3 DEF Restorable, AccountedBy, UserWrites
  <2>2. KeptBy(ss, d, n)
    BY <1>1, <1>3 DEF Restorable, KeptBy
  <2> QED BY <1>3, <2>1, <2>2 DEF Restorable
<1> QED BY <1>1, <1>2, <1>3

----------------------------------------------------------------------------
(* The steps                                                               *)

\* The user begins without snapshots.
LEMMA ConfigStart ==
  ASSUME ConfigInit
  PROVE  ConfigInv
BY ConfigConstants DEF ConfigInit, ConfigInv, FilesTyped, SnapshotsTyped, FileInv, Restorable,
       AccountedBy, KeptBy, SameRest, CallInv

\* What is known of the call at work and of its snapshot.
LEMMA AtWork ==
  ASSUME ConfigInv, op # NoOp
  PROVE  /\ op \in Ops /\ op.runtime \in Runtimes /\ Snapshot = snapshots[op.runtime]
         /\ op.version \in Versions \cup {NoVersion} /\ op.file \in Snapshots \cup {NoSnapshot}
         /\ Snapshot # NoSnapshot => /\ Snapshot \in Snapshots /\ Claims(op.runtime, Snapshot)
                                     /\ Remembers(op.runtime, Snapshot, Parse(config), Parse(mine))
<1>1. op \in Ops
  BY DEF ConfigInv, CallInv
<1>2. op.runtime \in Runtimes /\ op.version \in Versions \cup {NoVersion}
      /\ op.file \in Snapshots \cup {NoSnapshot}
  BY <1>1 DEF Ops
<1>3. Snapshot # NoSnapshot => Snapshot \in Snapshots
  BY <1>2 DEF ConfigInv, SnapshotsTyped, Snapshot
<1>4. Snapshot # NoSnapshot => /\ Claims(op.runtime, Snapshot)
                               /\ Remembers(op.runtime, Snapshot, Parse(config), Parse(mine))
  BY <1>2 DEF ConfigInv, FileInv, Restorable, KeptBy, Snapshot
<1> QED BY <1>1, <1>2, <1>3, <1>4 DEF Snapshot

\* A written snapshot changes the entry of its runtime.
LEMMA Written ==
  ASSUME ConfigInv, op # NoOp, NEW s \in Snapshots \cup {NoSnapshot}, Write(s)
  PROVE  /\ SnapshotsTyped' /\ snapshots'[op.runtime] = s
         /\ \A q \in Runtimes \ {op.runtime} : snapshots'[q] = snapshots[q]
<1>1. op.runtime \in Runtimes /\ snapshots \in [Runtimes -> Snapshots \cup {NoSnapshot}]
  BY AtWork DEF ConfigInv, SnapshotsTyped
<1> QED BY <1>1 DEF Write, SnapshotsTyped

\* The call goes on, or ends.
PlainSteps ==
  {"apply", "undo", "settle", "rotate", "swap", "finish", "restoring", "restore", "recheck",
   "drop", "fresh"}
\* A call that goes on has what its next step relies on.
LEMMA CallGoesOn ==
  ASSUME ConfigInv, op # NoOp, NEW x \in PlainSteps, Goto(x),
         IF x = "fresh" THEN snapshots'[op.runtime] = NoSnapshot
                        ELSE snapshots'[op.runtime] # NoSnapshot,
         x \in {"fresh", "rotate"} => op.call = "connect",
         x \in {"swap", "finish"} => snapshots'[op.runtime].phase = "rotating",
         x = "drop" => Free(op.runtime, Parse(config'), Parse(mine'))
  PROVE  CallInv'
<1>1. op \in Ops /\ (op.call = "connect" => op.version # NoVersion)
  BY AtWork DEF ConfigInv, CallInv
<1>2. /\ op' \in Ops /\ op'.runtime = op.runtime /\ op'.step = x /\ op'.call = op.call
      /\ op'.version = op.version
  BY <1>1 DEF Goto, Ops, PlainSteps
<1> QED BY <1>1, <1>2 DEF CallInv, Snapshot, PlainSteps

\* A call that is over relies on nothing.
LEMMA CallEnds ==
  ASSUME Return
  PROVE  CallInv'
BY DEF Return, CallInv

\* A call that writes the snapshot once more, and its consequences for the
\* file.
LEMMA Rewritten ==
  ASSUME ConfigInv, op # NoOp, Snapshot # NoSnapshot,
         NEW s \in Snapshots, Write(s), Claims(op.runtime, s), SameClaim(Snapshot, s),
         config' = config, mine' = mine
  PROVE  FilesTyped' /\ SnapshotsTyped' /\ FileInv' /\ snapshots'[op.runtime] = s
<1>1. SnapshotsTyped' /\ snapshots'[op.runtime] = s /\ s # NoSnapshot
      /\ \A q \in Runtimes \ {op.runtime} : snapshots'[q] = snapshots[q]
  BY Written, ConfigConstants
<1>2. Remembers(op.runtime, s, Parse(config), Parse(mine))
  BY AtWork DEF SameClaim, Remembers, Owned
<1>3. op.runtime \in Runtimes /\ snapshots[op.runtime].owns = s.owns
  BY AtWork DEF SameClaim
<1>4. Restorable(snapshots, Parse(config), Parse(mine))
  BY DEF ConfigInv, FileInv
<1>5. Restorable(snapshots', Parse(config), Parse(mine))
  BY <1>1, <1>2, <1>3, <1>4, SnapshotWritten
<1> QED BY <1>1, <1>5 DEF FileInv, ConfigInv, FilesTyped

\* A call that gives up the snapshot.
LEMMA Dropped ==
  ASSUME ConfigInv, op # NoOp, Write(NoSnapshot),
         Free(op.runtime, Parse(config), Parse(mine)), config' = config, mine' = mine
  PROVE  FilesTyped' /\ SnapshotsTyped' /\ FileInv' /\ snapshots'[op.runtime] = NoSnapshot
<1>1. SnapshotsTyped' /\ snapshots'[op.runtime] = NoSnapshot /\ op.runtime \in Runtimes
      /\ \A q \in Runtimes \ {op.runtime} : snapshots'[q] = snapshots[q]
  BY Written, AtWork
<1>2. Restorable(snapshots, Parse(config), Parse(mine))
  BY DEF ConfigInv, FileInv
<1>3. Restorable(snapshots', Parse(config), Parse(mine))
  BY <1>1, <1>2, SnapshotDropped
<1> QED BY <1>1, <1>3 DEF FileInv, ConfigInv, FilesTyped

\* A call that reads the file and ends, or changes nothing but itself.
LEMMA Untouched ==
  ASSUME ConfigInv, config' = config, mine' = mine, snapshots' = snapshots
  PROVE  FilesTyped' /\ SnapshotsTyped' /\ FileInv'
BY DEF ConfigInv, FilesTyped, SnapshotsTyped, FileInv

\* The phase of the snapshot is written.
LEMMA SettleStep ==
  ASSUME ConfigInv, Settle \/ DisconnectRestoring
  PROVE  ConfigInv'
<1>0. op # NoOp /\ op.step \in {"settle", "restoring"} /\ config' = config /\ mine' = mine
  BY DEF Settle, DisconnectRestoring, At
<1>1. Snapshot # NoSnapshot
  BY <1>0 DEF ConfigInv, CallInv
<1>2. Snapshot \in Snapshots /\ Claims(op.runtime, Snapshot) /\ op.runtime \in Runtimes
  BY <1>0, <1>1, AtWork
<1>3. PICK p \in {"connected", "restoring"} : Write([Snapshot EXCEPT !.phase = p])
  BY DEF Settle, DisconnectRestoring
<1> DEFINE s == [Snapshot EXCEPT !.phase = p]
<1>4. s \in Snapshots /\ Claims(op.runtime, s) /\ SameClaim(Snapshot, s) /\ Write(s)
  BY <1>2, <1>3, PhaseClaims
<1> HIDE DEF s
<1>5. FilesTyped' /\ SnapshotsTyped' /\ FileInv' /\ snapshots'[op.runtime] = s
  BY <1>0, <1>1, <1>4, Rewritten
<1>6. Return \/ Goto("restore")
  BY DEF Settle, DisconnectRestoring
<1>7. CallInv'
  BY <1>0, <1>4, <1>5, <1>6, CallEnds, CallGoesOn, ConfigConstants DEF PlainSteps
<1> QED BY <1>5, <1>7 DEF ConfigInv

\* The snapshot announces the new document.
LEMMA RotateStep ==
  ASSUME ConfigInv, Rotate
  PROVE  ConfigInv'
<1>0. op # NoOp /\ op.step = "rotate" /\ config' = config /\ mine' = mine
      /\ (Goto("swap") \/ Return)
  BY DEF Rotate, At
<1>1. Snapshot # NoSnapshot /\ op.version # NoVersion
  BY <1>0 DEF ConfigInv, CallInv
<1>2. /\ Snapshot \in Snapshots /\ Claims(op.runtime, Snapshot) /\ op.runtime \in Runtimes
      /\ op.version \in Versions
  BY <1>0, <1>1, AtWork
<1> DEFINE s == Rotating(Snapshot, op.runtime, op.version)
<1>3. /\ s \in Snapshots /\ Claims(op.runtime, s) /\ SameClaim(Snapshot, s) /\ Write(s)
      /\ s.phase = "rotating"
  BY <1>2, RotatingClaims DEF Rotate
<1> HIDE DEF s
<1>4. FilesTyped' /\ SnapshotsTyped' /\ FileInv' /\ snapshots'[op.runtime] = s
  BY <1>0, <1>1, <1>3, Rewritten
<1>5. CallInv'
  BY <1>0, <1>3, <1>4, CallEnds, CallGoesOn, ConfigConstants DEF PlainSteps
<1> QED BY <1>4, <1>5 DEF ConfigInv

\* The snapshot takes over the new document.
LEMMA FinishStepKeeps ==
  ASSUME ConfigInv, FinishRotation
  PROVE  ConfigInv'
<1>0. op # NoOp /\ op.step = "finish" /\ config' = config /\ mine' = mine
      /\ (Goto("restoring") \/ Return)
  BY DEF FinishRotation, At
<1>1. Snapshot # NoSnapshot /\ Snapshot.phase = "rotating"
  BY <1>0 DEF ConfigInv, CallInv
<1>2. Snapshot \in Snapshots /\ Claims(op.runtime, Snapshot) /\ op.runtime \in Runtimes
  BY <1>0, <1>1, AtWork
<1> DEFINE s == Rotated(Snapshot)
<1>3. s \in Snapshots /\ Claims(op.runtime, s) /\ SameClaim(Snapshot, s) /\ Write(s)
  BY <1>1, <1>2, RotatedClaims DEF FinishRotation
<1> HIDE DEF s
<1>4. FilesTyped' /\ SnapshotsTyped' /\ FileInv' /\ snapshots'[op.runtime] = s
  BY <1>0, <1>1, <1>3, Rewritten
<1>5. CallInv'
  BY <1>0, <1>3, <1>4, CallEnds, CallGoesOn, ConfigConstants DEF PlainSteps
<1> QED BY <1>4, <1>5 DEF ConfigInv

\* A snapshot that may go.
LEMMA DropStep ==
  ASSUME ConfigInv, Discard \/ DisconnectDrop
  PROVE  ConfigInv'
<1>0. op # NoOp /\ op.step \in {"discard", "drop"} /\ config' = config /\ mine' = mine
      /\ Write(NoSnapshot) /\ ((op.call = "connect" /\ Goto("fresh")) \/ Return)
  BY DEF Discard, DisconnectDrop, At
<1>1. Free(op.runtime, Parse(config), Parse(mine))
  BY <1>0 DEF ConfigInv, CallInv
<1>2. FilesTyped' /\ SnapshotsTyped' /\ FileInv' /\ snapshots'[op.runtime] = NoSnapshot
  BY <1>0, <1>1, Dropped
<1>3. CallInv'
  BY <1>0, <1>2, CallEnds, CallGoesOn DEF PlainSteps
<1> QED BY <1>2, <1>3 DEF ConfigInv

\* The prior file is there.
LEMMA StateOfPrior ==
  ASSUME NEW s, SnapshotState(s) \in {"prepared_prior", "restored_prior"}
  PROVE  config = s.prior
BY DEF SnapshotState

\* After a failed replacement the snapshot goes if the prior file is there.
LEMMA UndoStep ==
  ASSUME ConfigInv, ConnectUndo \/ DisconnectRecheck
  PROVE  ConfigInv'
<1>0. /\ op # NoOp /\ op.step \in {"undo", "recheck"} /\ config' = config /\ mine' = mine
      /\ Return
      /\ \/ snapshots' = snapshots
         \/ SnapshotState(Snapshot) \in {"prepared_prior", "restored_prior"} /\ Write(NoSnapshot)
  BY DEF ConnectUndo, DisconnectRecheck, At
<1>1. CallInv'
  BY <1>0, CallEnds
<1>2. CASE snapshots' = snapshots
  BY <1>0, <1>1, <1>2, Untouched DEF ConfigInv
<1>3. CASE SnapshotState(Snapshot) \in {"prepared_prior", "restored_prior"} /\ Write(NoSnapshot)
  <2>1. Snapshot # NoSnapshot
    BY <1>0 DEF ConfigInv, CallInv
  <2>2. config = snapshots[op.runtime].prior /\ op.runtime \in Runtimes
        /\ snapshots[op.runtime] # NoSnapshot
    BY <1>0, <1>3, <2>1, StateOfPrior, AtWork
  <2>3. Restorable(snapshots, Parse(config), Parse(mine))
    BY DEF ConfigInv, FileInv
  <2>4. Free(op.runtime, Parse(config), Parse(mine))
    BY <2>2, <2>3, PriorIsFree
  <2> QED BY <1>0, <1>1, <1>3, <2>4, Dropped DEF ConfigInv
<1> QED BY <1>0, <1>2, <1>3

\* The snapshot takes over what the user edited.
LEMMA RebaseStep ==
  ASSUME ConfigInv, ConnectRebase
  PROVE  ConfigInv'
<1>0. /\ op # NoOp /\ op.step = "rebase" /\ config' = config /\ mine' = mine
      /\ Write(op.file) /\ (Goto("rotate") \/ Return)
  BY DEF ConnectRebase, At
<1>1. /\ op.file # NoSnapshot /\ Claims(op.runtime, op.file) /\ op.file.owns = Snapshot.owns
      /\ Remembers(op.runtime, op.file, Parse(config), Parse(mine)) /\ op.call = "connect"
  BY <1>0 DEF ConfigInv, CallInv
<1>2. op.file \in Snapshots /\ op.runtime \in Runtimes /\ Snapshot = snapshots[op.runtime]
  BY <1>0, <1>1, AtWork
<1>3. SnapshotsTyped' /\ snapshots'[op.runtime] = op.file
      /\ \A q \in Runtimes \ {op.runtime} : snapshots'[q] = snapshots[q]
  BY <1>0, <1>2, Written
<1>4. Restorable(snapshots, Parse(config), Parse(mine))
  BY DEF ConfigInv, FileInv
<1>5. Restorable(snapshots', Parse(config), Parse(mine))
  BY <1>1, <1>2, <1>3, <1>4, SnapshotWritten
<1>6. CallInv'
  BY <1>0, <1>1, <1>3, CallEnds, CallGoesOn DEF PlainSteps
<1> QED BY <1>0, <1>3, <1>5, <1>6 DEF ConfigInv, FileInv, FilesTyped

\* The claim is written before the file.
LEMMA ClaimStep ==
  ASSUME ConfigInv, ConnectClaim
  PROVE  ConfigInv'
<1>0. /\ op # NoOp /\ op.step = "claim" /\ config' = config /\ mine' = mine
      /\ Write(op.file) /\ (Goto("apply") \/ Return)
  BY DEF ConnectClaim, At
<1>1. /\ op.file # NoSnapshot /\ Claims(op.runtime, op.file) /\ Snapshot = NoSnapshot
      /\ Remembers(op.runtime, op.file, Parse(config), Parse(mine))
  BY <1>0 DEF ConfigInv, CallInv
<1>2. op.file \in Snapshots /\ op.runtime \in Runtimes /\ Snapshot = snapshots[op.runtime]
  BY <1>0, <1>1, AtWork
<1>3. SnapshotsTyped' /\ snapshots'[op.runtime] = op.file
      /\ \A q \in Runtimes \ {op.runtime} : snapshots'[q] = snapshots[q]
  BY <1>0, <1>2, Written
<1>4. Restorable(snapshots, Parse(config), Parse(mine))
  BY DEF ConfigInv, FileInv
<1>5. Restorable(snapshots', Parse(config), Parse(mine))
  BY <1>1, <1>2, <1>3, <1>4, SnapshotWritten
<1>6. CallInv'
  BY <1>0, <1>1, <1>3, CallEnds, CallGoesOn DEF PlainSteps
<1> QED BY <1>0, <1>3, <1>5, <1>6 DEF ConfigInv, FileInv, FilesTyped

\* The claim is made up from the file as it is.
LEMMA FreshStep ==
  ASSUME ConfigInv, ConnectFresh
  PROVE  ConfigInv'
<1> DEFINE r == op.runtime
           v == op.version
           s == Claim(config, r, v)
<1>0. /\ op # NoOp /\ op.step = "fresh" /\ UNCHANGED <<config, mine, snapshots>>
      /\ \/ Return
         \/ /\ ~ManagedConflict(Parse(config), <<r, v>>)
            /\ op' = [op EXCEPT !.step = "claim", !.file = s]
  BY DEF ConnectFresh, At, Claim
<1>1. FilesTyped' /\ SnapshotsTyped' /\ FileInv'
  BY <1>0, Untouched
<1>2. CASE Return
  BY <1>1, <1>2, CallEnds DEF ConfigInv
<1>3. CASE /\ ~ManagedConflict(Parse(config), <<r, v>>)
           /\ op' = [op EXCEPT !.step = "claim", !.file = s]
  <2>1. Snapshot = NoSnapshot /\ op.version # NoVersion /\ op \in Ops
    BY <1>0 DEF ConfigInv, CallInv
  <2>2. r \in Runtimes /\ v \in Versions /\ config \in Files /\ snapshots[r] = NoSnapshot
    BY <1>0, <2>1, AtWork DEF ConfigInv, FilesTyped
  <2>3. s \in Snapshots /\ Claims(r, s) /\ s.prior = config
    BY <1>3, <2>2, ClaimClaims
  <2> HIDE DEF s
  <2>4. Remembers(r, s, Parse(config), Parse(mine))
    <3> SUFFICES ASSUME NEW f \in Fields, Field(Parse(config), f) \in Of(r),
                        Field(Parse(config), f) # Field(Parse(mine), f)
                 PROVE  FALSE
      BY <2>3 DEF Remembers
    <3>1. PICK q \in Runtimes : /\ snapshots[q] # NoSnapshot
                                /\ Field(Parse(config), f) \in Of(q)
      BY DEF ConfigInv, FileInv, Restorable, AccountedBy
    <3> QED BY <2>2, <3>1, Values
  <2>5. /\ op' \in Ops /\ op'.runtime = r /\ op'.step = "claim" /\ op'.file = s
        /\ op'.version = v
    BY <1>3, <2>1, <2>3 DEF Ops
  <2>6. CallInv'
    BY <1>0, <2>1, <2>2, <2>3, <2>4, <2>5, ConfigConstants DEF CallInv, Snapshot
  <2> QED BY <1>1, <2>6 DEF ConfigInv
<1> QED BY <1>0, <1>2, <1>3

\* The file is replaced by another of the documents of the snapshot.
LEMMA Replaced ==
  ASSUME ConfigInv, op # NoOp, Snapshot # NoSnapshot, config' \in Files,
         UNCHANGED <<mine, snapshots>>, SameUnowned(Snapshot, Parse(config'), Parse(config)),
         \A f \in Fields : Owned(Snapshot, f) =>
           /\ Field(Parse(Snapshot.prior), f) = Field(Parse(mine), f)
           /\ \/ Field(Parse(config'), f) \in Of(op.runtime)
              \/ /\ Field(Parse(config'), f) = Field(Parse(mine), f)
                 /\ Field(Parse(config'), f) = NoItem
  PROVE  FilesTyped' /\ SnapshotsTyped' /\ FileInv'
<1>1. /\ Snapshot = snapshots[op.runtime] /\ op.runtime \in Runtimes
      /\ Restorable(snapshots, Parse(config), Parse(mine))
  BY AtWork DEF ConfigInv, FileInv
<1>2. Restorable(snapshots, Parse(config'), Parse(mine))
  BY <1>1, FileReplaced
<1> QED BY <1>2 DEF ConfigInv, FilesTyped, SnapshotsTyped, FileInv

\* The claimed document replaces the prior file.
LEMMA ApplyStep ==
  ASSUME ConfigInv, ConnectApply
  PROVE  ConfigInv'
<1> DEFINE s == Snapshot
           r == op.runtime
           c == Parse(config)
           m == Parse(mine)
<1>0. /\ op # NoOp /\ op.step = "apply" /\ UNCHANGED <<mine, snapshots>>
      /\ \/ config = s.prior /\ config' = s.connected
         \/ config' = config
      /\ Goto("settle") \/ Goto("undo") \/ Return
  BY DEF ConnectApply, At
<1>1. s # NoSnapshot
  BY <1>0 DEF ConfigInv, CallInv
<1>2. /\ s \in Snapshots /\ Claims(r, s) /\ Remembers(r, s, c, m) /\ r \in Runtimes
      /\ s = snapshots[r] /\ s.connected \in Doc /\ s.connected \in Files
  BY <1>0, <1>1, AtWork, SnapshotParts DEF Files
<1>3. CallInv'
  BY <1>0, <1>1, <1>2, CallEnds, CallGoesOn DEF PlainSteps
<1>4. CASE config' = config
  BY <1>0, <1>3, <1>4, Untouched DEF ConfigInv
<1>5. CASE config = s.prior /\ config' = s.connected
  <2>1. Parse(config') = s.connected /\ c = Parse(s.prior)
    BY <1>2, <1>5, ParseDoc
  <2> HIDE DEF s, c, m, r
  <2>2. SameUnowned(s, s.connected, c)
    BY <1>2, <2>1 DEF Claims
  <2>3. ASSUME NEW f \in Fields, Owned(s, f)
        PROVE  Field(Parse(s.prior), f) = Field(m, f) /\ Field(s.connected, f) \in Of(r)
    <3>1. Field(s.connected, f) \in Of(r) /\ Field(c, f) \in Of(r) \cup {NoItem}
      BY <1>2, <2>1, <2>3 DEF Claims
    <3>2. CASE Field(c, f) \in Of(r)
      BY <1>2, <2>3, <3>1, <3>2 DEF Remembers
    <3>3. CASE Field(c, f) = NoItem
      <4>1. \A q \in Runtimes : Field(c, f) \notin Of(q)
        BY <3>3, Values
      <4>2. Field(c, f) = Field(m, f)
        BY <4>1 DEF ConfigInv, FileInv, Restorable, AccountedBy, c, m
      <4> QED BY <2>1, <3>1, <4>2
    <3> QED BY <3>1, <3>2, <3>3
  <2>4. FilesTyped' /\ SnapshotsTyped' /\ FileInv'
    BY <1>0, <1>1, <1>2, <1>5, <2>1, <2>2, <2>3, Replaced DEF s, c, m, r
  <2> QED BY <1>3, <2>4 DEF ConfigInv
<1> QED BY <1>0, <1>4, <1>5

\* While the connected file is there, the snapshot knows the user's values.
LEMMA ConnectedRemembers ==
  ASSUME ConfigInv, op # NoOp, Snapshot # NoSnapshot,
         config = Snapshot.connected, NEW f \in Fields, Owned(Snapshot, f)
  PROVE  Field(Parse(Snapshot.prior), f) = Field(Parse(mine), f)
<1>1. /\ Claims(op.runtime, Snapshot) /\ Snapshot.connected \in Doc
      /\ Remembers(op.runtime, Snapshot, Parse(config), Parse(mine))
  BY AtWork, SnapshotParts
<1>2. Parse(config) = Snapshot.connected
  BY <1>1, ParseDoc DEF Files
<1> QED BY <1>1, <1>2 DEF Claims, Remembers

\* The new document replaces the old one.
LEMMA SwapStep ==
  ASSUME ConfigInv, Swap
  PROVE  ConfigInv'
<1> DEFINE s == Snapshot
           r == op.runtime
<1>0. /\ op # NoOp /\ op.step = "swap" /\ UNCHANGED <<mine, snapshots>>
      /\ config = s.connected /\ config' = s.pending
      /\ Goto("finish") \/ Return
  BY DEF Swap, At
<1>1. s # NoSnapshot /\ s.phase = "rotating"
  BY <1>0 DEF ConfigInv, CallInv
<1>2. /\ s \in Snapshots /\ Claims(r, s) /\ r \in Runtimes
      /\ s = snapshots[r] /\ s.connected \in Doc
  BY <1>0, <1>1, AtWork, SnapshotParts
<1>3. s.pending \in Doc /\ s.pending \in Files /\ SameUnowned(s, s.pending, s.connected)
  BY <1>1, <1>2 DEF Claims, Files
<1>4. Parse(config) = s.connected /\ Parse(config') = s.pending
  BY <1>0, <1>2, <1>3, ParseDoc DEF Files
<1>5. \A f \in Fields : Owned(s, f) =>
        Field(Parse(s.prior), f) = Field(Parse(mine), f) /\ Field(s.pending, f) \in Of(r)
  BY <1>0, <1>1, <1>2, ConnectedRemembers DEF Claims
<1>6. CallInv'
  BY <1>0, <1>1, <1>2, CallEnds, CallGoesOn DEF PlainSteps
<1>7. FilesTyped' /\ SnapshotsTyped' /\ FileInv'
  BY <1>0, <1>1, <1>3, <1>4, <1>5, Replaced
<1> QED BY <1>6, <1>7 DEF ConfigInv

\* The prior file replaces the connected one.
LEMMA RestoreStep ==
  ASSUME ConfigInv, DisconnectRestore
  PROVE  ConfigInv'
<1> DEFINE s == Snapshot
           r == op.runtime
<1>0. /\ op # NoOp /\ op.step = "restore" /\ UNCHANGED <<mine, snapshots>>
      /\ \/ /\ config = s.connected /\ config' = s.prior
            /\ Goto("drop") \/ Goto("recheck") \/ Return
         \/ config' = config /\ Goto("recheck")
  BY DEF DisconnectRestore, At
<1>1. s # NoSnapshot
  BY <1>0 DEF ConfigInv, CallInv
<1>2. /\ s \in Snapshots /\ Claims(r, s) /\ r \in Runtimes
      /\ s = snapshots[r] /\ s.connected \in Doc /\ s.prior \in Files
  BY <1>0, <1>1, AtWork, SnapshotParts
<1>3. CASE config' = config /\ Goto("recheck")
  <2>1. CallInv'
    BY <1>0, <1>1, <1>2, <1>3, CallGoesOn DEF PlainSteps
  <2> QED BY <1>0, <1>3, <2>1, Untouched DEF ConfigInv
<1>4. CASE /\ config = s.connected /\ config' = s.prior
           /\ Goto("drop") \/ Goto("recheck") \/ Return
  <2>1. Parse(config) = s.connected /\ Parse(config') = Parse(s.prior)
    BY <1>2, <1>4, ParseDoc DEF Files
  <2>2. SameUnowned(s, Parse(s.prior), s.connected)
    BY <1>2 DEF Claims, SameUnowned
  <2>3. \A f \in Fields : Owned(s, f) =>
          /\ Field(Parse(s.prior), f) = Field(Parse(mine), f)
          /\ Field(Parse(s.prior), f) \in Of(r) \cup {NoItem}
    BY <1>0, <1>1, <1>2, <1>4, ConnectedRemembers DEF Claims
  <2>4. FilesTyped' /\ SnapshotsTyped' /\ FileInv'
    BY <1>0, <1>1, <1>2, <1>4, <2>1, <2>2, <2>3, Replaced
  <2>5. Restorable(snapshots, Parse(config'), Parse(mine))
    BY <1>0, <2>4 DEF FileInv
  <2>6. Free(r, Parse(config'), Parse(mine))
    BY <1>1, <1>2, <2>1, <2>5, PriorIsFree
  <2>7. CallInv'
    BY <1>0, <1>1, <1>2, <1>4, <2>6, CallEnds, CallGoesOn DEF PlainSteps
  <2> QED BY <2>4, <2>7 DEF ConfigInv
<1> QED BY <1>0, <1>3, <1>4

\* What a call begins with.
LEMMA FirstSteps ==
  ASSUME NEW s, NEW v
  PROVE  /\ ConnectStep(s, v) \in
              {"rebase", "swap", "finish", "rotate", "discard", "settle", "return"}
         /\ \A call \in {"disconnect", "status"} : ReleaseStep(call, s, v) \in
              {"swap", "finish", "discard", "restore", "restoring", "settle", "return"}
         /\ ConnectStep(s, v) = "rebase" => Rebases(s)
         /\ ConnectStep(s, v) \in {"swap", "finish"} => s.phase = "rotating"
         /\ ConnectStep(s, v) = "discard" => config = s.prior
         /\ \A call \in {"disconnect", "status"} :
              /\ ReleaseStep(call, s, v) \in {"swap", "finish"} => s.phase = "rotating"
              /\ ReleaseStep(call, s, v) = "discard" => config = s.prior
<1> DEFINE state == SnapshotState(s)
<1>1. state \in {"prepared_prior", "restored_prior"} => config = s.prior
  BY StateOfPrior
<1> HIDE DEF state
<1>2. FinishStep(state) \in {"swap", "finish", "return"}
  BY DEF FinishStep
<1>3. /\ ConnectStep(s, v) \in
           {"rebase", "swap", "finish", "rotate", "discard", "settle", "return"}
      /\ ConnectStep(s, v) = "rebase" => Rebases(s)
      /\ ConnectStep(s, v) \in {"swap", "finish"} => s.phase = "rotating"
      /\ ConnectStep(s, v) = "discard" => config = s.prior
  BY <1>1, <1>2 DEF ConnectStep, state
<1>4. ASSUME NEW call \in {"disconnect", "status"}
      PROVE  /\ ReleaseStep(call, s, v) \in
                  {"swap", "finish", "discard", "restore", "restoring", "settle", "return"}
             /\ ReleaseStep(call, s, v) \in {"swap", "finish"} => s.phase = "rotating"
             /\ ReleaseStep(call, s, v) = "discard" => config = s.prior
  BY <1>1, <1>2, <1>4 DEF ReleaseStep, state
<1> QED BY <1>3, <1>4

\* A call begins with a step that fits file and snapshot.
LEMMA CallStep ==
  ASSUME ConfigInv, NEW r \in Runtimes,
         NEW call \in {"connect", "disconnect", "status"}, NEW v \in Versions \cup {NoVersion},
         Call(r, call, v)
  PROVE  ConfigInv'
<1> DEFINE s == snapshots[r]
           step == IF s = NoSnapshot
                   THEN IF call = "connect" THEN "fresh" ELSE "return"
                   ELSE IF call = "connect" THEN ConnectStep(s, v) ELSE ReleaseStep(call, s, v)
           file == IF step = "rebase" THEN Rebased(s) ELSE NoSnapshot
<1>0. /\ op = NoOp /\ (call = "connect" => v # NoVersion)
      /\ UNCHANGED <<config, mine, snapshots>>
      /\ \/ op' = op
         \/ /\ step # "return"
            /\ op' = [runtime |-> r, call |-> call, version |-> v, step |-> step, file |-> file]
  BY DEF Call
<1>1. FilesTyped' /\ SnapshotsTyped' /\ FileInv'
  BY <1>0, Untouched
<1>2. CASE op' = op
  BY <1>0, <1>1, <1>2 DEF ConfigInv, CallInv
<1>3. CASE /\ step # "return"
           /\ op' = [runtime |-> r, call |-> call, version |-> v, step |-> step, file |-> file]
  <2>1. /\ s # NoSnapshot => step \in {"rebase", "swap", "finish", "rotate", "discard", "settle",
                                       "restore", "restoring"}
        /\ s = NoSnapshot => step = "fresh"
        /\ step \in {"fresh", "rebase", "rotate"} => call = "connect"
        /\ step = "rebase" => Rebases(s)
        /\ step \in {"swap", "finish"} => s.phase = "rotating"
        /\ step = "discard" => config = s.prior
    BY <1>3, FirstSteps
  <2>2. s # NoSnapshot => s \in Snapshots /\ Claims(r, s)
                          /\ Remembers(r, s, Parse(config), Parse(mine))
    BY DEF ConfigInv, SnapshotsTyped, FileInv, Restorable, KeptBy
  <2> HIDE DEF step, s
  <2>3. ASSUME step = "rebase"
        PROVE  /\ file \in Snapshots /\ Claims(r, file) /\ file.owns = s.owns
               /\ Remembers(r, file, Parse(config), Parse(mine))
    <3>1. s # NoSnapshot
      BY <2>1, <2>3
    <3>2. config \in Doc /\ s.phase = "connected" /\ OwnedValuesMatch(config, s.connected, s.owns)
      BY <2>1, <2>3 DEF Rebases, ConfigInv, FilesTyped, Files
    <3>3. /\ file \in Snapshots /\ Claims(r, file) /\ file.owns = s.owns
          /\ \A f \in Fields : Owned(s, f) => Field(Parse(file.prior), f) = Field(Parse(s.prior), f)
      BY <2>2, <2>3, <3>1, <3>2, RebaseClaims
    <3>4. Remembers(r, file, Parse(config), Parse(mine))
      BY <2>2, <3>1, <3>3 DEF Remembers, Owned
    <3> QED BY <3>3, <3>4
  <2>4. step = "discard" => Free(r, Parse(config), Parse(mine))
    <3>1. Restorable(snapshots, Parse(config), Parse(mine))
      BY DEF ConfigInv, FileInv
    <3> QED BY <2>1, <3>1, PriorIsFree DEF s
  <2>5. file \in Snapshots \cup {NoSnapshot}
    BY <2>3
  <2> HIDE DEF file
  <2>6. /\ op' \in Ops /\ op'.runtime = r /\ op'.call = call /\ op'.version = v
        /\ op'.step = step /\ op'.file = file
    BY <1>3, <2>1, <2>5 DEF Ops
  <2>7. Snapshot' = s
    BY <1>0, <2>6 DEF Snapshot, s
  <2>8. CallInv'
    BY <1>0, <2>1, <2>3, <2>4, <2>6, <2>7, ConfigConstants DEF CallInv
  <2> QED BY <1>1, <2>8 DEF ConfigInv
<1> QED BY <1>0, <1>2, <1>3

\* What the user does leaves the calls what they rely on.
LEMMA UserStep ==
  ASSUME ConfigInv, config' \in Files, mine' \in Files,
         UNCHANGED <<snapshots, op>>, SameRest(Parse(config'), Parse(mine')),
         UserWrites(Parse(config), Parse(mine), Parse(config'), Parse(mine'))
  PROVE  ConfigInv'
<1>1. /\ \A ss : Restorable(ss, Parse(config), Parse(mine)) =>
                   Restorable(ss, Parse(config'), Parse(mine'))
      /\ \A r \in Runtimes : \A s : Remembers(r, s, Parse(config), Parse(mine)) =>
                                      Remembers(r, s, Parse(config'), Parse(mine'))
      /\ \A r \in Runtimes : Free(r, Parse(config), Parse(mine)) =>
                               Free(r, Parse(config'), Parse(mine'))
  BY UserKeeps
<1>2. FilesTyped' /\ SnapshotsTyped' /\ FileInv'
  BY <1>1 DEF ConfigInv, FilesTyped, SnapshotsTyped, FileInv
<1>3. CallInv'
  <2> SUFFICES ASSUME op # NoOp PROVE CallInv'
    BY DEF CallInv
  <2>1. op.runtime \in Runtimes
    BY AtWork
  <2> QED BY <1>1, <2>1 DEF ConfigInv, CallInv, Snapshot
<1> QED BY <1>2, <1>3 DEF ConfigInv

\* The user edits the file.
LEMMA EditStep ==
  ASSUME ConfigInv, Edit
  PROVE  ConfigInv'
<1> DEFINE c == Parse(config)
           m == Parse(mine)
<1>1. c \in Doc /\ m \in Doc /\ SameRest(c, m)
  BY ParseDoc DEF ConfigInv, FilesTyped, FileInv, Restorable
<1>2. PICK d \in Edits(c) :
        /\ config' = d
        /\ mine' = [notify |-> IF d.notify # c.notify THEN d.notify ELSE m.notify,
                    exporter |-> IF d.exporter # c.exporter THEN d.exporter ELSE m.exporter,
                    otel |-> IF d.otel # c.otel THEN d.otel ELSE m.otel,
                    extra |-> d.extra]
        /\ UNCHANGED <<snapshots, op>>
  BY DEF Edit
<1> HIDE DEF c, m
<1>3. /\ d \in Doc
      /\ d.notify = c.notify \/ d.notify \in {NoItem, Theirs, Malformed}
      /\ d.exporter = c.exporter \/ d.exporter \in {NoItem, Theirs}
  BY <1>1, <1>2 DEF Edits, Doc
<1>4. /\ mine' \in Doc
      /\ mine'.notify = IF d.notify # c.notify THEN d.notify ELSE m.notify
      /\ mine'.exporter = IF d.exporter # c.exporter THEN d.exporter ELSE m.exporter
      /\ mine'.otel = IF d.otel # c.otel THEN d.otel ELSE m.otel
      /\ mine'.extra = d.extra
  BY <1>1, <1>2, <1>3 DEF Doc
<1>5. Parse(config') = d /\ Parse(mine') = mine' /\ config' \in Files /\ mine' \in Files
  BY <1>2, <1>3, <1>4, ParseDoc DEF Files
<1>6. SameRest(d, mine')
  BY <1>1, <1>4 DEF SameRest
<1>7. UserWrites(c, m, d, mine')
  BY <1>3, <1>4, Values DEF UserWrites, Fields, Field
<1> QED BY <1>2, <1>5, <1>6, <1>7, UserStep DEF c, m

\* The user deletes the file.
LEMMA DeleteStep ==
  ASSUME ConfigInv, Delete
  PROVE  ConfigInv'
<1>1. config' = NoFile /\ mine' = NoFile /\ UNCHANGED <<snapshots, op>>
  BY DEF Delete
<1>2. Parse(config') = Empty /\ Parse(mine') = Empty /\ NoFile \in Files
  BY <1>1, ParseDoc DEF Files
<1>3. \A f \in Fields : Field(Empty, f) = NoItem
  BY DEF Empty, Field, Fields
<1>4. UserWrites(Parse(config), Parse(mine), Empty, Empty)
  BY <1>3, Values DEF UserWrites
<1>5. SameRest(Empty, Empty)
  BY DEF SameRest
<1> QED BY <1>1, <1>2, <1>4, <1>5, UserStep

\* A call is cut off, or nothing happens.
LEMMA QuietConfigStep ==
  ASSUME ConfigInv, Abandon \/ UNCHANGED configVars
  PROVE  ConfigInv'
<1>1. UNCHANGED <<config, mine, snapshots>> /\ (Return \/ op' = op)
  BY DEF Abandon, configVars
<1>2. CallInv'
  BY <1>1, CallEnds DEF ConfigInv, CallInv, Snapshot
<1> QED BY <1>1, <1>2, Untouched DEF ConfigInv

\* The snapshots account for the file in every behaviour.
LEMMA ConfigInvariance ==
  ConfigSpec => []ConfigInv
<1>1. ConfigInit => ConfigInv
  BY ConfigStart
<1>2. ConfigInv /\ [ConfigNext]_configVars => ConfigInv'
  <2> SUFFICES ASSUME ConfigInv, [ConfigNext]_configVars PROVE ConfigInv'
    OBVIOUS
  <2> QED BY CallStep, FreshStep, ClaimStep, ApplyStep, UndoStep, SettleStep, DropStep, RebaseStep,
             RotateStep, SwapStep, FinishStepKeeps, RestoreStep, EditStep, DeleteStep,
             QuietConfigStep DEF ConfigNext
<1> QED BY <1>1, <1>2, PTL DEF ConfigSpec

\* For any runtimes, versions and edits, and with a crash before any step,
\* the configuration file holds everything the user put there.
THEOREM UserValuesAreKept ==
  ConfigSpec => []UserValuesSurvive
<1>1. ConfigInv => UserValuesSurvive
  BY PropertiesFromInvariant
<1> QED BY <1>1, ConfigInvariance, PTL

\* Once no runtime has a snapshot, nothing of any runtime is left in the
\* configuration that was not the user's.
THEOREM ReleasesAreComplete ==
  ConfigSpec => []ReleasedIsRestored
<1>1. ConfigInv => ReleasedIsRestored
  BY PropertiesFromInvariant
<1> QED BY <1>1, ConfigInvariance, PTL

----------------------------------------------------------------------------
(* Conflicts. Without an edit the file is one of the documents of a        *)
(* snapshot, or of one that was laid over its prior document and will      *)
(* give it back.                                                           *)

Shows(s, c) == c = s.connected \/ (s.phase = "rotating" /\ c = s.pending)
Unapplied(s) == s.phase \in {"prepared", "restoring"}
AtPrior(s, c) == Unapplied(s) /\ c = s.prior
Covered(ss, c, ed, r) ==
  /\ Unapplied(ss[r])
  /\ \E q \in Runtimes \ ed : /\ q # r /\ ss[q] # NoSnapshot /\ Shows(ss[q], c)
                              /\ ss[q].prior = ss[r].prior
Layered(ss, c, ed) ==
  \A r \in Runtimes \ ed : ss[r] # NoSnapshot =>
    Shows(ss[r], c) \/ AtPrior(ss[r], c) \/ Covered(ss, c, ed, r)

\* What the call at work knows of the file as long as nobody edits it.
Sure ==
  /\ op.step = "claim" => config = op.file.prior
  /\ op.step = "apply" => op.runtime \notin edited /\ config = Snapshot.prior
  /\ op.step = "rebase" => config = op.file.connected /\ ~Shows(Snapshot, config)
  /\ op.step \in {"settle", "rotate", "restoring"} => config = Snapshot.connected
  /\ op.step = "finish" => config = Snapshot.pending
  /\ op.step \in {"discard", "drop"} => config = Snapshot.prior
StepInv ==
  op # NoOp =>
    /\ edited = Runtimes \/ Sure
    /\ op.step = "claim" => op.file.phase = "prepared" \/ op.file.connected = op.file.prior
    /\ op.step = "rebase" => op.file.phase = "connected"
    /\ op.step = "restore" => Snapshot.phase = "restoring"
LayerInv == edited \subseteq Runtimes /\ Layered(snapshots, config, edited) /\ StepInv

\* The state of a snapshot tells which document the file is.
LEMMA StateTells ==
  ASSUME NEW s
  PROVE  /\ SnapshotState(s) = "connected" => config = s.connected
         /\ SnapshotState(s) = "rotation_prepared" => config = s.connected /\ s.phase = "rotating"
         /\ SnapshotState(s) = "rotation_applied" => config = s.pending /\ s.phase = "rotating"
         /\ SnapshotState(s) = "conflict" /\ s.phase = "connected" => ~Shows(s, config)
         /\ Shows(s, config) \/ AtPrior(s, config) => SnapshotState(s) # "conflict"
<1>1. /\ SnapshotState(s) = "connected" => config = s.connected
      /\ SnapshotState(s) = "rotation_prepared" => config = s.connected /\ s.phase = "rotating"
      /\ SnapshotState(s) = "rotation_applied" => config = s.pending /\ s.phase = "rotating"
  BY DEF SnapshotState
<1>2. Shows(s, config) \/ AtPrior(s, config) => SnapshotState(s) # "conflict"
  BY DEF SnapshotState, Shows, AtPrior, Unapplied
<1> QED BY <1>1, <1>2

\* The last property follows from the layers.
LEMMA ConflictFromLayers ==
  ASSUME LayerInv
  PROVE  OnlyEditsConflict
BY StateTells DEF LayerInv, Layered, Covered, OnlyEditsConflict

\* At most one snapshot shows in the file, and none whose prior document it is.
LEMMA OneShows ==
  ASSUME ConfigInv, NEW q \in Runtimes, NEW r \in Runtimes,
         snapshots[q] # NoSnapshot, snapshots[r] # NoSnapshot, Shows(snapshots[q], config),
         Shows(snapshots[r], config) \/ config = snapshots[r].prior
  PROVE  q = r
<1> DEFINE x == Field(Parse(config), "exporter")
<1>1. \A p \in Runtimes : snapshots[p] # NoSnapshot =>
        snapshots[p] \in Snapshots /\ Claims(p, snapshots[p])
  BY DEF ConfigInv, SnapshotsTyped, FileInv, Restorable, KeptBy
<1>2. ASSUME NEW p \in Runtimes, snapshots[p] # NoSnapshot, Shows(snapshots[p], config)
      PROVE  x \in Of(p)
  <2>1. /\ snapshots[p].connected \in Doc
        /\ snapshots[p].phase = "rotating" => snapshots[p].pending \in Doc
    BY <1>1, <1>2, SnapshotParts DEF Claims
  <2>2. config \in Doc /\ Parse(config) = config
    BY <1>2, <2>1, ParseDoc DEF Shows, Files
  <2> QED BY <1>1, <1>2, <2>2 DEF Shows, Claims, Owned, Fields
<1>3. config = snapshots[r].prior => x \in Of(r) \cup {NoItem}
  BY <1>1 DEF Claims, Owned, Fields
<1> HIDE DEF x
<1>4. x \in Of(q) /\ x \in Of(r) \cup {NoItem}
  BY <1>2, <1>3
<1> QED BY <1>4, Values

----------------------------------------------------------------------------
\* Nothing is claimed of runtimes that all were edited.
LEMMA AllEdited ==
  ASSUME NEW ss, NEW c
  PROVE  Layered(ss, c, Runtimes)
BY DEF Layered

\* A snapshot that shows is written again.
LEMMA LayerRewritten ==
  ASSUME NEW ss, NEW c, NEW ed, Layered(ss, c, ed), NEW r \in Runtimes, NEW tt,
         tt[r] # NoSnapshot, \A q \in Runtimes \ {r} : tt[q] = ss[q],
         Shows(tt[r], c), tt[r].prior = ss[r].prior
  PROVE  Layered(tt, c, ed)
<1> SUFFICES ASSUME NEW p \in Runtimes \ ed, tt[p] # NoSnapshot, p # r
             PROVE  Shows(tt[p], c) \/ AtPrior(tt[p], c) \/ Covered(tt, c, ed, p)
  BY DEF Layered
<1>1. tt[p] = ss[p]
  OBVIOUS
<1>2. CASE Covered(ss, c, ed, p)
  <2>1. PICK q \in Runtimes \ ed : /\ q # p /\ ss[q] # NoSnapshot /\ Shows(ss[q], c)
                                   /\ ss[q].prior = ss[p].prior
    BY <1>2 DEF Covered
  <2>2. tt[q] # NoSnapshot /\ Shows(tt[q], c) /\ tt[q].prior = ss[q].prior
    BY <2>1
  <2> QED BY <1>1, <1>2, <2>1, <2>2 DEF Covered
<1> QED BY <1>1, <1>2 DEF Layered

\* A snapshot goes while its prior document is there.
LEMMA LayerDropped ==
  ASSUME NEW ss, NEW c, NEW ed, Layered(ss, c, ed), NEW r \in Runtimes, NEW tt,
         tt[r] = NoSnapshot, \A q \in Runtimes \ {r} : tt[q] = ss[q], c = ss[r].prior
  PROVE  Layered(tt, c, ed)
<1> SUFFICES ASSUME NEW p \in Runtimes \ ed, tt[p] # NoSnapshot
             PROVE  Shows(tt[p], c) \/ AtPrior(tt[p], c) \/ Covered(tt, c, ed, p)
  BY DEF Layered
<1>1. tt[p] = ss[p] /\ p # r
  OBVIOUS
<1>2. CASE Covered(ss, c, ed, p)
  <2>1. PICK q \in Runtimes \ ed : /\ q # p /\ ss[q] # NoSnapshot /\ Shows(ss[q], c)
                                   /\ ss[q].prior = ss[p].prior
    BY <1>2 DEF Covered
  <2>2. CASE q = r
    BY <1>1, <1>2, <2>1, <2>2 DEF Covered, AtPrior
  <2>3. CASE q # r
    BY <1>1, <1>2, <2>1, <2>3 DEF Covered
  <2> QED BY <2>2, <2>3
<1> QED BY <1>1, <1>2 DEF Layered

\* A snapshot that did not show is made for the file as it is.
LEMMA LayerRecorded ==
  ASSUME NEW ss, NEW c, NEW ed, Layered(ss, c, ed), NEW r \in Runtimes, NEW tt,
         \A q \in Runtimes \ {r} : tt[q] = ss[q],
         ss[r] = NoSnapshot \/ ~Shows(ss[r], c), Shows(tt[r], c) \/ AtPrior(tt[r], c)
  PROVE  Layered(tt, c, ed \ {r})
<1> SUFFICES ASSUME NEW p \in Runtimes \ ed, tt[p] # NoSnapshot, p # r
             PROVE  Shows(tt[p], c) \/ AtPrior(tt[p], c) \/ Covered(tt, c, ed \ {r}, p)
  BY DEF Layered
<1>1. tt[p] = ss[p]
  OBVIOUS
<1>2. CASE Covered(ss, c, ed, p)
  <2>1. PICK q \in Runtimes \ ed : /\ q # p /\ ss[q] # NoSnapshot /\ Shows(ss[q], c)
                                   /\ ss[q].prior = ss[p].prior
    BY <1>2 DEF Covered
  <2>2. q # r /\ tt[q] = ss[q]
    BY <2>1
  <2> QED BY <1>1, <1>2, <2>1, <2>2 DEF Covered
<1> QED BY <1>1, <1>2 DEF Layered

\* A connect lays its document over the prior one.
LEMMA LayerApplied ==
  ASSUME ConfigInv, LayerInv, NEW r \in Runtimes \ edited,
         snapshots[r] # NoSnapshot, config = snapshots[r].prior
  PROVE  Layered(snapshots, snapshots[r].connected, edited)
<1> SUFFICES ASSUME NEW p \in Runtimes \ edited, snapshots[p] # NoSnapshot, p # r
             PROVE  Covered(snapshots, snapshots[r].connected, edited, p)
  BY DEF Layered, Shows
<1>1. ~Shows(snapshots[p], config)
  BY OneShows
<1>2. CASE AtPrior(snapshots[p], config)
  BY <1>2 DEF AtPrior, Covered, Shows
<1>3. CASE Covered(snapshots, config, edited, p)
  <2>1. PICK q \in Runtimes \ edited : /\ q # p /\ snapshots[q] # NoSnapshot
                                       /\ Shows(snapshots[q], config)
                                       /\ snapshots[q].prior = snapshots[p].prior
    BY <1>3 DEF Covered
  <2>2. q = r
    BY <2>1, OneShows
  <2> QED BY <1>3, <2>1, <2>2 DEF Covered, Shows
<1> QED BY <1>1, <1>2, <1>3 DEF LayerInv, Layered

\* While the document of r shows, everybody else is covered by it.
LEMMA CoveredByShown ==
  ASSUME ConfigInv, LayerInv, NEW r \in Runtimes, snapshots[r] # NoSnapshot,
         Shows(snapshots[r], config), NEW p \in Runtimes \ edited, snapshots[p] # NoSnapshot, p # r
  PROVE  Unapplied(snapshots[p]) /\ snapshots[r].prior = snapshots[p].prior /\ r \notin edited
<1>1. ~Shows(snapshots[p], config) /\ ~AtPrior(snapshots[p], config)
  BY OneShows DEF AtPrior
<1>2. Covered(snapshots, config, edited, p)
  BY <1>1 DEF LayerInv, Layered
<1>3. PICK q \in Runtimes \ edited : /\ q # p /\ snapshots[q] # NoSnapshot
                                     /\ Shows(snapshots[q], config)
                                     /\ snapshots[q].prior = snapshots[p].prior
  BY <1>2 DEF Covered
<1>4. q = r
  BY <1>3, OneShows
<1> QED BY <1>2, <1>3, <1>4 DEF Covered

\* The call goes on and knows what it needs.
LEMMA StepGoesOn ==
  ASSUME ConfigInv, op # NoOp, NEW x \in PlainSteps, Goto(x),
         \/ edited' = Runtimes
         \/ /\ x = "apply" => op.runtime \notin edited' /\ config' = snapshots'[op.runtime].prior
            /\ x \in {"settle", "rotate", "restoring"} => config' = snapshots'[op.runtime].connected
            /\ x = "finish" => config' = snapshots'[op.runtime].pending
            /\ x = "drop" => config' = snapshots'[op.runtime].prior,
         x = "restore" => snapshots'[op.runtime].phase = "restoring"
  PROVE  StepInv'
<1>1. op'.runtime = op.runtime /\ op'.step = x
  BY AtWork DEF Goto, Ops
<1> QED BY <1>1 DEF StepInv, Sure, Snapshot, PlainSteps

\* A call that is over knows nothing.
LEMMA StepEnds ==
  ASSUME Return
  PROVE  StepInv'
BY DEF Return, StepInv

\* The documents of a snapshot that is written again.
LEMMA NewDocuments ==
  ASSUME ConfigInv, op # NoOp, Snapshot # NoSnapshot
  PROVE  /\ \A p \in {"connected", "restoring"} :
              LET t == [Snapshot EXCEPT !.phase = p]
              IN /\ t \in Snapshots /\ t.connected = Snapshot.connected
                 /\ t.prior = Snapshot.prior /\ t.phase = p
         /\ op.version \in Versions =>
              LET t == Rotating(Snapshot, op.runtime, op.version)
              IN /\ t \in Snapshots /\ t.connected = Snapshot.connected
                 /\ t.prior = Snapshot.prior
         /\ Snapshot.phase = "rotating" =>
              LET t == Rotated(Snapshot)
              IN /\ t \in Snapshots /\ t.connected = Snapshot.pending
                 /\ t.prior = Snapshot.prior
<1>1. Snapshot \in Snapshots /\ Claims(op.runtime, Snapshot) /\ op.runtime \in Runtimes
  BY AtWork
<1>2. ASSUME NEW p \in {"connected", "restoring"}
      PROVE  LET t == [Snapshot EXCEPT !.phase = p]
             IN /\ t \in Snapshots /\ t.connected = Snapshot.connected
                /\ t.prior = Snapshot.prior /\ t.phase = p
  BY <1>1 DEF Snapshots
<1>3. ASSUME op.version \in Versions
      PROVE  LET t == Rotating(Snapshot, op.runtime, op.version)
             IN /\ t \in Snapshots /\ t.connected = Snapshot.connected
                /\ t.prior = Snapshot.prior
  <2>1. Rotating(Snapshot, op.runtime, op.version) \in Snapshots
    BY <1>1, <1>3, RotatingClaims
  <2>2. /\ Rotating(Snapshot, op.runtime, op.version).connected = Snapshot.connected
        /\ Rotating(Snapshot, op.runtime, op.version).prior = Snapshot.prior
    BY <1>1 DEF Rotating, Snapshots
  <2> QED BY <2>1, <2>2
<1>4. ASSUME Snapshot.phase = "rotating"
      PROVE  LET t == Rotated(Snapshot)
             IN /\ t \in Snapshots /\ t.connected = Snapshot.pending
                /\ t.prior = Snapshot.prior
  <2>1. Rotated(Snapshot) \in Snapshots
    BY <1>1, <1>4, RotatedClaims
  <2>2. Rotated(Snapshot).connected = Snapshot.pending /\ Rotated(Snapshot).prior = Snapshot.prior
    BY <1>1 DEF Rotated, Snapshots
  <2> QED BY <2>1, <2>2
<1> QED BY <1>2, <1>3, <1>4

\* A rewritten snapshot that shows, or runtimes that all were edited.
LEMMA LayerKept ==
  ASSUME ConfigInv, LayerInv, op # NoOp, NEW t \in Snapshots, Write(t),
         config' = config, edited' = edited, t.prior = Snapshot.prior,
         edited = Runtimes \/ config = t.connected
  PROVE  /\ Layered(snapshots', config', edited') /\ snapshots'[op.runtime] = t
         /\ edited' \subseteq Runtimes
<1>1. /\ snapshots'[op.runtime] = t /\ t # NoSnapshot /\ op.runtime \in Runtimes
      /\ \A q \in Runtimes \ {op.runtime} : snapshots'[q] = snapshots[q]
      /\ Snapshot = snapshots[op.runtime]
  BY Written, AtWork, ConfigConstants
<1>2. CASE edited = Runtimes
  BY <1>1, <1>2, AllEdited
<1>3. CASE config = t.connected
  <2>1. Layered(snapshots, config, edited) /\ edited \subseteq Runtimes
    BY DEF LayerInv
  <2>2. Shows(t, config)
    BY <1>3 DEF Shows
  <2>3. Layered(snapshots', config, edited)
    BY <1>1, <2>1, <2>2, LayerRewritten
  <2> QED BY <1>1, <2>1, <2>3
<1> QED BY <1>2, <1>3

\* The phase is written while the connected document is there.
LEMMA LayerSettle ==
  ASSUME ConfigInv, LayerInv, Settle \/ DisconnectRestoring
  PROVE  LayerInv'
<1>0. /\ op # NoOp /\ op.step \in {"settle", "restoring"} /\ config' = config
      /\ edited' = edited /\ (Return \/ Goto("restore"))
      /\ \E p \in {"connected", "restoring"} :
           /\ Write([Snapshot EXCEPT !.phase = p])
           /\ Goto("restore") => p = "restoring"
  <2>1. CASE Settle
    <3>1. Return
      BY <2>1 DEF Settle
    <3>2. op # NoOp
      BY <2>1 DEF Settle, At
    <3>3. ~Goto("restore")
      BY <3>1, <3>2, AtWork, ConfigConstants DEF Return, Goto, Ops
    <3> QED BY <2>1, <3>1, <3>3 DEF Settle, At, user
  <2>2. CASE DisconnectRestoring
    BY <2>2 DEF DisconnectRestoring, At, user
  <2> QED BY <2>1, <2>2
<1>1. PICK p \in {"connected", "restoring"} :
        Write([Snapshot EXCEPT !.phase = p]) /\ (Goto("restore") => p = "restoring")
  BY <1>0
<1>2. Snapshot # NoSnapshot
  BY <1>0 DEF ConfigInv, CallInv
<1> DEFINE t == [Snapshot EXCEPT !.phase = p]
<1>3. /\ t \in Snapshots /\ t.connected = Snapshot.connected
      /\ t.prior = Snapshot.prior /\ t.phase = p /\ Write(t)
  BY <1>0, <1>1, <1>2, NewDocuments
<1> HIDE DEF t
<1>4. edited = Runtimes \/ config = t.connected
  BY <1>0, <1>3 DEF LayerInv, StepInv, Sure
<1>5. /\ Layered(snapshots', config', edited') /\ snapshots'[op.runtime] = t
      /\ edited' \subseteq Runtimes
  BY <1>0, <1>3, <1>4, LayerKept
<1>6. StepInv'
  BY <1>0, <1>1, <1>3, <1>5, StepEnds, StepGoesOn DEF PlainSteps
<1> QED BY <1>5, <1>6 DEF LayerInv

\* The rotation is announced while the connected document is there.
LEMMA LayerRotate ==
  ASSUME ConfigInv, LayerInv, Rotate
  PROVE  LayerInv'
<1> DEFINE t == Rotating(Snapshot, op.runtime, op.version)
<1>0. /\ op # NoOp /\ op.step = "rotate" /\ config' = config /\ edited' = edited
      /\ (Goto("swap") \/ Return) /\ Write(t)
  BY DEF Rotate, At, user
<1>1. Snapshot # NoSnapshot /\ op.version \in Versions
  BY <1>0, AtWork DEF ConfigInv, CallInv
<1>2. t \in Snapshots /\ t.connected = Snapshot.connected /\ t.prior = Snapshot.prior
  BY <1>0, <1>1, NewDocuments
<1> HIDE DEF t
<1>3. edited = Runtimes \/ config = t.connected
  BY <1>0, <1>2 DEF LayerInv, StepInv, Sure
<1>4. Layered(snapshots', config', edited') /\ edited' \subseteq Runtimes
  BY <1>0, <1>2, <1>3, LayerKept
<1>5. StepInv'
  BY <1>0, StepEnds, StepGoesOn DEF PlainSteps
<1> QED BY <1>4, <1>5 DEF LayerInv

\* The rotation is finished while the pending document is there.
LEMMA LayerFinish ==
  ASSUME ConfigInv, LayerInv, FinishRotation
  PROVE  LayerInv'
<1> DEFINE t == Rotated(Snapshot)
<1>0. /\ op # NoOp /\ op.step = "finish" /\ config' = config /\ edited' = edited
      /\ (Goto("restoring") \/ Return) /\ Write(t)
  BY DEF FinishRotation, At, user
<1>1. Snapshot # NoSnapshot /\ Snapshot.phase = "rotating"
  BY <1>0 DEF ConfigInv, CallInv
<1>2. t \in Snapshots /\ t.connected = Snapshot.pending /\ t.prior = Snapshot.prior
  BY <1>0, <1>1, NewDocuments
<1> HIDE DEF t
<1>3. edited = Runtimes \/ config = t.connected
  BY <1>0, <1>2 DEF LayerInv, StepInv, Sure
<1>4. /\ Layered(snapshots', config', edited') /\ snapshots'[op.runtime] = t
      /\ edited' \subseteq Runtimes
  BY <1>0, <1>2, <1>3, LayerKept
<1>5. StepInv'
  BY <1>0, <1>3, <1>4, StepEnds, StepGoesOn DEF PlainSteps
<1> QED BY <1>4, <1>5 DEF LayerInv

\* The snapshot goes; its prior document is there, unless all was edited.
LEMMA LayerDrop ==
  ASSUME ConfigInv, LayerInv, op # NoOp, Write(NoSnapshot),
         config' = config, edited' = edited, edited = Runtimes \/ config = Snapshot.prior,
         Return \/ Goto("fresh")
  PROVE  LayerInv'
<1>1. /\ snapshots'[op.runtime] = NoSnapshot /\ op.runtime \in Runtimes
      /\ \A q \in Runtimes \ {op.runtime} : snapshots'[q] = snapshots[q]
      /\ Snapshot = snapshots[op.runtime]
  BY Written, AtWork
<1>2. Layered(snapshots, config, edited) /\ edited \subseteq Runtimes
  BY DEF LayerInv
<1>3. Layered(snapshots', config', edited')
  BY <1>1, <1>2, AllEdited, LayerDropped
<1>4. StepInv'
  BY StepEnds, StepGoesOn DEF PlainSteps
<1> QED BY <1>2, <1>3, <1>4 DEF LayerInv

\* The snapshot goes after the prior document came back.
LEMMA LayerDrops ==
  ASSUME ConfigInv, LayerInv, Discard \/ DisconnectDrop
  PROVE  LayerInv'
<1>0. /\ op # NoOp /\ op.step \in {"discard", "drop"} /\ config' = config /\ edited' = edited
      /\ Write(NoSnapshot) /\ (Goto("fresh") \/ Return)
  BY DEF Discard, DisconnectDrop, At, user
<1>1. edited = Runtimes \/ config = Snapshot.prior
  BY <1>0 DEF LayerInv, StepInv, Sure
<1> QED BY <1>0, <1>1, LayerDrop

\* The snapshot goes only if the prior document is there.
LEMMA LayerUndo ==
  ASSUME ConfigInv, LayerInv, ConnectUndo \/ DisconnectRecheck
  PROVE  LayerInv'
<1>0. /\ op # NoOp /\ config' = config /\ edited' = edited /\ Return
      /\ \/ snapshots' = snapshots
         \/ SnapshotState(Snapshot) \in {"prepared_prior", "restored_prior"} /\ Write(NoSnapshot)
  BY DEF ConnectUndo, DisconnectRecheck, At, user
<1>1. CASE snapshots' = snapshots
  BY <1>0, <1>1, StepEnds DEF LayerInv
<1>2. CASE SnapshotState(Snapshot) \in {"prepared_prior", "restored_prior"} /\ Write(NoSnapshot)
  BY <1>0, <1>2, StateOfPrior, LayerDrop
<1> QED BY <1>0, <1>1, <1>2

\* The file is replaced; the snapshots stay.
LEMMA LayerApply ==
  ASSUME ConfigInv, LayerInv, ConnectApply
  PROVE  LayerInv'
<1>0. /\ op # NoOp /\ op.step = "apply" /\ snapshots' = snapshots /\ edited' = edited
      /\ \/ /\ config = Snapshot.prior /\ config' = Snapshot.connected
            /\ Goto("settle") \/ Goto("undo") \/ Return
         \/ config' = config /\ Goto("undo")
  BY DEF ConnectApply, At, user
<1>1. /\ Snapshot # NoSnapshot /\ Snapshot = snapshots[op.runtime] /\ op.runtime \in Runtimes
      /\ edited \subseteq Runtimes /\ Layered(snapshots, config, edited)
      /\ edited = Runtimes \/ op.runtime \notin edited
  BY <1>0, AtWork DEF ConfigInv, CallInv, LayerInv, StepInv, Sure
<1>2. StepInv'
  BY <1>0, <1>1, StepEnds, StepGoesOn DEF PlainSteps
<1>3. CASE config' = config
  BY <1>0, <1>1, <1>2, <1>3 DEF LayerInv
<1>4. CASE config = Snapshot.prior /\ config' = Snapshot.connected
  <2>1. Layered(snapshots, Snapshot.connected, edited)
    BY <1>1, <1>4, AllEdited, LayerApplied
  <2> QED BY <1>0, <1>1, <1>2, <1>4, <2>1 DEF LayerInv
<1> QED BY <1>0, <1>3, <1>4

\* The pending document takes the place of the connected one.
LEMMA LayerSwap ==
  ASSUME ConfigInv, LayerInv, Swap
  PROVE  LayerInv'
<1>0. /\ op # NoOp /\ op.step = "swap" /\ snapshots' = snapshots /\ edited' = edited
      /\ config = Snapshot.connected /\ config' = Snapshot.pending
      /\ Goto("finish") \/ Return
  BY DEF Swap, At, user
<1>1. /\ Snapshot # NoSnapshot /\ Snapshot = snapshots[op.runtime] /\ op.runtime \in Runtimes
      /\ edited \subseteq Runtimes /\ Snapshot.phase = "rotating"
  BY <1>0, AtWork DEF ConfigInv, CallInv, LayerInv
<1>2. StepInv'
  BY <1>0, <1>1, StepEnds, StepGoesOn DEF PlainSteps
<1>3. Shows(Snapshot, config) /\ Shows(Snapshot, config')
  BY <1>0, <1>1 DEF Shows
<1>4. Layered(snapshots, config', edited)
  <2> SUFFICES ASSUME NEW p \in Runtimes \ edited, snapshots[p] # NoSnapshot, p # op.runtime
               PROVE  Covered(snapshots, config', edited, p)
    BY <1>1, <1>3 DEF Layered
  <2>1. /\ Unapplied(snapshots[p]) /\ Snapshot.prior = snapshots[p].prior
        /\ op.runtime \notin edited
    BY <1>1, <1>3, CoveredByShown
  <2> QED BY <1>1, <1>3, <2>1 DEF Covered
<1> QED BY <1>0, <1>1, <1>2, <1>4 DEF LayerInv

\* The layer is taken off: whoever it covered is at its prior document.
LEMMA LayerRestore ==
  ASSUME ConfigInv, LayerInv, DisconnectRestore
  PROVE  LayerInv'
<1>0. /\ op # NoOp /\ op.step = "restore" /\ snapshots' = snapshots /\ edited' = edited
      /\ \/ /\ config = Snapshot.connected /\ config' = Snapshot.prior
            /\ Goto("drop") \/ Goto("recheck") \/ Return
         \/ config' = config /\ Goto("recheck")
  BY DEF DisconnectRestore, At, user
<1>1. /\ Snapshot # NoSnapshot /\ Snapshot = snapshots[op.runtime] /\ op.runtime \in Runtimes
      /\ edited \subseteq Runtimes /\ Layered(snapshots, config, edited)
      /\ Snapshot.phase = "restoring"
  BY <1>0, AtWork DEF ConfigInv, CallInv, LayerInv, StepInv
<1>2. StepInv'
  BY <1>0, <1>1, StepEnds, StepGoesOn DEF PlainSteps
<1>3. CASE config' = config
  BY <1>0, <1>1, <1>2, <1>3 DEF LayerInv
<1>4. CASE config = Snapshot.connected /\ config' = Snapshot.prior
  <2>1. Shows(Snapshot, config) /\ AtPrior(Snapshot, config')
    BY <1>1, <1>4 DEF Shows, AtPrior, Unapplied
  <2>2. ASSUME NEW p \in Runtimes \ edited, snapshots[p] # NoSnapshot, p # op.runtime
        PROVE  AtPrior(snapshots[p], config')
    BY <1>1, <1>4, <2>1, <2>2, CoveredByShown DEF AtPrior
  <2>3. Layered(snapshots, config', edited)
    BY <1>1, <2>1, <2>2 DEF Layered
  <2> QED BY <1>0, <1>1, <1>2, <2>3 DEF LayerInv
<1> QED BY <1>0, <1>3, <1>4

\* A snapshot is recorded: from now on the runtime answers for the file.
LEMMA LayerClaim ==
  ASSUME ConfigInv, LayerInv, ConnectClaim
  PROVE  LayerInv'
<1>0. /\ op # NoOp /\ op.step = "claim" /\ config' = config /\ Write(op.file)
      /\ (Goto("apply") \/ Return)
      /\ edited' = IF config = op.file.prior THEN edited \ {op.runtime}
                                             ELSE edited \cup {op.runtime}
  BY DEF ConnectClaim, At, Recorded
<1>1. /\ op.file # NoSnapshot /\ Snapshot = NoSnapshot /\ op.runtime \in Runtimes
      /\ Snapshot = snapshots[op.runtime] /\ op.file \in Snapshots
      /\ edited \subseteq Runtimes /\ Layered(snapshots, config, edited)
      /\ edited = Runtimes \/ config = op.file.prior
      /\ op.file.phase = "prepared" \/ op.file.connected = op.file.prior
  BY <1>0, AtWork DEF ConfigInv, CallInv, LayerInv, StepInv, Sure
<1>2. snapshots'[op.runtime] = op.file
      /\ \A q \in Runtimes \ {op.runtime} : snapshots'[q] = snapshots[q]
  BY <1>0, <1>1, Written
<1>3. CASE config = op.file.prior
  <2>1. Shows(op.file, config) \/ AtPrior(op.file, config)
    BY <1>1, <1>3 DEF Shows, AtPrior, Unapplied
  <2>2. Layered(snapshots', config, edited')
    BY <1>0, <1>1, <1>2, <1>3, <2>1, LayerRecorded
  <2>3. StepInv'
    BY <1>0, <1>1, <1>2, <1>3, StepEnds, StepGoesOn DEF PlainSteps
  <2> QED BY <1>0, <1>1, <2>2, <2>3 DEF LayerInv
<1>4. CASE config # op.file.prior
  <2>1. edited' = Runtimes
    BY <1>0, <1>1, <1>4
  <2>2. StepInv'
    BY <1>0, <2>1, StepEnds, StepGoesOn DEF PlainSteps
  <2> QED BY <2>1, <2>2, AllEdited DEF LayerInv
<1> QED BY <1>3, <1>4

\* A rebased snapshot is made for the file as it is.
LEMMA LayerRebase ==
  ASSUME ConfigInv, LayerInv, ConnectRebase
  PROVE  LayerInv'
<1>0. /\ op # NoOp /\ op.step = "rebase" /\ config' = config /\ Write(op.file)
      /\ (Goto("rotate") \/ Return)
      /\ edited' = IF config = op.file.connected THEN edited \ {op.runtime}
                                                 ELSE edited \cup {op.runtime}
  BY DEF ConnectRebase, At, Recorded
<1>1. /\ op.file # NoSnapshot /\ op.runtime \in Runtimes
      /\ Snapshot = snapshots[op.runtime] /\ op.file \in Snapshots
      /\ edited \subseteq Runtimes /\ Layered(snapshots, config, edited)
      /\ edited = Runtimes \/ (config = op.file.connected /\ ~Shows(Snapshot, config))
  BY <1>0, AtWork DEF ConfigInv, CallInv, LayerInv, StepInv, Sure
<1>2. snapshots'[op.runtime] = op.file
      /\ \A q \in Runtimes \ {op.runtime} : snapshots'[q] = snapshots[q]
  BY <1>0, <1>1, Written
<1>3. CASE config = op.file.connected
  <2>1. Shows(op.file, config)
    BY <1>3 DEF Shows
  <2>2. Layered(snapshots', config, edited')
    <3>1. CASE edited = Runtimes
      BY <1>0, <1>2, <1>3, <2>1, <3>1 DEF Layered
    <3>2. CASE ~Shows(Snapshot, config)
      BY <1>0, <1>1, <1>2, <1>3, <2>1, <3>2, LayerRecorded
    <3> QED BY <1>1, <3>1, <3>2
  <2>3. StepInv'
    BY <1>0, <1>2, <1>3, StepEnds, StepGoesOn DEF PlainSteps
  <2> QED BY <1>0, <1>1, <2>2, <2>3 DEF LayerInv
<1>4. CASE config # op.file.connected
  <2>1. edited' = Runtimes
    BY <1>0, <1>1, <1>4
  <2>2. StepInv'
    BY <1>0, <2>1, StepEnds, StepGoesOn DEF PlainSteps
  <2> QED BY <2>1, <2>2, AllEdited DEF LayerInv
<1> QED BY <1>3, <1>4

\* The claim is made for the file as it is.
LEMMA LayerFresh ==
  ASSUME ConfigInv, LayerInv, ConnectFresh
  PROVE  LayerInv'
<1> DEFINE s == Claim(config, op.runtime, op.version)
<1>0. /\ op # NoOp /\ UNCHANGED <<config, snapshots, edited>>
      /\ Return \/ op' = [op EXCEPT !.step = "claim", !.file = s]
  BY DEF ConnectFresh, At, Claim, user
<1>1. s.prior = config /\ (s.phase = "prepared" \/ s.connected = s.prior)
  BY DEF Claim
<1> HIDE DEF s
<1>2. StepInv'
  <2>1. CASE Return
    BY <2>1, StepEnds
  <2>2. CASE op' = [op EXCEPT !.step = "claim", !.file = s]
    <3>1. op'.step = "claim" /\ op'.file = s
      BY <1>0, <2>2, AtWork DEF Ops
    <3> QED BY <1>0, <1>1, <3>1 DEF StepInv, Sure
  <2> QED BY <1>0, <2>1, <2>2
<1> QED BY <1>0, <1>2 DEF LayerInv

\* What a call that begins has seen of the file.
LEMMA FirstStepKnows ==
  ASSUME NEW s, NEW v
  PROVE  /\ LET step == ConnectStep(s, v)
            IN /\ step \in {"settle", "rotate"} => config = s.connected
               /\ step = "finish" => config = s.pending
               /\ step = "discard" => config = s.prior
               /\ step = "rebase" => s.phase = "connected" /\ ~Shows(s, config)
         /\ \A call \in {"disconnect", "status"} :
              LET step == ReleaseStep(call, s, v)
              IN /\ step \in {"settle", "restoring"} => config = s.connected
                 /\ step = "finish" => config = s.pending
                 /\ step = "discard" => config = s.prior
                 /\ step = "restore" => s.phase = "restoring"
<1> DEFINE state == SnapshotState(s)
<1>1. /\ state = "connected" => config = s.connected
      /\ state = "rotation_applied" => config = s.pending
      /\ state = "conflict" /\ s.phase = "connected" => ~Shows(s, config)
      /\ state \in {"prepared_prior", "restored_prior"} => config = s.prior
  BY StateTells, StateOfPrior
<1>2. Rebases(s) => s.phase = "connected" /\ ~Shows(s, config)
  BY <1>1 DEF Rebases
<1> HIDE DEF state
<1>3. /\ FinishStep(state) \in {"swap", "finish", "return"}
      /\ FinishStep(state) = "finish" => config = s.pending
  BY <1>1 DEF FinishStep
<1>4. /\ ConnectStep(s, v) \in {"settle", "rotate"} => config = s.connected
      /\ ConnectStep(s, v) = "finish" => config = s.pending
      /\ ConnectStep(s, v) = "discard" => config = s.prior
      /\ ConnectStep(s, v) = "rebase" => s.phase = "connected" /\ ~Shows(s, config)
  BY <1>1, <1>2, <1>3 DEF ConnectStep, state
<1>5. ASSUME NEW call \in {"disconnect", "status"}
      PROVE  /\ ReleaseStep(call, s, v) \in {"settle", "restoring"} => config = s.connected
             /\ ReleaseStep(call, s, v) = "finish" => config = s.pending
             /\ ReleaseStep(call, s, v) = "discard" => config = s.prior
             /\ ReleaseStep(call, s, v) = "restore" => s.phase = "restoring"
  BY <1>1, <1>3, <1>5 DEF ReleaseStep, state
<1> QED BY <1>4, <1>5

\* A call begins with what it saw of the file.
LEMMA LayerCall ==
  ASSUME ConfigInv, LayerInv, NEW r \in Runtimes,
         NEW call \in {"connect", "disconnect", "status"}, NEW v \in Versions \cup {NoVersion},
         Call(r, call, v)
  PROVE  LayerInv'
<1> DEFINE s == snapshots[r]
           step == IF s = NoSnapshot
                   THEN IF call = "connect" THEN "fresh" ELSE "return"
                   ELSE IF call = "connect" THEN ConnectStep(s, v) ELSE ReleaseStep(call, s, v)
           file == IF step = "rebase" THEN Rebased(s) ELSE NoSnapshot
<1>0. /\ op = NoOp /\ UNCHANGED <<config, snapshots, edited>>
      /\ \/ op' = op
         \/ op' = [runtime |-> r, call |-> call, version |-> v, step |-> step, file |-> file]
  BY DEF Call, user
<1>1. CASE op' = op
  BY <1>0, <1>1 DEF LayerInv, StepInv
<1>2. CASE op' = [runtime |-> r, call |-> call, version |-> v, step |-> step, file |-> file]
  <2>1. /\ s # NoSnapshot => step \notin {"claim", "apply", "drop"}
        /\ s = NoSnapshot => step \in {"fresh", "return"}
    BY FirstSteps
  <2>2. s # NoSnapshot =>
          /\ step \in {"settle", "rotate", "restoring"} => config = s.connected
          /\ step = "finish" => config = s.pending
          /\ step = "discard" => config = s.prior
          /\ step = "rebase" => s.phase = "connected" /\ ~Shows(s, config)
          /\ step = "restore" => s.phase = "restoring"
    BY FirstSteps, FirstStepKnows
  <2>3. s # NoSnapshot => s \in Snapshots
    BY DEF ConfigInv, SnapshotsTyped
  <2> HIDE DEF step, s
  <2>4. step = "rebase" => file.connected = config /\ file.phase = "connected"
    BY <2>1, <2>2, <2>3 DEF Rebased, Snapshots
  <2> HIDE DEF file
  <2>5. op'.runtime = r /\ op'.step = step /\ op'.file = file
    BY <1>2
  <2>6. Snapshot' = s
    BY <1>0, <2>5 DEF Snapshot, s
  <2>7. StepInv'
    BY <1>0, <2>1, <2>2, <2>4, <2>5, <2>6 DEF StepInv, Sure
  <2> QED BY <1>0, <2>7 DEF LayerInv
<1> QED BY <1>0, <1>1, <1>2

\* After an edit of the user's, nobody answers for the file.
LEMMA LayerUser ==
  ASSUME ConfigInv, LayerInv, Edit \/ Delete
  PROVE  LayerInv'
<1>1. edited' = Runtimes /\ UNCHANGED <<snapshots, op>>
  BY DEF Edit, Delete
<1>2. StepInv'
  BY <1>1 DEF LayerInv, StepInv, Snapshot
<1> QED BY <1>1, <1>2, AllEdited DEF LayerInv

\* A call that is cut off leaves file and snapshots alone.
LEMMA LayerQuiet ==
  ASSUME LayerInv, Abandon \/ UNCHANGED configVars
  PROVE  LayerInv'
<1>1. UNCHANGED <<config, snapshots, edited>> /\ (Return \/ op' = op)
  BY DEF Abandon, configVars, user
<1>2. StepInv'
  BY <1>1, StepEnds DEF LayerInv, StepInv, Sure, Snapshot
<1> QED BY <1>1, <1>2 DEF LayerInv

\* The documents are layered in every behaviour.
LEMMA LayerInvariance ==
  ConfigSpec => []LayerInv
<1>1. ConfigInit => LayerInv
  BY DEF ConfigInit, LayerInv, Layered, StepInv
<1>2. ConfigInv /\ LayerInv /\ [ConfigNext]_configVars => LayerInv'
  <2> SUFFICES ASSUME ConfigInv, LayerInv, [ConfigNext]_configVars PROVE LayerInv'
    OBVIOUS
  <2> QED BY LayerCall, LayerFresh, LayerClaim, LayerApply, LayerUndo, LayerSettle, LayerDrops,
             LayerRebase, LayerRotate, LayerSwap, LayerFinish, LayerRestore, LayerUser,
             LayerQuiet DEF ConfigNext
<1> QED BY <1>1, <1>2, ConfigInvariance, PTL DEF ConfigSpec

\* Whatever fails and wherever a call is cut off, the file and the one
\* snapshot there is agree until the user edits the file: the next call can
\* go on.
THEOREM OnlyEditsMakeConflicts ==
  ConfigSpec => []OnlyEditsConflict
<1>1. LayerInv => OnlyEditsConflict
  BY ConflictFromLayers
<1> QED BY <1>1, LayerInvariance, PTL
==============================================================================
