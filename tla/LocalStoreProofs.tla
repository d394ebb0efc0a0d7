-------------------------- MODULE LocalStoreProofs --------------------------
(***************************************************************************)
(* The local store keeps every trace in one tier, never serves a stale     *)
(* projection and never hides a record without advancing the visibility    *)
(* epoch: for every set of spans, traces, streams and observations, every  *)
(* threshold and every bound. Each transaction is treated as an operator   *)
(* on the database; the system's steps then follow.                        *)
(***************************************************************************)
EXTENDS LocalStore, DomainProofs

(* The inductive strengthening of OneTier: the summary rows that           *)
(* maintenance and ingest decide from stand for existing span rows.        *)
HotIsIndexed(d) ==
  \A s \in Spans : d.records[s] # NoState => d.index[d.records[s].trace] # NoRow

ArchivedIsControlled(d) ==
  \A s \in Spans : d.archived[s] # NoState => d.control[d.archived[s].trace] # NoRow

IndexedIsHot(d) ==
  \A t \in Traces : d.index[t] # NoRow => \E s \in Spans : s \in HotSpans(d, t)

ControlledIsArchived(d) ==
  \A t \in Traces : d.control[t] # NoRow =>
    d.index[t] = NoRow /\ \E s \in Spans : s \in ArchivedSpans(d, t)

ExpiredIsGone(d) ==
  \A t \in Traces : Expired(d, t) => d.index[t] = NoRow /\ d.control[t] = NoRow

TierInv(d) ==
  /\ HotIsIndexed(d)
  /\ ArchivedIsControlled(d)
  /\ IndexedIsHot(d)
  /\ ControlledIsArchived(d)
  /\ ExpiredIsGone(d)

DbInv(d) == DbTypeOK(d) /\ TierInv(d)

(* What a reader of the projection may rely on between two databases.      *)
Tracks(d, e) == e.dirty \/ (e.dirty = d.dirty /\ Visible(e) = Visible(d))

KeepsVisible(d, e) ==
  \A s \in Spans : Visible(d)[s] # NoState => Visible(e)[s] # NoState

(* What every ingest and maintenance transaction guarantees.               *)
Sound(d, e) ==
  /\ DbInv(e)
  /\ Tracks(d, e)
  /\ KeepsVisible(d, e) \/ e.epoch > d.epoch
  /\ e.epoch >= d.epoch

DbFields == {"cursors", "inputs", "dispositions", "observations", "records",
             "unresolved", "index", "control", "archived", "guards", "tombstones",
             "receipts", "dirty", "generation", "acknowledged", "epoch"}

(* The columns of the database.                                            *)
LEMMA Columns == DOMAIN EmptyDb = DbFields
BY DEF EmptyDb, DbFields

(* A sentinel is no row of its table, in the form the steps use it.        *)
LEMMA Sentinels ==
  /\ NoState \notin DomainSpanState
  /\ NoRow \notin IndexRows
  /\ NoRow \notin ControlRows
BY StateSentinelAssumption, RowSentinelAssumption

(* The columns the tiers live in.                                          *)
SameTiers(d, e) ==
  /\ e.records = d.records /\ e.archived = d.archived
  /\ e.index = d.index /\ e.control = d.control
  /\ e.tombstones = d.tombstones

(* A transaction that leaves the tiers alone keeps their invariant.        *)
LEMMA TiersFrame ==
  ASSUME NEW d, NEW e, SameTiers(d, e)
  PROVE  /\ TierInv(d) => TierInv(e)
         /\ Visible(e) = Visible(d)
BY DEF SameTiers, TierInv, HotIsIndexed, ArchivedIsControlled, IndexedIsHot,
       ControlledIsArchived, ExpiredIsGone, HotSpans, ArchivedSpans, Expired, Visible

(* The newest rows of a table are rows of the table.                       *)
LEMMA NewestSubset == ASSUME NEW rows, NEW n PROVE Newest(rows, n) \subseteq rows
BY DEF Newest
-----------------------------------------------------------------------------
(* Source input that leaves the tiers alone.                               *)

(* advance_cursor moves one checkpoint and nothing else.                   *)
LEMMA AdvanceCursorType ==
  ASSUME NEW d, DbTypeOK(d), NEW st \in Streams, NEW c \in 1 .. MaxCursor
  PROVE  LET e == AdvanceCursor(d, st, c)
         IN DbTypeOK(e) /\ SameTiers(d, e) /\ e.dirty = d.dirty /\ e.epoch = d.epoch
            /\ e.dispositions = d.dispositions /\ e.inputs = d.inputs
<1> DEFINE e == AdvanceCursor(d, st, c)
<1>1. /\ DOMAIN e = DbFields
      /\ e.cursors = [d.cursors EXCEPT ![st] = c]
      /\ e.inputs = d.inputs /\ e.dispositions = d.dispositions
      /\ e.observations = d.observations /\ e.records = d.records
      /\ e.unresolved = d.unresolved /\ e.index = d.index /\ e.control = d.control
      /\ e.archived = d.archived /\ e.guards = d.guards /\ e.tombstones = d.tombstones
      /\ e.receipts = d.receipts /\ e.dirty = d.dirty /\ e.generation = d.generation
      /\ e.acknowledged = d.acknowledged /\ e.epoch = d.epoch
  BY Columns DEF AdvanceCursor, DbTypeOK, DbFields
<1>2. e.cursors \in [Streams -> 0 .. MaxCursor]
  BY <1>1, StoreAssumption DEF DbTypeOK
<1> QED BY <1>1, <1>2, Columns DEF DbTypeOK, SameTiers

(* A disposition row is inserted, the table pruned, the checkpoint moved.  *)
LEMMA InsertDispositionType ==
  ASSUME NEW d, DbTypeOK(d), NEW st \in Streams, NEW c \in 1 .. MaxCursor,
         NEW kind, NEW code, NEW hash
  PROVE  LET e == InsertDisposition(d, st, c, kind, code, hash)
         IN DbTypeOK(e) /\ SameTiers(d, e) /\ e.dirty = d.dirty /\ e.epoch = d.epoch
<1> DEFINE a == AdvanceCursor(d, st, c)
           row == [stream |-> st, cursor |-> c, kind |-> kind, code |-> code,
                   hash |-> hash, seq |-> NextSeq(d.dispositions)]
           e == InsertDisposition(d, st, c, kind, code, hash)
<1>1. DbTypeOK(a) /\ SameTiers(d, a) /\ a.dirty = d.dirty /\ a.epoch = d.epoch
        /\ a.dispositions = d.dispositions
  BY AdvanceCursorType
<1>2. e = [a EXCEPT !.dispositions = Newest(d.dispositions \cup {row}, MaxDispositions)]
  BY <1>1 DEF InsertDisposition
<1> HIDE DEF a, row, e
<1>3. /\ DOMAIN e = DbFields
      /\ e.dispositions = Newest(d.dispositions \cup {row}, MaxDispositions)
      /\ e.cursors = a.cursors /\ e.inputs = a.inputs
      /\ e.observations = a.observations /\ e.records = a.records
      /\ e.unresolved = a.unresolved /\ e.index = a.index /\ e.control = a.control
      /\ e.archived = a.archived /\ e.guards = a.guards /\ e.tombstones = a.tombstones
      /\ e.receipts = a.receipts /\ e.dirty = a.dirty /\ e.generation = a.generation
      /\ e.acknowledged = a.acknowledged /\ e.epoch = a.epoch
  BY <1>1, <1>2, Columns DEF DbTypeOK, DbFields
<1>4. \A r \in e.dispositions : r.stream \in Streams /\ r.cursor \in 1 .. MaxCursor
  <2>1. e.dispositions \subseteq d.dispositions \cup {row}
    BY <1>3, NewestSubset
  <2>2. row.stream = st /\ row.cursor = c
    BY DEF row
  <2> QED BY <2>1, <2>2, <1>1 DEF DbTypeOK
<1>5. DbTypeOK(e)
  BY <1>1, <1>3, <1>4, Columns DEF DbTypeOK
<1> QED BY <1>1, <1>3, <1>5 DEF SameTiers, e

(* mark_projection_dirty writes its one metadata row.                      *)
LEMMA MarkDirtyType ==
  ASSUME NEW d, DbTypeOK(d)
  PROVE  LET e == MarkDirty(d)
         IN DbTypeOK(e) /\ SameTiers(d, e) /\ e.dirty = TRUE /\ e.epoch = d.epoch
            /\ e.inputs = d.inputs
<1> DEFINE e == MarkDirty(d)
<1>1. /\ DOMAIN e = DbFields
      /\ e.dirty = TRUE
      /\ e.cursors = d.cursors /\ e.inputs = d.inputs /\ e.dispositions = d.dispositions
      /\ e.observations = d.observations /\ e.records = d.records
      /\ e.unresolved = d.unresolved /\ e.index = d.index /\ e.control = d.control
      /\ e.archived = d.archived /\ e.guards = d.guards /\ e.tombstones = d.tombstones
      /\ e.receipts = d.receipts /\ e.generation = d.generation
      /\ e.acknowledged = d.acknowledged /\ e.epoch = d.epoch
  BY Columns DEF MarkDirty, DbTypeOK, DbFields
<1> QED BY <1>1, Columns DEF DbTypeOK, SameTiers

(* advance_report_generation moves the generation on by one.               *)
LEMMA AdvanceGenerationType ==
  ASSUME NEW d, DbTypeOK(d)
  PROVE  LET e == AdvanceGeneration(d)
         IN DbTypeOK(e) /\ SameTiers(d, e) /\ e.dirty = d.dirty /\ e.epoch = d.epoch
            /\ e.observations = d.observations /\ e.guards = d.guards
            /\ e.receipts = d.receipts
<1> DEFINE e == AdvanceGeneration(d)
<1>1. /\ DOMAIN e = DbFields
      /\ e.generation = d.generation + 1
      /\ e.cursors = d.cursors /\ e.inputs = d.inputs /\ e.dispositions = d.dispositions
      /\ e.observations = d.observations /\ e.records = d.records
      /\ e.unresolved = d.unresolved /\ e.index = d.index /\ e.control = d.control
      /\ e.archived = d.archived /\ e.guards = d.guards /\ e.tombstones = d.tombstones
      /\ e.receipts = d.receipts /\ e.dirty = d.dirty
      /\ e.acknowledged = d.acknowledged /\ e.epoch = d.epoch
  BY Columns DEF AdvanceGeneration, DbTypeOK, DbFields
<1>2. e.generation \in Nat
  BY <1>1 DEF DbTypeOK
<1> QED BY <1>1, <1>2, Columns DEF DbTypeOK, SameTiers

(* advance_report_visibility_epoch moves the epoch on by one.              *)
LEMMA AdvanceEpochType ==
  ASSUME NEW d, DbTypeOK(d)
  PROVE  LET e == AdvanceEpoch(d)
         IN DbTypeOK(e) /\ SameTiers(d, e) /\ e.dirty = d.dirty /\ e.epoch = d.epoch + 1
            /\ e.guards = d.guards /\ e.receipts = d.receipts
<1> DEFINE e == AdvanceEpoch(d)
<1>1. /\ DOMAIN e = DbFields
      /\ e.epoch = d.epoch + 1
      /\ e.cursors = d.cursors /\ e.inputs = d.inputs /\ e.dispositions = d.dispositions
      /\ e.observations = d.observations /\ e.records = d.records
      /\ e.unresolved = d.unresolved /\ e.index = d.index /\ e.control = d.control
      /\ e.archived = d.archived /\ e.guards = d.guards /\ e.tombstones = d.tombstones
      /\ e.receipts = d.receipts /\ e.dirty = d.dirty /\ e.generation = d.generation
      /\ e.acknowledged = d.acknowledged
  BY Columns DEF AdvanceEpoch, DbTypeOK, DbFields
<1>2. e.epoch \in Nat
  BY <1>1 DEF DbTypeOK
<1> QED BY <1>1, <1>2, Columns DEF DbTypeOK, SameTiers

(* source_inputs gets a row; the projection is dirty.                      *)
LEMMA InsertInputType ==
  ASSUME NEW d, DbTypeOK(d), NEW st \in Streams, NEW c \in 1 .. MaxCursor, NEW o
  PROVE  LET e == InsertInput(d, st, c, o)
         IN DbTypeOK(e) /\ SameTiers(d, e) /\ e.dirty = TRUE /\ e.epoch = d.epoch
<1> DEFINE a == MarkDirty(AdvanceCursor(d, st, c))
           row == [stream |-> st, cursor |-> c,
                   id |-> EventId(st, o), hash |-> PayloadHash(o)]
           e == InsertInput(d, st, c, o)
<1>1. DbTypeOK(a) /\ SameTiers(d, a) /\ a.dirty = TRUE /\ a.epoch = d.epoch
        /\ a.inputs = d.inputs
  <2> DEFINE b == AdvanceCursor(d, st, c)
  <2>1. DbTypeOK(b) /\ SameTiers(d, b) /\ b.epoch = d.epoch /\ b.inputs = d.inputs
    BY AdvanceCursorType
  <2> HIDE DEF b
  <2>2. LET m == MarkDirty(b)
        IN DbTypeOK(m) /\ SameTiers(b, m) /\ m.dirty = TRUE /\ m.epoch = b.epoch
           /\ m.inputs = b.inputs
    BY <2>1, MarkDirtyType
  <2> QED BY <2>1, <2>2 DEF SameTiers, b
<1>2. e = [a EXCEPT !.inputs = d.inputs \cup {row}]
  BY <1>1 DEF InsertInput
<1> HIDE DEF a, row, e
<1>3. /\ DOMAIN e = DbFields
      /\ e.inputs = d.inputs \cup {row}
      /\ e.cursors = a.cursors /\ e.dispositions = a.dispositions
      /\ e.observations = a.observations /\ e.records = a.records
      /\ e.unresolved = a.unresolved /\ e.index = a.index /\ e.control = a.control
      /\ e.archived = a.archived /\ e.guards = a.guards /\ e.tombstones = a.tombstones
      /\ e.receipts = a.receipts /\ e.dirty = a.dirty /\ e.generation = a.generation
      /\ e.acknowledged = a.acknowledged /\ e.epoch = a.epoch
  BY <1>1, <1>2, Columns DEF DbTypeOK, DbFields
<1>4. row.stream = st /\ row.cursor = c
  BY DEF row
<1>5. DbTypeOK(e)
  BY <1>1, <1>3, <1>4, Columns DEF DbTypeOK
<1> QED BY <1>1, <1>3, <1>5 DEF SameTiers, e
-----------------------------------------------------------------------------
(* Restoring an archived trace.                                            *)

(* prepare_archived_trace moves a whole trace back to the hot tables: the  *)
(* tiers stay exclusive, nothing visible disappears.                       *)
LEMMA RehydrateSound ==
  ASSUME NEW d, DbInv(d), NEW t \in Traces, ~RehydrateClash(d, t)
  PROVE  LET e == Rehydrate(d, t)
         IN /\ DbInv(e)
            /\ KeepsVisible(d, e)
            /\ e.epoch = d.epoch /\ e.tombstones = d.tombstones
            /\ e.control[t] = NoRow
            /\ d.control[t] = NoRow => e = d
<1>1. CASE d.control[t] = NoRow
  <2>1. Rehydrate(d, t) = d
    BY <1>1 DEF Rehydrate
  <2>2. KeepsVisible(d, d)
    BY DEF KeepsVisible
  <2> QED BY <1>1, <2>1, <2>2
<1>2. CASE d.control[t] # NoRow
  <2> DEFINE S == ArchivedSpans(d, t)
             orphans == {s \in S : /\ d.archived[s].parent # NoSpan
                                   /\ d.archived[s].parent \notin S}
             row == [latest |-> d.control[t].latest, unresolved |-> orphans # {},
                     count |-> d.control[t].count]
             e == Rehydrate(d, t)
  <2>a. DbTypeOK(d) /\ TierInv(d)
    BY DEF DbInv
  <2>1. /\ DOMAIN e = DbFields
        /\ e.records = [s \in Spans |-> IF s \in S THEN d.archived[s] ELSE d.records[s]]
        /\ e.archived = [s \in Spans |-> IF s \in S THEN NoState ELSE d.archived[s]]
        /\ e.index = [d.index EXCEPT ![t] = row]
        /\ e.control = [d.control EXCEPT ![t] = NoRow]
        /\ e.guards = {g \in d.guards : g.span \notin S}
        /\ e.unresolved = d.unresolved \cup orphans
        /\ e.cursors = d.cursors /\ e.inputs = d.inputs /\ e.dispositions = d.dispositions
        /\ e.observations = d.observations /\ e.tombstones = d.tombstones
        /\ e.receipts = d.receipts /\ e.dirty = d.dirty /\ e.generation = d.generation
        /\ e.acknowledged = d.acknowledged /\ e.epoch = d.epoch
    BY <1>2, <2>a, Columns DEF Rehydrate, DbTypeOK, DbFields
  <2>2. S = {s \in Spans : d.archived[s] # NoState /\ d.archived[s].trace = t}
    BY DEF ArchivedSpans
  <2>3. row \in IndexRows
    <3>1. d.control[t] \in ControlRows
      BY <1>2, <2>a DEF DbTypeOK
    <3>2. d.control[t].latest \in Nat /\ d.control[t].count \in Nat
      BY <3>1 DEF ControlRows
    <3>3. (orphans # {}) \in BOOLEAN
      OBVIOUS
    <3> QED BY <3>2, <3>3 DEF IndexRows
  <2>4. \A s \in S : d.records[s] = NoState
    BY <1>2 DEF RehydrateClash
  <2>5. orphans \subseteq Spans
    BY <2>2
  <2> HIDE DEF S, orphans, row, e
  <2>6. DbTypeOK(e)
    BY <2>1, <2>3, <2>5, <2>a, Columns DEF DbTypeOK
  <2>7. TierInv(e)
    <3> USE DEF TierInv, HotIsIndexed, ArchivedIsControlled, IndexedIsHot,
                ControlledIsArchived, ExpiredIsGone
    <3>0. row # NoRow
      BY <2>3, Sentinels
    <3>i. /\ e.index[t] = row
          /\ \A u \in Traces : u # t => e.index[u] = d.index[u] /\ e.control[u] = d.control[u]
          /\ e.control[t] = NoRow
      BY <2>1, <2>a DEF DbTypeOK
    <3>1. HotIsIndexed(e)
      BY <2>1, <2>2, <2>a, <3>0, <3>i DEF DbTypeOK, DomainSpanState
    <3>2. ArchivedIsControlled(e)
      BY <2>1, <2>2, <2>a, <3>i DEF DbTypeOK, DomainSpanState
    <3>3. IndexedIsHot(e)
      <4>1. \E s \in Spans : s \in HotSpans(e, t)
        BY <1>2, <2>1, <2>2, <2>a DEF HotSpans, ArchivedSpans
      <4>2. ASSUME NEW u \in Traces, u # t, e.index[u] # NoRow
            PROVE  \E s \in Spans : s \in HotSpans(e, u)
        BY <4>2, <3>i, <2>1, <2>4, <2>a DEF HotSpans
      <4> QED BY <4>1, <4>2
    <3>4. ControlledIsArchived(e)
      <4> SUFFICES ASSUME NEW u \in Traces, e.control[u] # NoRow
                   PROVE  e.index[u] = NoRow /\ \E s \in Spans : s \in ArchivedSpans(e, u)
        OBVIOUS
      <4>1. u # t
        BY <3>i
      <4> QED BY <4>1, <3>i, <2>1, <2>2, <2>a DEF ArchivedSpans
    <3>5. ExpiredIsGone(e)
      BY <1>2, <3>i, <2>1, <2>a DEF Expired
    <3> QED BY <3>1, <3>2, <3>3, <3>4, <3>5
  <2>8. KeepsVisible(d, e)
    <3> SUFFICES ASSUME NEW s \in Spans, Visible(d)[s] # NoState
                 PROVE  Visible(e)[s] # NoState
      BY DEF KeepsVisible
    <3>1. CASE s \in S
      BY <3>1, <2>1, <2>2 DEF Visible
    <3>2. CASE s \notin S /\ d.records[s] # NoState
      BY <3>2, <2>1 DEF Visible
    <3>3. CASE s \notin S /\ d.records[s] = NoState
      <4>1. d.archived[s] # NoState /\ d.archived[s].trace # t
              /\ d.control[d.archived[s].trace].tier = "warm"
        BY <3>3, <2>2 DEF Visible
      <4>2. d.archived[s].trace \in Traces
        BY <4>1, <2>a DEF DbTypeOK, DomainSpanState
      <4> QED BY <3>3, <4>1, <4>2, <2>1, <2>a DEF Visible, DbTypeOK
    <3> QED BY <3>1, <3>2, <3>3
  <2> QED BY <1>2, <2>1, <2>6, <2>7, <2>8, <2>a DEF DbInv, e, DbTypeOK
<1> QED BY <1>1, <1>2
-----------------------------------------------------------------------------
(* Ingest. *)

(* A rolled-back transaction is sound.                                     *)
LEMMA SoundReflexive == ASSUME NEW d, DbInv(d) PROVE Sound(d, d)
BY DEF Sound, Tracks, KeepsVisible, DbInv, DbTypeOK

(* Sound transactions compose, as the items of a batch do.                 *)
LEMMA SoundTransitive ==
  ASSUME NEW d, NEW e, NEW f, DbInv(d), Sound(d, e), Sound(e, f)
  PROVE  Sound(d, f)
<1>1. d.epoch \in Nat /\ e.epoch \in Nat /\ f.epoch \in Nat
  BY DEF Sound, DbInv, DbTypeOK
<1>2. d.dirty \in BOOLEAN /\ e.dirty \in BOOLEAN /\ f.dirty \in BOOLEAN
  BY DEF Sound, DbInv, DbTypeOK
<1>3. Tracks(d, f)
  BY <1>2 DEF Sound, Tracks
<1>4. KeepsVisible(d, f) \/ f.epoch > d.epoch
  <2>1. CASE KeepsVisible(d, e) /\ KeepsVisible(e, f)
    BY <2>1 DEF KeepsVisible
  <2>2. CASE e.epoch > d.epoch \/ f.epoch > e.epoch
    BY <2>2, <1>1 DEF Sound
  <2> QED BY <2>1, <2>2 DEF Sound
<1>5. f.epoch >= d.epoch
  BY <1>1 DEF Sound
<1> QED BY <1>3, <1>4, <1>5 DEF Sound

(* A commit that marks the projection dirty and leaves the tiers of the    *)
(* intermediate database alone.                                            *)
LEMMA DirtyFrame ==
  ASSUME NEW base, NEW d, NEW e, DbInv(base), DbInv(d), DbTypeOK(e), SameTiers(d, e),
         KeepsVisible(base, d), d.epoch = base.epoch, e.epoch = d.epoch, e.dirty = TRUE
  PROVE  Sound(base, e)
<1>1. DbInv(e) /\ Visible(e) = Visible(d)
  BY TiersFrame DEF DbInv
<1>2. base.epoch \in Nat
  BY DEF DbInv, DbTypeOK
<1> QED BY <1>1, <1>2 DEF Sound, Tracks, KeepsVisible

(* insert_duplicate_disposition *)
LEMMA SuppressDuplicateSound ==
  ASSUME NEW base, NEW d, DbInv(base), DbInv(d), KeepsVisible(base, d),
         d.epoch = base.epoch,
         NEW st \in Streams, NEW c \in 1 .. MaxCursor, NEW o
  PROVE  Sound(base, SuppressDuplicate(d, st, c, o).db)
<1> DEFINE a == Suppress(d, st, c, o, "duplicate_observation")
           e == MarkDirty(a)
<1>1. DbTypeOK(a) /\ SameTiers(d, a) /\ a.epoch = d.epoch
  BY InsertDispositionType DEF Suppress, DbInv
<1> HIDE DEF a
<1>2. DbTypeOK(e) /\ SameTiers(a, e) /\ e.dirty = TRUE /\ e.epoch = a.epoch
  BY <1>1, MarkDirtyType
<1> HIDE DEF e
<1>3. SameTiers(d, e) /\ e.epoch = d.epoch
  BY <1>1, <1>2 DEF SameTiers
<1>4. Sound(base, e)
  BY <1>2, <1>3, DirtyFrame
<1> QED BY <1>4 DEF SuppressDuplicate, Ok, e, a

(* A disposition alone changes nothing that is visible.                    *)
LEMMA DispositionSound ==
  ASSUME NEW d, DbInv(d), NEW st \in Streams, NEW c \in 1 .. MaxCursor,
         NEW kind, NEW code, NEW hash
  PROVE  Sound(d, InsertDisposition(d, st, c, kind, code, hash))
<1> DEFINE e == InsertDisposition(d, st, c, kind, code, hash)
<1>1. DbTypeOK(e) /\ SameTiers(d, e) /\ e.dirty = d.dirty /\ e.epoch = d.epoch
  BY InsertDispositionType DEF DbInv
<1> HIDE DEF e
<1>2. DbInv(e) /\ Visible(e) = Visible(d)
  BY <1>1, TiersFrame DEF DbInv
<1>3. d.epoch \in Nat
  BY DEF DbInv, DbTypeOK
<1>4. Sound(d, e)
  BY <1>1, <1>2, <1>3 DEF Sound, Tracks, KeepsVisible
<1> QED BY <1>4 DEF e

(* A source observation is of a span of the model, with a time.            *)
LEMMA ObservationType ==
  ASSUME NEW o \in Observations
  PROVE  /\ o.span \in Spans /\ o.state \in DomainSpanState
         /\ o.state.trace \in Traces
         /\ ObservedAt(o.state) \in Nat
BY StoreAssumption DEF DomainSpanState, ObservedAt

(* The tail of ingest_in_transaction: the new or merged record joins a     *)
(* trace that is neither archived nor expired.                             *)
LEMMA CommitSound ==
  ASSUME NEW base, NEW d, DbInv(base), DbInv(d), KeepsVisible(base, d),
         d.epoch = base.epoch,
         NEW st \in Streams, NEW c \in 1 .. MaxCursor, NEW o \in Observations,
         d.control[o.state.trace] = NoRow, ~Expired(d, o.state.trace),
         d.records[o.span] # NoState => Compatible(d.records[o.span], o.state)
  PROVE  Sound(base, CommitObservation(d, st, c, o))
<1> DEFINE t == o.state.trace
           i == AdvanceGeneration(InsertInput(d, st, c, o))
           row == IndexRow(d, o)
           new == Reduced(d, o)
           e == CommitObservation(d, st, c, o)
<1>a. DbTypeOK(d) /\ TierInv(d)
  BY DEF DbInv
<1>o. o.span \in Spans /\ o.state \in DomainSpanState /\ t \in Traces
        /\ ObservedAt(o.state) \in Nat
  BY ObservationType
<1>i. DbTypeOK(i) /\ SameTiers(d, i) /\ i.dirty = TRUE /\ i.epoch = d.epoch
  <2> DEFINE b == InsertInput(d, st, c, o)
  <2>1. DbTypeOK(b) /\ SameTiers(d, b) /\ b.dirty = TRUE /\ b.epoch = d.epoch
    BY <1>a, InsertInputType
  <2> HIDE DEF b
  <2>2. LET g == AdvanceGeneration(b)
        IN DbTypeOK(g) /\ SameTiers(b, g) /\ g.dirty = b.dirty /\ g.epoch = b.epoch
    BY <2>1, AdvanceGenerationType
  <2> QED BY <2>1, <2>2 DEF SameTiers, b
<1>n. new \in DomainSpanState /\ new.trace = t
  <2>1. CASE d.records[o.span] = NoState
    BY <2>1, <1>o DEF Reduced
  <2>2. CASE d.records[o.span] # NoState
    <3>1. d.records[o.span] \in DomainSpanState
      BY <2>2, <1>o, <1>a DEF DbTypeOK
    <3> QED BY <2>2, <3>1, <1>o, MergeStateType, MergeStateFields DEF Reduced, Compatible
  <2> QED BY <2>1, <2>2
<1>r. row \in IndexRows
  <2>1. d.index[t] # NoRow => d.index[t].latest \in Nat /\ d.index[t].count \in Nat
    BY <1>o, <1>a DEF DbTypeOK, IndexRows
  <2>2. (\E s \in Unresolved(d, o) : RowsWith(d, o)[s].trace = t) \in BOOLEAN
    OBVIOUS
  <2>3. (IF d.index[t] = NoRow THEN ObservedAt(o.state)
         ELSE Latest(d.index[t].latest, ObservedAt(o.state))) \in Nat
    BY <2>1, <1>o DEF Latest
  <2>4. ((IF d.index[t] = NoRow THEN 0 ELSE d.index[t].count)
           + (IF d.records[o.span] = NoState THEN 1 ELSE 0)) \in Nat
    BY <2>1
  <2> QED BY <2>2, <2>3, <2>4 DEF IndexRow, IndexRows
<1>u. Unresolved(d, o) \subseteq Spans
  BY <1>o, <1>a DEF Unresolved, DbTypeOK
<1> HIDE DEF i, row, new
<1>1. /\ DOMAIN e = DbFields
      /\ e.records = [d.records EXCEPT ![o.span] = new]
      /\ e.index = [d.index EXCEPT ![t] = row]
      /\ e.unresolved = Unresolved(d, o)
      /\ e.observations = i.observations
           \cup {[id |-> EventId(st, o), trace |-> t,
                  at |-> ObservedAt(o.state), hash |-> PayloadHash(o)]}
      /\ e.archived = d.archived /\ e.control = d.control /\ e.tombstones = d.tombstones
      /\ e.cursors = i.cursors /\ e.inputs = i.inputs /\ e.dispositions = i.dispositions
      /\ e.guards = i.guards /\ e.receipts = i.receipts /\ e.dirty = i.dirty
      /\ e.generation = i.generation /\ e.acknowledged = i.acknowledged
      /\ e.epoch = i.epoch
  BY <1>i, Columns DEF CommitObservation, RowsWith, SameTiers, DbTypeOK, DbFields, i, row, new
<1> HIDE DEF e
<1>2. DbTypeOK(e)
  <2>1. e.records \in [Spans -> DomainSpanState \cup {NoState}]
    BY <1>1, <1>n, <1>o, <1>a DEF DbTypeOK
  <2>2. e.index \in [Traces -> IndexRows \cup {NoRow}]
    BY <1>1, <1>r, <1>o, <1>a DEF DbTypeOK
  <2>3. \A x \in e.observations : x.trace \in Traces /\ x.at \in Nat
    BY <1>1, <1>i, <1>o DEF DbTypeOK
  <2> QED BY <1>1, <1>i, <1>a, <1>u, <2>1, <2>2, <2>3, Columns DEF DbTypeOK
<1>3. TierInv(e)
  <2> USE DEF TierInv, HotIsIndexed, ArchivedIsControlled, IndexedIsHot,
              ControlledIsArchived, ExpiredIsGone
  <2>0. row # NoRow /\ new # NoState
    BY <1>r, <1>n, Sentinels
  <2>i. /\ e.index[t] = row
        /\ \A u \in Traces : u # t => e.index[u] = d.index[u]
        /\ e.records[o.span] = new
        /\ \A s \in Spans : s # o.span => e.records[s] = d.records[s]
    BY <1>1, <1>o, <1>a DEF DbTypeOK
  <2>1. HotIsIndexed(e)
    BY <2>0, <2>i, <1>n, <1>a DEF DbTypeOK, DomainSpanState
  <2>2. ArchivedIsControlled(e)
    BY <1>1, <1>a
  <2>3. IndexedIsHot(e)
    <3>1. o.span \in HotSpans(e, t)
      BY <2>0, <2>i, <1>n, <1>o DEF HotSpans
    <3>2. ASSUME NEW u \in Traces, u # t, e.index[u] # NoRow
          PROVE  \E s \in Spans : s \in HotSpans(e, u)
      <4>1. PICK s \in Spans : s \in HotSpans(d, u)
        BY <3>2, <2>i, <1>a
      <4>2. s # o.span
        BY <4>1, <3>2 DEF HotSpans, Compatible
      <4> QED BY <4>1, <4>2, <2>i DEF HotSpans
    <3> QED BY <3>1, <3>2, <1>o
  <2>4. ControlledIsArchived(e)
    BY <1>1, <2>i, <1>a DEF ArchivedSpans
  <2>5. ExpiredIsGone(e)
    BY <1>1, <2>i, <1>a DEF Expired
  <2> QED BY <2>1, <2>2, <2>3, <2>4, <2>5
<1>4. KeepsVisible(d, e)
  <2>1. new # NoState
    BY <1>n, Sentinels
  <2> QED BY <2>1, <1>1, <1>o, <1>a DEF KeepsVisible, Visible, DbTypeOK
<1>5. Sound(base, e)
  <2>1. base.epoch \in Nat
    BY DEF DbInv, DbTypeOK
  <2> QED BY <1>1, <1>2, <1>3, <1>4, <1>i, <2>1 DEF Sound, Tracks, KeepsVisible, DbInv
<1> QED BY <1>5 DEF e

(* ingest_in_transaction behind the ledgers and the archive.               *)
LEMMA IngestHotSound ==
  ASSUME NEW base, NEW d, DbInv(base), DbInv(d), KeepsVisible(base, d),
         d.epoch = base.epoch,
         NEW st \in Streams, NEW c \in 1 .. MaxCursor, NEW o \in Observations,
         d.control[o.state.trace] = NoRow,
         Expired(d, o.state.trace) => d = base
  PROVE  Sound(base, IngestHot(base, d, st, c, o).db)
<1> DEFINE r == IngestHot(base, d, st, c, o)
           old == d.records[o.span]
<1>0. Sound(base, base)
  BY SoundReflexive
<1>1. \/ r.db = base
      \/ r.db = SuppressDuplicate(d, st, c, o).db
      \/ Expired(d, o.state.trace) /\ r.db = SuppressExpired(d, st, c, o).db
      \/ r.db = InsertInput(d, st, c, o)
      \/ /\ r.db = CommitObservation(d, st, c, o)
         /\ ~Expired(d, o.state.trace)
         /\ old # NoState => Compatible(old, o.state)
  BY DEF IngestHot, Fail, Ok
<1> HIDE DEF r, old
<1>2. CASE r.db = base
  BY <1>0, <1>2 DEF r
<1>3. CASE r.db = SuppressDuplicate(d, st, c, o).db
  BY <1>3, SuppressDuplicateSound DEF r
<1>4. CASE Expired(d, o.state.trace) /\ r.db = SuppressExpired(d, st, c, o).db
  <2>1. r.db = InsertDisposition(base, st, c, "suppressed", "expired_trace", PayloadHash(o))
    BY <1>4 DEF SuppressExpired, Suppress, Ok
  <2> QED BY <2>1, DispositionSound DEF r
<1>5. CASE r.db = InsertInput(d, st, c, o)
  <2>1. LET e == InsertInput(d, st, c, o)
        IN DbTypeOK(e) /\ SameTiers(d, e) /\ e.dirty = TRUE /\ e.epoch = d.epoch
    BY InsertInputType DEF DbInv
  <2> QED BY <1>5, <2>1, DirtyFrame DEF r
<1>6. CASE /\ r.db = CommitObservation(d, st, c, o)
           /\ ~Expired(d, o.state.trace)
           /\ old # NoState => Compatible(old, o.state)
  BY <1>6, CommitSound DEF r, old
<1> QED BY <1>1, <1>2, <1>3, <1>4, <1>5, <1>6

(* ingest of one observation.                                              *)
LEMMA IngestObservationSound ==
  ASSUME NEW d, DbInv(d), NEW st \in Streams, NEW c \in 1 .. MaxCursor,
         NEW o \in Observations
  PROVE  Sound(d, IngestObservation(d, st, c, o).db)
<1> DEFINE r == IngestObservation(d, st, c, o)
           t == o.state.trace
           h == Rehydrate(d, t)
<1>1. \/ r.db = d
      \/ r.db = SuppressDuplicate(d, st, c, o).db
      \/ ~RehydrateClash(d, t) /\ r.db = IngestHot(d, h, st, c, o).db
  BY DEF IngestObservation, Fail, Ok
<1>2. CASE r.db = d
  BY <1>2, SoundReflexive
<1>3. CASE r.db = SuppressDuplicate(d, st, c, o).db
  <2>1. KeepsVisible(d, d)
    BY DEF KeepsVisible
  <2> QED BY <1>3, <2>1, SuppressDuplicateSound
<1>4. CASE ~RehydrateClash(d, t) /\ r.db = IngestHot(d, h, st, c, o).db
  <2>0. t \in Traces
    BY ObservationType
  <2>1. /\ DbInv(h) /\ KeepsVisible(d, h) /\ h.epoch = d.epoch
        /\ h.tombstones = d.tombstones /\ h.control[t] = NoRow
        /\ d.control[t] = NoRow => h = d
    BY <1>4, <2>0, RehydrateSound
  <2>2. Expired(h, t) => h = d
    BY <2>0, <2>1 DEF Expired, DbInv, TierInv, ExpiredIsGone
  <2> HIDE DEF h, r
  <2> QED BY <1>4, <2>1, <2>2, IngestHotSound DEF r
<1> QED BY <1>1, <1>2, <1>3, <1>4

(* One item of a batch.                                                    *)
LEMMA IngestItemSound ==
  ASSUME NEW d, DbInv(d), NEW i \in Items
  PROVE  Sound(d, IngestItem(d, i).db)
<1>1. CASE i.type = "observation"
  <2>1. i.stream \in Streams /\ i.cursor \in 1 .. MaxCursor /\ i.body \in Observations
    BY <1>1 DEF Items
  <2> QED BY <1>1, <2>1, IngestObservationSound DEF IngestItem
<1>2. CASE i.type # "observation"
  <2>1. i.stream \in Streams /\ i.cursor \in 1 .. MaxCursor
    BY DEF Items
  <2>2. \/ IngestItem(d, i).db = d
        \/ IngestItem(d, i).db = InsertDisposition(d, i.stream, i.cursor, i.body.kind,
                                                   i.body.code, i.body.hash)
    BY <1>2 DEF IngestItem, IngestDisposition, Ok, Fail
  <2> QED BY <2>1, <2>2, SoundReflexive, DispositionSound
<1> QED BY <1>1, <1>2

(* ingest_ordered_batch: both items or neither.                            *)
LEMMA IngestPairSound ==
  ASSUME NEW d, DbInv(d), NEW i \in Items, NEW j \in Items
  PROVE  Sound(d, IngestPair(d, i, j).db)
<1> DEFINE first == IngestItem(d, i)
           second == IngestItem(first.db, j)
<1>1. Sound(d, first.db)
  BY IngestItemSound
<1>2. DbInv(first.db)
  BY <1>1 DEF Sound
<1>3. Sound(first.db, second.db)
  BY <1>2, IngestItemSound
<1>4. Sound(d, second.db)
  BY <1>1, <1>3, SoundTransitive
<1>5. IngestPair(d, i, j).db = d \/ IngestPair(d, i, j).db = second.db
  BY DEF IngestPair, Fail
<1> QED BY <1>4, <1>5, SoundReflexive
-----------------------------------------------------------------------------
(* Maintenance and retention. *)

(* delete_hot_trace for a set of traces.                                   *)
LEMMA DeleteHotType ==
  ASSUME NEW d, DbTypeOK(d), NEW T \in SUBSET Traces
  PROVE  LET e == DeleteHot(d, T)
         IN /\ DbTypeOK(e)
            /\ e.records = [s \in Spans |-> IF d.records[s] # NoState /\ d.records[s].trace \in T
                                            THEN NoState ELSE d.records[s]]
            /\ e.index = [t \in Traces |-> IF t \in T THEN NoRow ELSE d.index[t]]
            /\ e.archived = d.archived /\ e.control = d.control
            /\ e.tombstones = d.tombstones /\ e.guards = d.guards
            /\ e.receipts = d.receipts
            /\ e.dirty = d.dirty /\ e.epoch = d.epoch
<1> DEFINE gone == {o.id : o \in {x \in d.observations : x.trace \in T}}
           S == UNION {HotSpans(d, t) : t \in T}
           e == DeleteHot(d, T)
<1>1. \A s \in Spans : s \in S <=> d.records[s] # NoState /\ d.records[s].trace \in T
  BY DEF HotSpans
<1> HIDE DEF gone, S
<1>2. /\ DOMAIN e = DbFields
      /\ e.inputs = {i \in d.inputs : i.id \notin gone}
      /\ e.observations = {o \in d.observations : o.trace \notin T}
      /\ e.unresolved = d.unresolved \ S
      /\ e.records = [s \in Spans |-> IF s \in S THEN NoState ELSE d.records[s]]
      /\ e.index = [t \in Traces |-> IF t \in T THEN NoRow ELSE d.index[t]]
      /\ e.cursors = d.cursors /\ e.dispositions = d.dispositions
      /\ e.control = d.control /\ e.archived = d.archived /\ e.guards = d.guards
      /\ e.tombstones = d.tombstones /\ e.receipts = d.receipts /\ e.dirty = d.dirty
      /\ e.generation = d.generation /\ e.acknowledged = d.acknowledged
      /\ e.epoch = d.epoch
  BY Columns DEF DeleteHot, DbTypeOK, DbFields, gone, S
<1> HIDE DEF e
<1>3. DbTypeOK(e)
  <2>1. e.records \in [Spans -> DomainSpanState \cup {NoState}]
    BY <1>2 DEF DbTypeOK
  <2>2. e.index \in [Traces -> IndexRows \cup {NoRow}]
    BY <1>2 DEF DbTypeOK
  <2> QED BY <1>2, <2>1, <2>2, Columns DEF DbTypeOK
<1>4. e.records = [s \in Spans |-> IF d.records[s] # NoState /\ d.records[s].trace \in T
                                   THEN NoState ELSE d.records[s]]
  BY <1>1, <1>2
<1> QED BY <1>2, <1>3, <1>4 DEF e

(* A trace without hot rows is as if deleted: the tiers of a database      *)
(* behind delete_hot_trace are sound, whatever happens to the guards.      *)
LEMMA DeleteHotTiers ==
  ASSUME NEW d, DbInv(d), NEW T \in SUBSET Traces
  PROVE  TierInv(DeleteHot(d, T))
<1> DEFINE e == DeleteHot(d, T)
<1>1. /\ e.records = [s \in Spans |-> IF d.records[s] # NoState /\ d.records[s].trace \in T
                                      THEN NoState ELSE d.records[s]]
      /\ e.index = [t \in Traces |-> IF t \in T THEN NoRow ELSE d.index[t]]
      /\ e.archived = d.archived /\ e.control = d.control /\ e.tombstones = d.tombstones
  BY DeleteHotType DEF DbInv
<1> HIDE DEF e
<1> USE DEF DbInv, TierInv, HotIsIndexed, ArchivedIsControlled, IndexedIsHot,
            ControlledIsArchived, ExpiredIsGone
<1>2. HotIsIndexed(e)
  BY <1>1 DEF DbTypeOK, DomainSpanState
<1>3. ArchivedIsControlled(e)
  BY <1>1
<1>4. IndexedIsHot(e)
  BY <1>1 DEF HotSpans
<1>5. ControlledIsArchived(e)
  BY <1>1 DEF ArchivedSpans
<1>6. ExpiredIsGone(e)
  BY <1>1 DEF Expired
<1> QED BY <1>2, <1>3, <1>4, <1>5, <1>6 DEF e

(* Guard rows are rows for spans with their state.                         *)
LEMMA GuardSpansType ==
  ASSUME NEW rows, NEW S \in SUBSET Spans, NEW states,
         \A g \in rows : g.span \in Spans /\ g.state \in DomainSpanState,
         \A s \in S : states[s] \in DomainSpanState
  PROVE  \A g \in GuardSpans(rows, S, states) :
           g.span \in Spans /\ g.state \in DomainSpanState
<1> DEFINE order == CHOOSE f \in [S -> 1 .. Cardinality(S)] :
                      \A x, y \in S : x # y => f[x] # f[y]
           fresh == {[span |-> s, state |-> states[s],
                      seq |-> NextSeq(rows) + order[s]] : s \in S}
           kept == {g \in rows : g.span \notin S}
<1>1. GuardSpans(rows, S, states) = Newest(kept \cup fresh, MaxGuards)
  BY DEF GuardSpans
<1> HIDE DEF order
<1>2. \A g \in fresh : g.span \in Spans /\ g.state \in DomainSpanState
  OBVIOUS
<1>3. GuardSpans(rows, S, states) \subseteq kept \cup fresh
  BY <1>1, NewestSubset
<1> QED BY <1>2, <1>3

(* move_hot_to_warm and the hot half of move_to_cold.                      *)
LEMMA ArchiveHotSound ==
  ASSUME NEW d, DbInv(d), NEW t \in Traces, d.index[t] # NoRow,
         NEW tier \in {"warm", "cold"},
         \A s \in HotSpans(d, t) : d.archived[s] = NoState
  PROVE  LET e == ArchiveHot(d, t, tier)
         IN /\ DbInv(e)
            /\ e.epoch = d.epoch
            /\ tier = "warm" => KeepsVisible(d, e)
<1> DEFINE S == HotSpans(d, t)
           b == DeleteHot(d, {t})
           row == [tier |-> tier, latest |-> d.index[t].latest, count |-> d.index[t].count]
           g == GuardSpans(b.guards, S, d.records)
           e == ArchiveHot(d, t, tier)
<1>a. DbTypeOK(d) /\ TierInv(d)
  BY DEF DbInv
<1>s. S = {s \in Spans : d.records[s] # NoState /\ d.records[s].trace = t}
  BY DEF HotSpans
<1>b. /\ DbTypeOK(b)
      /\ b.records = [s \in Spans |-> IF s \in S THEN NoState ELSE d.records[s]]
      /\ b.index = [u \in Traces |-> IF u = t THEN NoRow ELSE d.index[u]]
      /\ b.archived = d.archived /\ b.control = d.control
      /\ b.tombstones = d.tombstones /\ b.guards = d.guards /\ b.epoch = d.epoch
  BY <1>a, <1>s, DeleteHotType
<1>r. row \in ControlRows
  <2>1. d.index[t].latest \in Nat /\ d.index[t].count \in Nat
    BY <1>a DEF DbTypeOK, IndexRows
  <2> QED BY <2>1 DEF ControlRows
<1>g. \A x \in g : x.span \in Spans /\ x.state \in DomainSpanState
  <2>1. \A s \in S : d.records[s] \in DomainSpanState
    BY <1>a, <1>s DEF DbTypeOK
  <2>2. \A x \in b.guards : x.span \in Spans /\ x.state \in DomainSpanState
    BY <1>b DEF DbTypeOK
  <2>3. S \in SUBSET Spans
    BY <1>s
  <2> HIDE DEF b, S
  <2> QED BY <2>1, <2>2, <2>3, GuardSpansType
<1> HIDE DEF S, b, row, g
<1>1. /\ DOMAIN e = DbFields
      /\ e.control = [b.control EXCEPT ![t] = row]
      /\ e.archived = [s \in Spans |-> IF s \in S THEN d.records[s] ELSE d.archived[s]]
      /\ e.guards = g
      /\ e.records = b.records /\ e.index = b.index /\ e.tombstones = b.tombstones
      /\ e.cursors = b.cursors /\ e.inputs = b.inputs /\ e.dispositions = b.dispositions
      /\ e.observations = b.observations /\ e.unresolved = b.unresolved
      /\ e.receipts = b.receipts /\ e.dirty = b.dirty /\ e.generation = b.generation
      /\ e.acknowledged = b.acknowledged /\ e.epoch = b.epoch
  BY <1>b, Columns DEF ArchiveHot, DbTypeOK, DbFields, S, b, row, g
<1> HIDE DEF e
<1>2. DbTypeOK(e)
  <2>1. e.control \in [Traces -> ControlRows \cup {NoRow}]
    BY <1>1, <1>b, <1>r, <1>a DEF DbTypeOK
  <2>2. e.archived \in [Spans -> DomainSpanState \cup {NoState}]
    BY <1>1, <1>a DEF DbTypeOK
  <2> QED BY <1>1, <1>b, <1>g, <2>1, <2>2, Columns DEF DbTypeOK
<1>i. /\ e.control[t] = row /\ row # NoRow
      /\ \A u \in Traces : u # t => e.control[u] = d.control[u] /\ e.index[u] = d.index[u]
      /\ e.index[t] = NoRow
      /\ \A s \in Spans : s \in S => e.records[s] = NoState /\ e.archived[s] = d.records[s]
      /\ \A s \in Spans : s \notin S => e.records[s] = d.records[s] /\ e.archived[s] = d.archived[s]
  BY <1>1, <1>b, <1>r, <1>a, Sentinels DEF DbTypeOK
<1>3. TierInv(e)
  <2> USE DEF TierInv, HotIsIndexed, ArchivedIsControlled, IndexedIsHot,
              ControlledIsArchived, ExpiredIsGone
  <2>1. HotIsIndexed(e)
    BY <1>i, <1>s, <1>a DEF DbTypeOK, DomainSpanState
  <2>2. ArchivedIsControlled(e)
    BY <1>i, <1>s, <1>a DEF DbTypeOK, DomainSpanState
  <2>3. IndexedIsHot(e)
    BY <1>i, <1>s, <1>a DEF HotSpans
  <2>4. ControlledIsArchived(e)
    <3>1. \E s \in Spans : s \in ArchivedSpans(e, t)
      <4>1. PICK s \in Spans : s \in S
        BY <1>a DEF S
      <4> QED BY <4>1, <1>i, <1>s DEF ArchivedSpans
    <3>2. ASSUME NEW u \in Traces, u # t, e.control[u] # NoRow
          PROVE  e.index[u] = NoRow /\ \E s \in Spans : s \in ArchivedSpans(e, u)
      <4>1. PICK s \in Spans : s \in ArchivedSpans(d, u)
        BY <3>2, <1>i, <1>a
      <4>2. s \notin S
        BY <4>1 DEF ArchivedSpans, S
      <4> QED BY <4>1, <4>2, <3>2, <1>i, <1>a DEF ArchivedSpans
    <3> QED BY <3>1, <3>2, <1>i
  <2>5. ExpiredIsGone(e)
    BY <1>1, <1>b, <1>i, <1>a DEF Expired
  <2> QED BY <2>1, <2>2, <2>3, <2>4, <2>5
<1>4. ASSUME tier = "warm" PROVE KeepsVisible(d, e)
  <2> SUFFICES ASSUME NEW s \in Spans, Visible(d)[s] # NoState
               PROVE  Visible(e)[s] # NoState
    BY DEF KeepsVisible
  <2>1. CASE s \in S
    <3>1. e.archived[s] # NoState /\ e.archived[s].trace = t /\ e.control[t].tier = "warm"
      BY <2>1, <1>4, <1>i, <1>s DEF row
    <3> QED BY <2>1, <3>1, <1>i DEF Visible
  <2>2. CASE s \notin S /\ d.records[s] # NoState
    BY <2>2, <1>i DEF Visible
  <2>3. CASE s \notin S /\ d.records[s] = NoState
    <3>1. d.archived[s] # NoState /\ d.control[d.archived[s].trace].tier = "warm"
      BY <2>3 DEF Visible
    <3>2. d.archived[s].trace \in Traces
      BY <3>1, <1>a DEF DbTypeOK, DomainSpanState
    <3>3. d.archived[s].trace # t
      BY <3>1, <3>2, <1>a DEF TierInv, ArchivedIsControlled, ControlledIsArchived
    <3> QED BY <2>3, <3>1, <3>2, <3>3, <1>i DEF Visible
  <2> QED BY <2>1, <2>2, <2>3
<1> QED BY <1>1, <1>2, <1>3, <1>4, <1>b DEF DbInv, e

(* Dropping the control row of an archived trace with its span rows.       *)
LEMMA DropArchivedSound ==
  ASSUME NEW d, DbInv(d), NEW t \in Traces, d.control[t] # NoRow
  PROVE  LET e == DropArchived(d, t)
         IN /\ DbInv(e) /\ e.epoch = d.epoch /\ e.tombstones = d.tombstones
            /\ e.index[t] = NoRow /\ e.control[t] = NoRow
<1> DEFINE S == ArchivedSpans(d, t)
           e == DropArchived(d, t)
<1>a. DbTypeOK(d) /\ TierInv(d)
  BY DEF DbInv
<1>s. S = {s \in Spans : d.archived[s] # NoState /\ d.archived[s].trace = t}
  BY DEF ArchivedSpans
<1>1. /\ DOMAIN e = DbFields
      /\ e.control = [d.control EXCEPT ![t] = NoRow]
      /\ e.archived = [s \in Spans |-> IF s \in S THEN NoState ELSE d.archived[s]]
      /\ e.records = d.records /\ e.index = d.index /\ e.tombstones = d.tombstones
      /\ e.cursors = d.cursors /\ e.inputs = d.inputs /\ e.dispositions = d.dispositions
      /\ e.observations = d.observations /\ e.unresolved = d.unresolved
      /\ e.guards = d.guards /\ e.receipts = d.receipts /\ e.dirty = d.dirty
      /\ e.generation = d.generation /\ e.acknowledged = d.acknowledged
      /\ e.epoch = d.epoch
  BY <1>a, Columns DEF DropArchived, DbTypeOK, DbFields
<1> HIDE DEF e, S
<1>2. DbTypeOK(e)
  <2>1. e.control \in [Traces -> ControlRows \cup {NoRow}]
    BY <1>1, <1>a DEF DbTypeOK
  <2>2. e.archived \in [Spans -> DomainSpanState \cup {NoState}]
    BY <1>1, <1>a DEF DbTypeOK
  <2> QED BY <1>1, <1>a, <2>1, <2>2, Columns DEF DbTypeOK
<1>i. /\ e.control[t] = NoRow
      /\ \A u \in Traces : u # t => e.control[u] = d.control[u]
  BY <1>1, <1>a DEF DbTypeOK
<1>3. TierInv(e)
  <2> USE DEF TierInv, HotIsIndexed, ArchivedIsControlled, IndexedIsHot,
              ControlledIsArchived, ExpiredIsGone
  <2>1. HotIsIndexed(e)
    BY <1>1, <1>a
  <2>2. ArchivedIsControlled(e)
    BY <1>1, <1>i, <1>s, <1>a DEF DbTypeOK, DomainSpanState
  <2>3. IndexedIsHot(e)
    BY <1>1, <1>a DEF HotSpans
  <2>4. ControlledIsArchived(e)
    BY <1>1, <1>i, <1>s, <1>a DEF ArchivedSpans
  <2>5. ExpiredIsGone(e)
    BY <1>1, <1>i, <1>a DEF Expired
  <2> QED BY <2>1, <2>2, <2>3, <2>4, <2>5
<1>4. e.index[t] = NoRow
  BY <1>1, <1>a DEF TierInv, ControlledIsArchived
<1> QED BY <1>1, <1>2, <1>3, <1>4, <1>i DEF DbInv, e

(* purge_trace: the trace is gone from every tier before its tombstone is  *)
(* written.                                                                *)
LEMMA PurgeSound ==
  ASSUME NEW d, DbInv(d), NEW c \in Candidates, Reload(d, c) # NoRow
  PROVE  LET e == Purge(d, c) IN DbInv(e) /\ e.epoch = d.epoch
<1> DEFINE t == c.trace
           hot == [DeleteHot(d, {t}) EXCEPT !.guards = GuardSpans(@, HotSpans(d, t), d.records)]
           base == IF c.tier = "hot" THEN hot ELSE DropArchived(d, t)
           e == Purge(d, c)
           stones == Newest({x \in base.tombstones : x.trace # t}
                       \cup {[trace |-> t, seq |-> NextSeq(base.tombstones)]}, MaxGuards)
<1>t. t \in Traces /\ c.tier \in {"hot", "warm", "cold"}
  BY DEF Candidates
<1>a. DbTypeOK(d) /\ TierInv(d)
  BY DEF DbInv
<1>b. DbInv(base) /\ base.epoch = d.epoch /\ base.index[t] = NoRow /\ base.control[t] = NoRow
  <2>1. CASE c.tier = "hot"
    <3> DEFINE b == DeleteHot(d, {t})
               g == GuardSpans(b.guards, HotSpans(d, t), d.records)
    <3>1. DbTypeOK(b) /\ b.epoch = d.epoch /\ b.control = d.control /\ b.index[t] = NoRow
      <4> DEFINE T == {t}
      <4>1. T \in SUBSET Traces /\ t \in T
        BY <1>t
      <4>2. b = DeleteHot(d, T)
        OBVIOUS
      <4> HIDE DEF T, b, t, hot, base, stones, e
      <4>3. LET x == DeleteHot(d, T)
            IN /\ DbTypeOK(x) /\ x.epoch = d.epoch /\ x.control = d.control
               /\ x.index = [u \in Traces |-> IF u \in T THEN NoRow ELSE d.index[u]]
        BY <4>1, <1>a, DeleteHotType
      <4>4. /\ DbTypeOK(b) /\ b.epoch = d.epoch /\ b.control = d.control
            /\ b.index = [u \in Traces |-> IF u \in T THEN NoRow ELSE d.index[u]]
        BY <4>2, <4>3
      <4> QED BY <4>1, <4>4, <1>t
    <3>2. TierInv(b)
      BY <1>t, DeleteHotTiers
    <3>3. \A x \in g : x.span \in Spans /\ x.state \in DomainSpanState
      <4>1. HotSpans(d, t) \in SUBSET Spans /\ \A s \in HotSpans(d, t) : d.records[s] \in DomainSpanState
        BY <1>a DEF HotSpans, DbTypeOK
      <4>2. \A x \in b.guards : x.span \in Spans /\ x.state \in DomainSpanState
        BY <3>1 DEF DbTypeOK
      <4> HIDE DEF b
      <4> QED BY <4>1, <4>2, GuardSpansType
    <3> HIDE DEF b, g
    <3>4. hot = [b EXCEPT !.guards = g]
      BY DEF b, g
    <3>5. /\ DOMAIN hot = DbFields /\ hot.guards = g
          /\ hot.cursors = b.cursors /\ hot.inputs = b.inputs
          /\ hot.dispositions = b.dispositions /\ hot.observations = b.observations
          /\ hot.records = b.records /\ hot.unresolved = b.unresolved
          /\ hot.index = b.index /\ hot.control = b.control /\ hot.archived = b.archived
          /\ hot.tombstones = b.tombstones /\ hot.receipts = b.receipts
          /\ hot.dirty = b.dirty /\ hot.generation = b.generation
          /\ hot.acknowledged = b.acknowledged /\ hot.epoch = b.epoch
      BY <3>1, <3>4, Columns DEF DbTypeOK, DbFields
    <3> HIDE DEF hot
    <3>6. DbTypeOK(hot)
      BY <3>1, <3>3, <3>5, Columns DEF DbTypeOK
    <3>7. TierInv(hot)
      BY <3>2, <3>5, TiersFrame DEF SameTiers
    <3>8. d.index[t] # NoRow
      BY <2>1 DEF Reload
    <3>9. d.control[t] = NoRow
      BY <1>t, <1>a, <3>8 DEF TierInv, ControlledIsArchived
    <3> QED BY <2>1, <1>t, <3>1, <3>5, <3>6, <3>7, <3>9 DEF DbInv
  <2>2. CASE c.tier # "hot"
    <3>1. d.control[t] # NoRow
      BY <2>2 DEF Reload
    <3> QED BY <1>t, <2>2, <3>1, DropArchivedSound
  <2> QED BY <2>1, <2>2
<1> HIDE DEF base
<1>1. e = [base EXCEPT !.tombstones = stones]
  BY DEF Purge, base
<1>2. stones \subseteq base.tombstones \cup {[trace |-> t, seq |-> NextSeq(base.tombstones)]}
  BY NewestSubset
<1>3. \A x \in stones : x \in base.tombstones \/ x.trace = t
  BY <1>2
<1> HIDE DEF stones, e
<1>4. /\ DOMAIN e = DbFields /\ e.tombstones = stones
      /\ e.cursors = base.cursors /\ e.inputs = base.inputs
      /\ e.dispositions = base.dispositions /\ e.observations = base.observations
      /\ e.records = base.records /\ e.unresolved = base.unresolved
      /\ e.index = base.index /\ e.control = base.control /\ e.archived = base.archived
      /\ e.guards = base.guards /\ e.receipts = base.receipts
      /\ e.dirty = base.dirty /\ e.generation = base.generation
      /\ e.acknowledged = base.acknowledged /\ e.epoch = base.epoch
  BY <1>1, <1>b, Columns DEF DbInv, DbTypeOK, DbFields
<1>5. DbTypeOK(e)
  BY <1>3, <1>4, <1>b, <1>t, Columns DEF DbInv, DbTypeOK
<1>6. TierInv(e)
  <2> USE DEF DbInv, TierInv, HotIsIndexed, ArchivedIsControlled, IndexedIsHot,
              ControlledIsArchived, ExpiredIsGone
  <2>1. HotIsIndexed(e) /\ ArchivedIsControlled(e)
    BY <1>4, <1>b
  <2>2. IndexedIsHot(e) /\ ControlledIsArchived(e)
    BY <1>4, <1>b DEF HotSpans, ArchivedSpans
  <2>3. ExpiredIsGone(e)
    BY <1>3, <1>4, <1>b DEF Expired
  <2> QED BY <2>1, <2>2, <2>3
<1> QED BY <1>4, <1>5, <1>6, <1>b DEF DbInv, e

(* The warm half of move_to_cold rewrites the tier of the control row.     *)
LEMMA CoolSound ==
  ASSUME NEW d, DbInv(d), NEW t \in Traces, d.control[t] # NoRow
  PROVE  LET e == [d EXCEPT !.control[t].tier = "cold"] IN DbInv(e) /\ e.epoch = d.epoch
<1> DEFINE row == [d.control[t] EXCEPT !.tier = "cold"]
           e == [d EXCEPT !.control[t].tier = "cold"]
<1>a. DbTypeOK(d) /\ TierInv(d)
  BY DEF DbInv
<1>r. row \in ControlRows
  <2>1. d.control[t] \in ControlRows
    BY <1>a DEF DbTypeOK
  <2> QED BY <2>1 DEF ControlRows
<1>1. /\ DOMAIN e = DbFields
      /\ e.control = [d.control EXCEPT ![t] = row]
      /\ e.cursors = d.cursors /\ e.inputs = d.inputs /\ e.dispositions = d.dispositions
      /\ e.observations = d.observations /\ e.records = d.records
      /\ e.unresolved = d.unresolved /\ e.index = d.index
      /\ e.archived = d.archived /\ e.guards = d.guards /\ e.tombstones = d.tombstones
      /\ e.receipts = d.receipts /\ e.dirty = d.dirty /\ e.generation = d.generation
      /\ e.acknowledged = d.acknowledged /\ e.epoch = d.epoch
  BY <1>a, Columns DEF DbTypeOK, DbFields
<1>2. row # NoRow
  BY <1>r, Sentinels
<1> HIDE DEF e, row
<1>3. DbTypeOK(e)
  BY <1>a, <1>r, <1>1, Columns DEF DbTypeOK
<1>4. \A u \in Traces : (e.control[u] = NoRow) <=> (d.control[u] = NoRow)
  BY <1>a, <1>1, <1>2 DEF DbTypeOK
<1>5. TierInv(e)
  <2> USE DEF TierInv, HotIsIndexed, ArchivedIsControlled, IndexedIsHot,
              ControlledIsArchived, ExpiredIsGone
  <2>1. HotIsIndexed(e) /\ IndexedIsHot(e)
    BY <1>a, <1>1 DEF HotSpans
  <2>2. ArchivedIsControlled(e)
    BY <1>a, <1>1, <1>4 DEF DbTypeOK, DomainSpanState
  <2>3. ControlledIsArchived(e)
    BY <1>a, <1>1, <1>4 DEF ArchivedSpans
  <2>4. ExpiredIsGone(e)
    BY <1>a, <1>1, <1>4 DEF Expired
  <2> QED BY <2>1, <2>2, <2>3, <2>4
<1> QED BY <1>1, <1>3, <1>5 DEF DbInv, e

(* The tail of a maintenance transaction: dirty mark, generation, and the  *)
(* epoch when something leaves the report.                                 *)
LEMMA MarkedSound ==
  ASSUME NEW d, NEW m, DbInv(d), DbInv(m), m.epoch = d.epoch, NEW lost \in BOOLEAN,
         KeepsVisible(d, m) \/ lost
  PROVE  LET marked == AdvanceGeneration(MarkDirty(m))
         IN Sound(d, IF lost THEN AdvanceEpoch(marked) ELSE marked)
<1> DEFINE a == MarkDirty(m)
           marked == AdvanceGeneration(a)
           e == AdvanceEpoch(marked)
<1>0. DbTypeOK(m) /\ d.epoch \in Nat
  BY DEF DbInv, DbTypeOK
<1>1. DbTypeOK(a) /\ SameTiers(m, a) /\ a.dirty = TRUE /\ a.epoch = m.epoch
  BY <1>0, MarkDirtyType
<1> HIDE DEF a
<1>2. DbTypeOK(marked) /\ SameTiers(a, marked) /\ marked.dirty = a.dirty
        /\ marked.epoch = a.epoch
  BY <1>1, AdvanceGenerationType
<1> HIDE DEF marked
<1>3. DbTypeOK(e) /\ SameTiers(marked, e) /\ e.dirty = marked.dirty
        /\ e.epoch = marked.epoch + 1
  BY <1>2, AdvanceEpochType
<1> HIDE DEF e
<1>4. SameTiers(m, marked) /\ SameTiers(m, e)
  BY <1>1, <1>2, <1>3 DEF SameTiers
<1>5. /\ DbInv(marked) /\ Visible(marked) = Visible(m)
      /\ DbInv(e) /\ Visible(e) = Visible(m)
  BY <1>2, <1>3, <1>4, TiersFrame DEF DbInv
<1>6. CASE lost
  <2>1. e.epoch > d.epoch /\ e.epoch >= d.epoch /\ e.dirty = TRUE
    BY <1>0, <1>1, <1>2, <1>3
  <2>2. Sound(d, e)
    BY <2>1, <1>5 DEF Sound, Tracks
  <2> QED BY <1>6, <2>2 DEF e, marked, a
<1>7. CASE ~lost
  <2>1. marked.epoch >= d.epoch /\ marked.dirty = TRUE
    BY <1>0, <1>1, <1>2
  <2>2. KeepsVisible(d, marked)
    BY <1>7, <1>5 DEF KeepsVisible
  <2>3. Sound(d, marked)
    BY <2>1, <2>2, <1>5 DEF Sound, Tracks
  <2> QED BY <1>7, <2>3 DEF marked, a
<1> QED BY <1>6, <1>7

(* The transaction of maintain_lifecycle_inner for an admitted candidate.  *)
LEMMA MoveSound ==
  ASSUME NEW d, DbInv(d), NEW c \in Candidates, Reload(d, c) # NoRow,
         NEW tr \in {"warm", "cold", "delete"},
         tr = "warm" => c.tier = "hot",
         ~ArchiveClash(d, c, tr)
  PROVE  Sound(d, MoveTrace(d, c, tr))
<1> DEFINE moved == IF tr = "delete" THEN Purge(d, c)
                    ELSE IF c.tier = "hot" THEN ArchiveHot(d, c.trace, tr)
                    ELSE [d EXCEPT !.control[c.trace].tier = "cold"]
           lost == RemovesVisibility(tr)
<1>t. c.trace \in Traces
  BY DEF Candidates
<1>1. DbInv(moved) /\ moved.epoch = d.epoch /\ (KeepsVisible(d, moved) \/ lost)
  <2>1. CASE tr = "delete"
    <3>1. LET e == Purge(d, c) IN DbInv(e) /\ e.epoch = d.epoch
      BY PurgeSound
    <3> QED BY <2>1, <3>1 DEF RemovesVisibility
  <2>2. CASE tr # "delete" /\ c.tier = "hot"
    <3> DEFINE t == c.trace
    <3>1. d.index[t] # NoRow
      BY <2>2 DEF Reload
    <3>2. \A s \in HotSpans(d, t) : d.archived[s] = NoState
      BY <2>2 DEF ArchiveClash
    <3>3. t \in Traces /\ tr \in {"warm", "cold"}
      BY <1>t, <2>2
    <3> HIDE DEF t
    <3>4. LET e == ArchiveHot(d, t, tr)
          IN DbInv(e) /\ e.epoch = d.epoch /\ (tr = "warm" => KeepsVisible(d, e))
      BY <3>1, <3>2, <3>3, ArchiveHotSound
    <3> QED BY <2>2, <3>3, <3>4 DEF RemovesVisibility, t
  <2>3. CASE tr # "delete" /\ c.tier # "hot"
    <3> DEFINE t == c.trace
    <3>1. d.control[t] # NoRow
      BY <2>3 DEF Reload
    <3>2. t \in Traces
      BY <1>t
    <3> HIDE DEF t
    <3>3. LET e == [d EXCEPT !.control[t].tier = "cold"] IN DbInv(e) /\ e.epoch = d.epoch
      BY <3>1, <3>2, CoolSound
    <3>4. tr = "cold"
      BY <2>3
    <3> QED BY <2>3, <3>3, <3>4 DEF RemovesVisibility, t
  <2> QED BY <2>1, <2>2, <2>3
<1>2. lost \in BOOLEAN
  BY DEF RemovesVisibility
<1>3. MoveTrace(d, c, tr) = LET marked == AdvanceGeneration(MarkDirty(moved))
                            IN IF lost THEN AdvanceEpoch(marked) ELSE marked
  BY DEF MoveTrace
<1> HIDE DEF moved, lost
<1> QED BY <1>1, <1>2, <1>3, MarkedSound

(* The deleting transaction of apply_retention.                            *)
LEMMA RetainSound ==
  ASSUME NEW d, DbInv(d), NEW p, Selected(p) \in SUBSET Traces, NEW path
  PROVE  Sound(d, RetainCommit(d, p, path))
<1> DEFINE T == Selected(p)
           b == DeleteHot(d, T)
           m == MarkDirty(b)
           n == AdvanceGeneration(m)
           a == AdvanceEpoch(n)
           S == SpansOf(d, p)
           g == GuardSpans(a.guards, S, d.records)
           e == RetainCommit(d, p, path)
           rows == a.receipts \cup {[plan |-> p, path |-> path, compacted |-> FALSE,
                                     seq |-> NextSeq(a.receipts)]}
<1>a. DbTypeOK(d) /\ TierInv(d)
  BY DEF DbInv
<1>s. S \in SUBSET Spans /\ \A s \in S : d.records[s] \in DomainSpanState
  BY <1>a DEF SpansOf, HotSpans, DbTypeOK
<1>e. e = [a EXCEPT !.receipts = rows, !.guards = g]
  BY DEF RetainCommit
<1> HIDE DEF S, T, e, rows, g
<1>1. DbTypeOK(b) /\ b.epoch = d.epoch
  BY <1>a, DeleteHotType DEF T
<1>2. TierInv(b)
  BY DeleteHotTiers DEF T
<1> HIDE DEF b
<1>3. DbTypeOK(m) /\ SameTiers(b, m) /\ m.dirty = TRUE /\ m.epoch = b.epoch
  BY <1>1, MarkDirtyType
<1> HIDE DEF m
<1>4. DbTypeOK(n) /\ SameTiers(m, n) /\ n.dirty = m.dirty /\ n.epoch = m.epoch
  BY <1>3, AdvanceGenerationType
<1> HIDE DEF n
<1>5. DbTypeOK(a) /\ SameTiers(n, a) /\ a.dirty = n.dirty /\ a.epoch = n.epoch + 1
  BY <1>4, AdvanceEpochType
<1> HIDE DEF a
<1>6. TierInv(a)
  BY <1>2, <1>3, <1>4, <1>5, TiersFrame
<1>7. \A x \in g : x.span \in Spans /\ x.state \in DomainSpanState
  <2>1. \A x \in a.guards : x.span \in Spans /\ x.state \in DomainSpanState
    BY <1>5 DEF DbTypeOK
  <2> QED BY <1>s, <2>1, GuardSpansType DEF g
<1>8. /\ DOMAIN e = DbFields /\ e.guards = g
      /\ e.cursors = a.cursors /\ e.inputs = a.inputs /\ e.dispositions = a.dispositions
      /\ e.observations = a.observations /\ e.records = a.records
      /\ e.unresolved = a.unresolved /\ e.index = a.index /\ e.control = a.control
      /\ e.archived = a.archived /\ e.tombstones = a.tombstones
      /\ e.dirty = a.dirty /\ e.generation = a.generation
      /\ e.acknowledged = a.acknowledged /\ e.epoch = a.epoch
  BY <1>e, <1>5, Columns DEF DbTypeOK, DbFields
<1>9. DbTypeOK(e)
  BY <1>5, <1>7, <1>8, Columns DEF DbTypeOK
<1>10. TierInv(e)
  BY <1>6, <1>8, TiersFrame DEF SameTiers
<1>11. e.dirty = TRUE /\ e.epoch > d.epoch /\ e.epoch >= d.epoch
  BY <1>a, <1>1, <1>3, <1>4, <1>5, <1>8 DEF DbTypeOK
<1> QED BY <1>9, <1>10, <1>11 DEF Sound, Tracks, DbInv, e

(* finish_retention_receipt rewrites receipts only.                        *)
LEMMA CompactSound ==
  ASSUME NEW d, DbInv(d), NEW p
  PROVE  Sound(d, CompactReceipt(d, p))
<1> DEFINE e == CompactReceipt(d, p)
<1>a. DbTypeOK(d) /\ TierInv(d)
  BY DEF DbInv
<1>1. /\ DOMAIN e = DbFields
      /\ e.cursors = d.cursors /\ e.inputs = d.inputs /\ e.dispositions = d.dispositions
      /\ e.observations = d.observations /\ e.records = d.records
      /\ e.unresolved = d.unresolved /\ e.index = d.index /\ e.control = d.control
      /\ e.archived = d.archived /\ e.guards = d.guards /\ e.tombstones = d.tombstones
      /\ e.dirty = d.dirty /\ e.generation = d.generation
      /\ e.acknowledged = d.acknowledged /\ e.epoch = d.epoch
  BY <1>a, Columns DEF CompactReceipt, DbTypeOK, DbFields
<1> HIDE DEF e
<1>2. DbTypeOK(e) /\ SameTiers(d, e)
  BY <1>a, <1>1, Columns DEF DbTypeOK, SameTiers
<1>3. DbInv(e) /\ Visible(e) = Visible(d)
  BY <1>a, <1>2, TiersFrame DEF DbInv
<1>4. d.epoch \in Nat
  BY <1>a DEF DbTypeOK
<1> QED BY <1>1, <1>3, <1>4 DEF Sound, Tracks, KeepsVisible, e

(* report_ack::acknowledge writes its one metadata row.                    *)
LEMMA AcknowledgeSound ==
  ASSUME NEW d, DbInv(d), NEW n \in Nat
  PROVE  Sound(d, [d EXCEPT !.acknowledged = n])
<1> DEFINE e == [d EXCEPT !.acknowledged = n]
<1>a. DbTypeOK(d) /\ TierInv(d)
  BY DEF DbInv
<1>1. /\ DOMAIN e = DbFields
      /\ e.acknowledged = n
      /\ e.cursors = d.cursors /\ e.inputs = d.inputs /\ e.dispositions = d.dispositions
      /\ e.observations = d.observations /\ e.records = d.records
      /\ e.unresolved = d.unresolved /\ e.index = d.index /\ e.control = d.control
      /\ e.archived = d.archived /\ e.guards = d.guards /\ e.tombstones = d.tombstones
      /\ e.receipts = d.receipts /\ e.dirty = d.dirty /\ e.generation = d.generation
      /\ e.epoch = d.epoch
  BY <1>a, Columns DEF DbTypeOK, DbFields
<1> HIDE DEF e
<1>2. DbTypeOK(e) /\ SameTiers(d, e)
  BY <1>a, <1>1, Columns DEF DbTypeOK, SameTiers
<1>3. DbInv(e) /\ Visible(e) = Visible(d)
  BY <1>a, <1>2, TiersFrame DEF DbInv
<1>4. d.epoch \in Nat
  BY <1>a DEF DbTypeOK
<1> QED BY <1>1, <1>3, <1>4 DEF Sound, Tracks, KeepsVisible, e

(* invalidate_report advances the generation.                              *)
LEMMA InvalidateSound ==
  ASSUME NEW d, DbInv(d)
  PROVE  Sound(d, AdvanceGeneration(d))
<1> DEFINE e == AdvanceGeneration(d)
<1>1. DbTypeOK(e) /\ SameTiers(d, e) /\ e.dirty = d.dirty /\ e.epoch = d.epoch
  BY AdvanceGenerationType DEF DbInv
<1> HIDE DEF e
<1>2. DbInv(e) /\ Visible(e) = Visible(d)
  BY <1>1, TiersFrame DEF DbInv
<1>3. d.epoch \in Nat
  BY DEF DbInv, DbTypeOK
<1> QED BY <1>1, <1>2, <1>3 DEF Sound, Tracks, KeepsVisible, e

(* The commit of rebuild_projection clears the mark.                       *)
LEMMA ClearDirtyType ==
  ASSUME NEW d, DbInv(d)
  PROVE  LET e == [d EXCEPT !.dirty = FALSE]
         IN DbInv(e) /\ Visible(e) = Visible(d)
<1> DEFINE e == [d EXCEPT !.dirty = FALSE]
<1>a. DbTypeOK(d) /\ TierInv(d)
  BY DEF DbInv
<1>1. /\ DOMAIN e = DbFields
      /\ e.dirty = FALSE
      /\ e.cursors = d.cursors /\ e.inputs = d.inputs /\ e.dispositions = d.dispositions
      /\ e.observations = d.observations /\ e.records = d.records
      /\ e.unresolved = d.unresolved /\ e.index = d.index /\ e.control = d.control
      /\ e.archived = d.archived /\ e.guards = d.guards /\ e.tombstones = d.tombstones
      /\ e.receipts = d.receipts /\ e.generation = d.generation
      /\ e.acknowledged = d.acknowledged /\ e.epoch = d.epoch
  BY <1>a, Columns DEF DbTypeOK, DbFields
<1> HIDE DEF e
<1>2. DbTypeOK(e) /\ SameTiers(d, e)
  BY <1>a, <1>1, Columns DEF DbTypeOK, SameTiers
<1> QED BY <1>a, <1>2, TiersFrame DEF DbInv, e
-----------------------------------------------------------------------------
(* The steps of the system. *)

(* The inductive invariant.                                                *)
StoreInv == TypeOK /\ TierInv(db) /\ CleanProjectionIsCurrent

(* What every step guarantees: the invariant, and nothing visible is lost  *)
(* within an epoch.                                                        *)
StepOK == StoreInv' /\ (KeepsVisible(db, db') \/ db'.epoch > db.epoch)

(* The variables of a step other than the database.                        *)
FrameOK ==
  /\ DOMAIN archives' = Paths /\ DOMAIN reports' = Renderers
  /\ now' \in 0 .. MaxNow
  /\ alive' \in BOOLEAN /\ owed' \in BOOLEAN

(* The visible records are states.                                         *)
LEMMA VisibleType ==
  ASSUME NEW d, DbTypeOK(d)
  PROVE  Visible(d) \in [Spans -> DomainSpanState \cup {NoState}]
BY DEF Visible, DbTypeOK

(* A step that commits a sound transaction and leaves the projection file  *)
(* alone or removes it.                                                    *)
LEMMA CommitStep ==
  ASSUME StoreInv, Sound(db, db'), projection' \in {projection, NoFile}, FrameOK
  PROVE  StepOK
<1>1. DbInv(db') /\ Tracks(db, db') /\ (KeepsVisible(db, db') \/ db'.epoch > db.epoch)
  BY DEF Sound
<1>2. TypeOK'
  BY <1>1 DEF StoreInv, TypeOK, FrameOK, DbInv
<1>3. CleanProjectionIsCurrent'
  <2>1. db.dirty \/ projection = NoFile \/ projection = Visible(db)
    BY DEF StoreInv, CleanProjectionIsCurrent
  <2>2. db'.dirty \/ (db'.dirty = db.dirty /\ Visible(db') = Visible(db))
    BY <1>1 DEF Tracks
  <2>3. db'.dirty \/ projection' = NoFile \/ projection' = Visible(db')
    BY <2>1, <2>2
  <2> QED BY <2>3 DEF CleanProjectionIsCurrent
<1> QED BY <1>1, <1>2, <1>3 DEF StepOK, StoreInv, DbInv

(* A step that leaves the database and the projection file alone, or       *)
(* removes the file.                                                       *)
LEMMA QuietStep ==
  ASSUME StoreInv, db' = db, projection' \in {projection, NoFile}, FrameOK
  PROVE  StepOK
<1>1. Sound(db, db')
  BY SoundReflexive DEF StoreInv, TypeOK, DbInv
<1> QED BY <1>1, CommitStep

(* A step that renames a fresh projection into place, and clears the mark  *)
(* or dies before it does.                                                 *)
LEMMA RebuildStep ==
  ASSUME StoreInv, db' \in {db, [db EXCEPT !.dirty = FALSE]},
         projection' = Visible(db), FrameOK
  PROVE  StepOK
<1>0. DbInv(db)
  BY DEF StoreInv, TypeOK, DbInv
<1>1. DbInv(db') /\ Visible(db') = Visible(db)
  <2>1. LET e == [db EXCEPT !.dirty = FALSE] IN DbInv(e) /\ Visible(e) = Visible(db)
    BY <1>0, ClearDirtyType
  <2> QED BY <1>0, <2>1
<1>2. projection' \in [Spans -> DomainSpanState \cup {NoState}]
  BY <1>0, VisibleType DEF DbInv
<1>3. TypeOK'
  BY <1>1, <1>2 DEF TypeOK, FrameOK, DbInv
<1>4. CleanProjectionIsCurrent'
  BY <1>1 DEF CleanProjectionIsCurrent
<1>5. KeepsVisible(db, db')
  BY <1>1 DEF KeepsVisible
<1> QED BY <1>1, <1>3, <1>4, <1>5 DEF StepOK, StoreInv, DbInv

(* maintain_lifecycle_inner for one candidate.                             *)
LEMMA MaintainTraceStep ==
  ASSUME StoreInv, NEW c \in Candidates, MaintainTrace(c)
  PROVE  StepOK
<1> DEFINE tr == TransitionOf(c)
<1>0. DbInv(db)
  BY DEF StoreInv, TypeOK, DbInv
<1>1. /\ tr # "none" /\ Reload(db, c) # NoRow
      /\ ~ArchiveClash(db, c, tr) /\ db' = MoveTrace(db, c, tr)
  BY DEF MaintainTrace, Admitted, TransitionOf, Commits
<1>2. tr \in {"warm", "cold", "delete"} /\ (tr = "warm" => c.tier = "hot")
  BY <1>1 DEF TransitionOf, TransitionFor
<1>3. projection' \in {projection, NoFile} /\ FrameOK
  BY DEF MaintainTrace, StoreInv, TypeOK, FrameOK
<1> HIDE DEF tr
<1>4. Sound(db, db')
  BY <1>0, <1>1, <1>2, MoveSound
<1> QED BY <1>3, <1>4, CommitStep

(* apply_retention deletes traces that the re-derived plan selects.        *)
LEMMA ApplyRetentionStep ==
  ASSUME StoreInv, ApplyRetention
  PROVE  StepOK
<1> DEFINE path == retiring.path
<1>0. DbInv(db)
  BY DEF StoreInv, TypeOK, DbInv
<1>1. RetentionPlan(db, plan.cutoff) = plan /\ db' = RetainCommit(db, plan, path)
  BY DEF ApplyRetention, MayRetain, Commits
<1>2. Selected(plan) \in SUBSET Traces
  <2>1. plan.groups = {[trace |-> t, events |-> {<<o.id, o.hash>> : o \in EventsOf(db, t)}] :
                         t \in Eligible(db, plan.cutoff)}
    BY <1>1 DEF RetentionPlan
  <2>2. Eligible(db, plan.cutoff) \subseteq Traces
    BY DEF Eligible
  <2>3. \A g \in plan.groups : g.trace \in Traces
    BY <2>1, <2>2
  <2> QED BY <2>3 DEF Selected
<1>3. projection' = projection /\ FrameOK
  BY DEF ApplyRetention, StoreInv, TypeOK, FrameOK
<1> HIDE DEF path
<1>4. Sound(db, db')
  BY <1>0, <1>1, <1>2, RetainSound
<1> QED BY <1>3, <1>4, CommitStep

(* Every step of the system.                                               *)
LEMMA NextStep ==
  ASSUME StoreInv, [Next]_vars
  PROVE  StepOK
<1>0. DbInv(db)
  BY DEF StoreInv, TypeOK, DbInv
<1> USE DEF StoreInv, TypeOK, FrameOK
<1>1. CASE Tick
  BY <1>1, QuietStep, SystemAssumption DEF Tick
<1>2. ASSUME NEW i \in Items, Ingest(i) PROVE StepOK
  <2>1. db' = IngestItem(db, i).db
    BY <1>2 DEF Ingest, Commits
  <2>2. projection' = projection /\ FrameOK
    BY <1>2 DEF Ingest
  <2>3. Sound(db, db')
    BY <1>0, <2>1, IngestItemSound
  <2> QED BY <2>2, <2>3, CommitStep
<1>3. ASSUME NEW i \in Items, NEW j \in Items, IngestBatch(i, j) PROVE StepOK
  <2>1. db' = IngestPair(db, i, j).db
    BY <1>3 DEF IngestBatch, Commits
  <2>2. projection' = projection /\ FrameOK
    BY <1>3 DEF IngestBatch
  <2>3. Sound(db, db')
    BY <1>0, <2>1, IngestPairSound
  <2> QED BY <2>2, <2>3, CommitStep
<1>4. CASE RebuildProjection
  BY <1>4, RebuildStep DEF RebuildProjection
<1>5. CASE CrashAfterRename
  BY <1>5, RebuildStep DEF CrashAfterRename, Dies
<1>6. CASE Crash
  BY <1>6, QuietStep DEF Crash, Dies
<1>7. CASE Open
  <2>1. FrameOK
    BY <1>7 DEF Open
  <2>2. CASE db.dirty \/ projection = NoFile
    BY <1>7, <2>1, <2>2, RebuildStep DEF Open
  <2>3. CASE ~(db.dirty \/ projection = NoFile)
    BY <1>7, <2>1, <2>3, QuietStep DEF Open
  <2> QED BY <2>2, <2>3
<1>8. CASE MaintainBegin
  <2>1. db' = AdvanceGeneration(db) /\ projection' = projection /\ FrameOK
    BY <1>8 DEF MaintainBegin, RetractReports, Commits
  <2> QED BY <1>0, <2>1, InvalidateSound, CommitStep
<1>9. ASSUME NEW c \in Candidates, MaintainSkip(c) PROVE StepOK
  BY <1>9, QuietStep DEF MaintainSkip
<1>10. ASSUME NEW c \in Candidates, MaintainTrace(c) PROVE StepOK
  BY <1>10, MaintainTraceStep
<1>11. ASSUME NEW c \in Candidates, MaintainInterrupted(c) PROVE StepOK
  BY <1>11, QuietStep DEF MaintainInterrupted, Dies
<1>12. CASE MaintainEnd
  BY <1>12, QuietStep DEF MaintainEnd
<1>13. ASSUME NEW cutoff \in Cutoffs, PlanRetention(cutoff) PROVE StepOK
  BY <1>13, QuietStep DEF PlanRetention
<1>14. ASSUME NEW p \in Paths, BeginRetention(p) PROVE StepOK
  <2>1. db' = AdvanceGeneration(db) /\ projection' = projection /\ FrameOK
    BY <1>14 DEF BeginRetention, RetractReports, Commits
  <2> QED BY <1>0, <2>1, InvalidateSound, CommitStep
<1>15. CASE ApplyRetention
  BY <1>15, ApplyRetentionStep
<1>16. CASE RetentionInterrupted
  BY <1>16, QuietStep DEF RetentionInterrupted, Dies
<1>17. CASE ResumeRetention
  BY <1>17, QuietStep DEF ResumeRetention
<1>18. CASE RefuseRetention
  BY <1>18, QuietStep DEF RefuseRetention
<1>19. CASE FinishRebuild
  BY <1>19, RebuildStep DEF FinishRebuild
<1>20. CASE FinishCompact
  <2>1. db' = CompactReceipt(db, retiring.plan) /\ projection' = projection /\ FrameOK
    BY <1>20 DEF FinishCompact
  <2> QED BY <1>0, <2>1, CompactSound, CommitStep
<1>21. ASSUME NEW r \in Renderers, RenderReport(r) PROVE StepOK
  BY <1>21, QuietStep DEF RenderReport
<1>22. ASSUME NEW r \in Renderers, AcknowledgeReport(r) PROVE StepOK
  <2> DEFINE n == db.generation
  <2>1. db' = [db EXCEPT !.acknowledged = n] /\ projection' = projection /\ FrameOK
    BY <1>22 DEF AcknowledgeReport
  <2>2. n \in Nat
    BY <1>0 DEF DbInv, DbTypeOK
  <2> HIDE DEF n
  <2> QED BY <1>0, <2>1, <2>2, AcknowledgeSound, CommitStep
<1>23. CASE UNCHANGED vars
  BY <1>23, QuietStep DEF vars
<1> QED
  BY <1>1, <1>2, <1>3, <1>4, <1>5, <1>6, <1>7, <1>8, <1>9, <1>10, <1>11, <1>12,
     <1>13, <1>14, <1>15, <1>16, <1>17, <1>18, <1>19, <1>20, <1>21, <1>22, <1>23
  DEF Next

(* The empty store.                                                        *)
LEMMA InitStore == Init => StoreInv
<1> SUFFICES ASSUME Init PROVE StoreInv
  OBVIOUS
<1>1. /\ DOMAIN db = DOMAIN EmptyDb
      /\ db.cursors = [s \in Streams |-> 0]
      /\ db.inputs = {} /\ db.dispositions = {} /\ db.observations = {}
      /\ db.records = [s \in Spans |-> NoState] /\ db.unresolved = {}
      /\ db.index = [t \in Traces |-> NoRow] /\ db.control = [t \in Traces |-> NoRow]
      /\ db.archived = [s \in Spans |-> NoState]
      /\ db.guards = {} /\ db.tombstones = {} /\ db.dirty = FALSE
      /\ db.generation = 0 /\ db.acknowledged = 0 /\ db.epoch = 0
  BY DEF Init, EmptyDb
<1>2. projection = [s \in Spans |-> NoState]
  BY DEF Init
<1>3. DbTypeOK(db)
  <2>1. db.cursors \in [Streams -> 0 .. MaxCursor]
    BY <1>1, StoreAssumption
  <2>2. /\ db.records \in [Spans -> DomainSpanState \cup {NoState}]
        /\ db.archived \in [Spans -> DomainSpanState \cup {NoState}]
        /\ db.index \in [Traces -> IndexRows \cup {NoRow}]
        /\ db.control \in [Traces -> ControlRows \cup {NoRow}]
    BY <1>1
  <2>3. db.generation \in Nat /\ db.acknowledged \in Nat /\ db.epoch \in Nat
    BY <1>1
  <2>4. db.dirty \in BOOLEAN
    BY <1>1
  <2>5. db.unresolved \subseteq Spans
    BY <1>1
  <2> QED BY <1>1, <2>1, <2>2, <2>3, <2>4, <2>5, Zenon DEF DbTypeOK
<1>4. TypeOK
  <2>1. now \in 0 .. MaxNow
    BY SystemAssumption DEF Init
  <2>2. DOMAIN archives = Paths /\ DOMAIN reports = Renderers
    BY DEF Init
  <2>3. alive \in BOOLEAN /\ owed \in BOOLEAN
    BY DEF Init
  <2>4. projection \in [Spans -> DomainSpanState \cup {NoState}]
    BY <1>2
  <2> QED BY <1>3, <2>1, <2>2, <2>3, <2>4, Zenon DEF TypeOK
<1>5. TierInv(db)
  BY <1>1 DEF TierInv, HotIsIndexed, ArchivedIsControlled, IndexedIsHot,
              ControlledIsArchived, ExpiredIsGone, Expired
<1>6. CleanProjectionIsCurrent
  BY <1>1, <1>2 DEF CleanProjectionIsCurrent, Visible
<1> QED BY <1>4, <1>5, <1>6 DEF StoreInv

(* The invariant behind the theorems below.                                *)
THEOREM StoreInvariant == Spec => []StoreInv
<1>1. Init => StoreInv
  BY InitStore
<1>2. StoreInv /\ [Next]_vars => StoreInv'
  BY NextStep DEF StepOK
<1> QED BY <1>1, <1>2, PTL DEF Spec

(* Every table and every file keeps its type, whatever is ingested, aged,  *)
(* retained, rendered or interrupted.                                      *)
THEOREM StoreTypeCorrect == Spec => []TypeOK
<1>1. StoreInv => TypeOK
  BY DEF StoreInv
<1> QED BY <1>1, StoreInvariant, PTL

(* A trace is in one tier: ingest, rehydration, maintenance and retention  *)
(* never leave it hot and archived, or alive behind its tombstone.         *)
THEOREM TraceInOneTier == Spec => []OneTier
<1>1. StoreInv => OneTier
  <2> SUFFICES ASSUME StoreInv, NEW t \in Traces
               PROVE  /\ ~(HotSpans(db, t) # {} /\ ArchivedSpans(db, t) # {})
                      /\ Expired(db, t) => HotSpans(db, t) = {} /\ ArchivedSpans(db, t) = {}
                      /\ db.control[t] # NoRow <=> ArchivedSpans(db, t) # {}
    BY DEF OneTier
  <2>1. TierInv(db)
    BY DEF StoreInv
  <2>2. HotSpans(db, t) # {} => db.index[t] # NoRow
    BY <2>1 DEF TierInv, HotIsIndexed, HotSpans
  <2>3. ArchivedSpans(db, t) # {} => db.control[t] # NoRow
    BY <2>1 DEF TierInv, ArchivedIsControlled, ArchivedSpans
  <2>4. db.control[t] # NoRow => db.index[t] = NoRow /\ ArchivedSpans(db, t) # {}
    BY <2>1 DEF TierInv, ControlledIsArchived
  <2>5. Expired(db, t) => db.index[t] = NoRow /\ db.control[t] = NoRow
    BY <2>1 DEF TierInv, ExpiredIsGone
  <2> QED BY <2>2, <2>3, <2>4, <2>5
<1> QED BY <1>1, StoreInvariant, PTL

(* A projection file that is not marked dirty shows the visible records,   *)
(* through every crash between a file operation and its commit.            *)
THEOREM ProjectionNeverStale == Spec => []CleanProjectionIsCurrent
<1>1. StoreInv => CleanProjectionIsCurrent
  BY DEF StoreInv
<1> QED BY <1>1, StoreInvariant, PTL

(* No commit hides a record from the report without advancing the          *)
(* visibility epoch that revokes the published views.                      *)
THEOREM VisibilityLossRevokesViews == Spec => VisibilityLossAdvancesEpoch
<1>1. StoreInv /\ [Next]_vars =>
        [(\E s \in Spans : Visible(db)[s] # NoState /\ Visible(db')[s] = NoState)
           => db'.epoch > db.epoch]_vars
  BY NextStep DEF StepOK, KeepsVisible
<1> QED BY <1>1, StoreInvariant, PTL DEF Spec, VisibilityLossAdvancesEpoch
=============================================================================
