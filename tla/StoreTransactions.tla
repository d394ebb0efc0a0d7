-------------------------- MODULE StoreTransactions --------------------------
(***************************************************************************)
(* The transactions of the local store (crates/local-store): SQLite runs   *)
(* every writer in an IMMEDIATE transaction, so each one is an operator    *)
(* from the content of the database to the content it would commit.        *)
(* LocalStore.tla runs them, with crashes between them.                    *)
(*                                                                         *)
(* The store accepts ordered source input exactly once, reduces it to one  *)
(* record per span, ages whole traces through the hot, warm and cold       *)
(* tiers, expires them, and archives and deletes them on request.          *)
(***************************************************************************)
EXTENDS Domain

CONSTANTS Streams,       \* (source, source generation) pairs
          Observations,  \* set of [id, span, state] a source may deliver
          Diagnostics,   \* set of [kind, code, hash] an adapter may deliver
          NoRow,         \* no row for this trace
          HotAge, WarmAge, DeleteAge,              \* lifecycle thresholds
          MaxDispositions, MaxGuards, MaxReceipts, \* table bounds of the code
          MaxArchiveRecords,                       \* records one pass may touch
          MaxCursor                                \* bound of the model

ASSUME StoreAssumption ==
  /\ \A o \in Observations : o.span \in Spans /\ o.state \in DomainSpanState
  /\ {HotAge, WarmAge, DeleteAge, MaxDispositions, MaxGuards, MaxReceipts,
      MaxArchiveRecords, MaxCursor} \subseteq Nat
  /\ HotAge <= WarmAge /\ WarmAge <= DeleteAge

(* The rows of hot_trace_index and of lifecycle_trace_control.             *)
IndexRows == [latest: Nat, unresolved: BOOLEAN, count: Nat]

ControlRows == [tier: {"warm", "cold"}, latest: Nat, count: Nat]

ASSUME RowSentinelAssumption == NoRow \notin IndexRows /\ NoRow \notin ControlRows

(* canonical_observation_payload_hash covers the projected record: the     *)
(* span and its observed state, not the event id, stream or cursor.        *)
PayloadHash(o) == <<o.span, o.state>>

(* stable_event_id: the source numbers its observations per stream.        *)
EventId(stream, o) == <<stream, o.id>>

ObservedAt(x) == IF x.end = NoTime THEN x.start ELSE x.end

(* Mutant: one row too many survives.                                      *)
NewestAndOne(rows, n) ==
  {r \in rows : Cardinality({q \in rows : q.seq > r.seq}) <= n}

(* The newest n rows of a table with an insertion sequence: what           *)
(* prune_adapter_dispositions, prune_expired_span_guards, purge_trace and  *)
(* prune_retention_receipts keep.                                          *)
Newest(rows, n) ==
  {r \in rows : Cardinality({q \in rows : q.seq > r.seq}) < n}

NextSeq(rows) ==
  IF rows = {} THEN 1
  ELSE 1 + (CHOOSE m \in {r.seq : r \in rows} : \A r \in rows : r.seq <= m)

EmptyDb ==
  [cursors      |-> [s \in Streams |-> 0],
   inputs       |-> {},
   dispositions |-> {},
   observations |-> {},
   records      |-> [s \in Spans |-> NoState],
   unresolved   |-> {},
   index        |-> [t \in Traces |-> NoRow],
   control      |-> [t \in Traces |-> NoRow],
   archived     |-> [s \in Spans |-> NoState],
   guards       |-> {},
   tombstones   |-> {},
   receipts     |-> {},
   dirty        |-> TRUE,
   generation   |-> 0,
   acknowledged |-> 0,
   epoch        |-> 0]

HotSpans(d, t) == {s \in Spans : d.records[s] # NoState /\ d.records[s].trace = t}

ArchivedSpans(d, t) == {s \in Spans : d.archived[s] # NoState /\ d.archived[s].trace = t}

(* What reports and the JSONL projection read: records UNION warm_records. *)
Visible(d) ==
  [s \in Spans |->
     IF d.records[s] # NoState THEN d.records[s]
     ELSE IF d.archived[s] # NoState /\ d.control[d.archived[s].trace].tier = "warm"
          THEN d.archived[s]
          ELSE NoState]

Expired(d, t) == \E x \in d.tombstones : x.trace = t

(* Mutant: the mark is forgotten.                                          *)
LeaveClean(d) == d

(* mark_projection_dirty *)
MarkDirty(d) == [d EXCEPT !.dirty = TRUE]

(* Mutant: the generation stays.                                           *)
KeepGeneration(d) == d

(* advance_report_generation *)
AdvanceGeneration(d) == [d EXCEPT !.generation = @ + 1]

(* advance_report_visibility_epoch *)
AdvanceEpoch(d) == [d EXCEPT !.epoch = @ + 1]

Ok(d, status) == [db |-> d, status |-> status]

(* A transaction that returns Err is dropped and rolls back to d.          *)
Fail(d, error) == [db |-> d, status |-> error]

Accepted(r) == r.status \in {"committed", "duplicate", "suppressed"}
-----------------------------------------------------------------------------
(* Source input. *)

LedgerRow(rows, stream, cursor) ==
  {r \in rows : r.stream = stream /\ r.cursor = cursor}

(* Mutants: an old cursor, and a cursor behind a gap, are accepted.        *)
CursorNotAhead(d, stream, cursor) == d.cursors[stream] >= cursor - 1
CursorNotBehind(d, stream, cursor) == d.cursors[stream] <= cursor - 1

(* cursor_matches and checkpoint_cursor_matches: a source numbers its      *)
(* input consecutively, the predecessor of cursor c is c - 1, 0 is None.   *)
CursorMatches(d, stream, cursor) == d.cursors[stream] = cursor - 1

(* Mutant: the checkpoint names the next cursor.                           *)
AdvanceCursorPast(d, stream, cursor) == [d EXCEPT !.cursors[stream] = cursor + 1]

AdvanceCursor(d, stream, cursor) == [d EXCEPT !.cursors[stream] = cursor]

InsertDisposition(d, stream, cursor, kind, code, hash) ==
  [AdvanceCursor(d, stream, cursor) EXCEPT
     !.dispositions = Newest(@ \cup {[stream |-> stream, cursor |-> cursor,
                                      kind |-> kind, code |-> code, hash |-> hash,
                                      seq |-> NextSeq(@)]},
                             MaxDispositions)]

IngestDisposition(d, stream, cursor, diag) ==
  LET seen == LedgerRow(d.dispositions, stream, cursor)
  IN IF seen # {}
     THEN IF \A r \in seen : r.kind = diag.kind /\ r.code = diag.code
                             /\ r.hash = diag.hash
          THEN Ok(d, "duplicate") ELSE Fail(d, "payload_conflict")
     ELSE IF LedgerRow(d.inputs, stream, cursor) # {}
     THEN Fail(d, "payload_conflict")
     ELSE IF ~CursorMatches(d, stream, cursor)
     THEN Fail(d, "cursor_conflict")
     ELSE Ok(InsertDisposition(d, stream, cursor, diag.kind, diag.code, diag.hash),
             "committed")

Suppress(d, stream, cursor, o, code) ==
  InsertDisposition(d, stream, cursor, "suppressed", code, PayloadHash(o))

SuppressDuplicate(d, stream, cursor, o) ==
  Ok(MarkDirty(Suppress(d, stream, cursor, o, "duplicate_observation")), "suppressed")

SuppressExpired(d, stream, cursor, o) ==
  Ok(Suppress(d, stream, cursor, o, "expired_trace"), "suppressed")

InsertInput(d, stream, cursor, o) ==
  [MarkDirty(AdvanceCursor(d, stream, cursor)) EXCEPT
     !.inputs = @ \cup {[stream |-> stream, cursor |-> cursor,
                         id |-> EventId(stream, o), hash |-> PayloadHash(o)]}]

(* prepare_archived_trace: an archived trace that receives anything but an *)
(* exact replay of one of its spans is moved back to the hot tables.       *)
ArchivedDuplicate(d, o) ==
  d.control[o.state.trace] # NoRow /\ d.archived[o.span] = o.state

Rehydrate(d, t) ==
  LET S == ArchivedSpans(d, t)
      rows == [s \in Spans |-> IF s \in S THEN d.archived[s] ELSE d.records[s]]
      orphans == {s \in S : /\ d.archived[s].parent # NoSpan
                            /\ d.archived[s].parent \notin S}
  IN IF d.control[t] = NoRow THEN d
     ELSE [d EXCEPT !.records = rows,
                    !.unresolved = @ \cup orphans,
                    !.index[t] = [latest |-> d.control[t].latest,
                                  unresolved |-> orphans # {},
                                  count |-> d.control[t].count],
                    !.guards = {g \in @ : g.span \notin S},
                    !.control[t] = NoRow,
                    !.archived = [s \in Spans |-> IF s \in S THEN NoState ELSE @[s]]]

(* Mutant: the constraint is missing.                                      *)
RehydrateOver(d, t) == FALSE

(* records.span_id is UNIQUE: a span that is hot in another trace makes    *)
(* the restoring INSERT fail.                                              *)
RehydrateClash(d, t) ==
  d.control[t] # NoRow /\ \E s \in ArchivedSpans(d, t) : d.records[s] # NoState

(* ensure_static_record_compatibility *)
Compatible(x, y) == x.trace = y.trace /\ x.parent = y.parent /\ x.kind = y.kind

(* validate_topology_chain for span s over the rows about to be committed. *)
ChainError(rows, s) ==
  LET chain == {Ancestor(rows, s)[n] : n \in 0 .. Cardinality(Spans)} \ {NoSpan}
  IN \/ WalkRepeats(rows, s)
     \/ \E x \in chain : rows[x] # NoState /\ BadLink(rows, x)

TopologyError(rows, s) ==
  \/ ChainError(rows, s)
  \/ \E c \in Spans : ParentIn(rows, c) = s /\ ChainError(rows, c)

(* reduce_span_state *)
Reduced(d, o) ==
  IF d.records[o.span] = NoState THEN o.state ELSE MergeState(d.records[o.span], o.state)

RowsWith(d, o) == [d.records EXCEPT ![o.span] = Reduced(d, o)]

(* Mutant: the waiting children stay flagged.                              *)
UnresolvedForever(d, o) ==
  LET orphan == Reduced(d, o).parent # NoSpan /\ d.records[Reduced(d, o).parent] = NoState
  IN (d.unresolved \ {o.span}) \cup (IF orphan THEN {o.span} ELSE {})

(* topology.unresolved: the span itself is flagged while its parent has no *)
(* row, and its arrival resolves the children that waited for it.          *)
Unresolved(d, o) ==
  LET rows == RowsWith(d, o)
      orphan == Reduced(d, o).parent # NoSpan /\ d.records[Reduced(d, o).parent] = NoState
  IN {s \in (d.unresolved \ {o.span}) \cup (IF orphan THEN {o.span} ELSE {}) :
        rows[s].parent # o.span}

(* update_hot_trace_index *)
IndexRow(d, o) ==
  LET row == d.index[o.state.trace]
      at == ObservedAt(o.state)
  IN [latest |-> IF row = NoRow THEN at ELSE Latest(row.latest, at),
      unresolved |-> \E s \in Unresolved(d, o) : RowsWith(d, o)[s].trace = o.state.trace,
      count |-> (IF row = NoRow THEN 0 ELSE row.count)
                  + (IF d.records[o.span] = NoState THEN 1 ELSE 0)]

(* The tail of ingest_in_transaction: reduce into the current record and   *)
(* write observation, input, record, topology, hot index and generation.   *)
CommitObservation(d, stream, cursor, o) ==
  [AdvanceGeneration(InsertInput(d, stream, cursor, o)) EXCEPT
     !.observations = @ \cup {[id |-> EventId(stream, o), trace |-> o.state.trace,
                               at |-> ObservedAt(o.state), hash |-> PayloadHash(o)]},
     !.records = RowsWith(d, o),
     !.unresolved = Unresolved(d, o),
     !.index[o.state.trace] = IndexRow(d, o)]

(* ingest_in_transaction once the ledgers, the cursor and the archive have *)
(* been consulted; "base" is the database a failure rolls back to.         *)
IngestHot(base, d, stream, cursor, o) ==
  LET old == d.records[o.span]
      guard == {g \in d.guards : g.span = o.span}
      known == {x \in d.observations : x.id = EventId(stream, o)}
  IN IF old # NoState /\ ~Compatible(old, o.state)
     THEN Fail(base, "payload_conflict")
     ELSE IF old = o.state
     THEN SuppressDuplicate(d, stream, cursor, o)
     ELSE IF \E g \in guard : g.state = o.state
     THEN SuppressDuplicate(d, stream, cursor, o)
     ELSE IF guard # {} /\ ~Expired(d, o.state.trace)
     THEN Fail(base, "payload_conflict")
     ELSE IF Expired(d, o.state.trace)
     THEN SuppressExpired(d, stream, cursor, o)
     ELSE IF known # {}
     THEN IF \A x \in known : x.hash = PayloadHash(o)
          THEN Ok(InsertInput(d, stream, cursor, o), "duplicate")
          ELSE Fail(base, "payload_conflict")
     ELSE IF old # NoState /\ (EndBeforeStart(old) \/ EndBeforeStart(o.state)
                                 \/ MergeConflict(old, o.state))
     THEN Fail(base, "invalid_observation")
     ELSE IF TopologyError(RowsWith(d, o), o.span)
     THEN Fail(base, "topology_rejected")
     ELSE Ok(CommitObservation(d, stream, cursor, o), "committed")

IngestObservation(d, stream, cursor, o) ==
  LET suppressed == LedgerRow(d.dispositions, stream, cursor)
      seen == LedgerRow(d.inputs, stream, cursor)
  IN IF suppressed # {}
     THEN IF \A r \in suppressed :
               /\ r.kind = "suppressed"
               /\ r.code \in {"duplicate_observation", "expired_trace"}
               /\ r.hash = PayloadHash(o)
          THEN Ok(d, "suppressed") ELSE Fail(d, "payload_conflict")
     ELSE IF seen # {}
     THEN IF \A r \in seen : r.id = EventId(stream, o) /\ r.hash = PayloadHash(o)
          THEN Ok(d, "duplicate") ELSE Fail(d, "payload_conflict")
     ELSE IF ~CursorMatches(d, stream, cursor)
     THEN Fail(d, "cursor_conflict")
     ELSE IF ArchivedDuplicate(d, o)
     THEN SuppressDuplicate(d, stream, cursor, o)
     ELSE IF RehydrateClash(d, o.state.trace)
     THEN Fail(d, "sqlite")
     ELSE IngestHot(d, Rehydrate(d, o.state.trace), stream, cursor, o)

(* One element of a batch, and ingest_ordered_batch: the elements share    *)
(* one transaction, the first error rolls all of them back.                *)
Items ==
  [type: {"observation"}, stream: Streams, cursor: 1 .. MaxCursor, body: Observations]
    \cup
  [type: {"disposition"}, stream: Streams, cursor: 1 .. MaxCursor, body: Diagnostics]

IngestItem(d, i) ==
  IF i.type = "observation" THEN IngestObservation(d, i.stream, i.cursor, i.body)
                            ELSE IngestDisposition(d, i.stream, i.cursor, i.body)

IngestPair(d, i, j) ==
  LET first == IngestItem(d, i)
      second == IngestItem(first.db, j)
  IN IF ~Accepted(first) THEN Fail(d, first.status)
     ELSE IF ~Accepted(second) THEN Fail(d, second.status)
     ELSE second
-----------------------------------------------------------------------------
(* Tier maintenance. *)

Cutoff(at, age) == IF at >= age THEN at - age ELSE 0

(* reload_candidate: the current row behind a candidate, or NoRow.         *)
Reload(d, c) ==
  IF c.tier = "hot" THEN d.index[c.trace]
  ELSE IF d.control[c.trace] # NoRow /\ d.control[c.trace].tier = c.tier
       THEN [latest |-> d.control[c.trace].latest, unresolved |-> FALSE,
             count |-> d.control[c.trace].count]
       ELSE NoRow

TransitionFor(tier, latest, at) ==
  IF latest <= Cutoff(at, DeleteAge) THEN "delete"
  ELSE IF tier \in {"hot", "warm"} /\ latest <= Cutoff(at, WarmAge) THEN "cold"
  ELSE IF tier = "hot" /\ latest <= Cutoff(at, HotAge) THEN "warm"
  ELSE "none"

(* insert_span_guards: INSERT OR REPLACE gives a replaced guard a new      *)
(* sequence number. The spans of one call are numbered in commit order;    *)
(* any fixed order stands for it.                                          *)
GuardSpans(rows, S, states) ==
  LET kept == {g \in rows : g.span \notin S}
      order == CHOOSE f \in [S -> 1 .. Cardinality(S)] :
                 \A x, y \in S : x # y => f[x] # f[y]
  IN Newest(kept \cup {[span |-> s, state |-> states[s],
                        seq |-> NextSeq(rows) + order[s]] : s \in S},
            MaxGuards)

(* delete_hot_trace, and the DELETEs of apply_retention for one trace set. *)
DeleteHot(d, T) ==
  LET gone == {o.id : o \in {x \in d.observations : x.trace \in T}}
      S == UNION {HotSpans(d, t) : t \in T}
  IN [d EXCEPT !.inputs = {i \in @ : i.id \notin gone},
               !.observations = {o \in @ : o.trace \notin T},
               !.unresolved = @ \ S,
               !.records = [s \in Spans |-> IF s \in S THEN NoState ELSE @[s]],
               !.index = [t \in Traces |-> IF t \in T THEN NoRow ELSE @[t]]]

(* archive_hot_control plus the guards: what hot-to-warm and hot-to-cold   *)
(* share. warm_records and the cold blob are copies of the control rows.   *)
ArchiveHot(d, t, tier) ==
  LET S == HotSpans(d, t)
  IN [DeleteHot(d, {t}) EXCEPT
        !.control[t] = [tier |-> tier, latest |-> d.index[t].latest,
                        count |-> d.index[t].count],
        !.archived = [s \in Spans |-> IF s \in S THEN d.records[s] ELSE @[s]],
        !.guards = GuardSpans(@, S, d.records)]

(* Mutant: the DELETE does not cascade to the span rows.                   *)
DropControlOnly(d, t) == [d EXCEPT !.control[t] = NoRow]

DropArchived(d, t) ==
  [d EXCEPT !.control[t] = NoRow,
            !.archived = [s \in Spans |->
                            IF s \in ArchivedSpans(d, t) THEN NoState ELSE @[s]]]

(* purge_trace *)
Purge(d, c) ==
  LET base == IF c.tier = "hot"
              THEN [DeleteHot(d, {c.trace}) EXCEPT
                      !.guards = GuardSpans(@, HotSpans(d, c.trace), d.records)]
              ELSE DropArchived(d, c.trace)
  IN [base EXCEPT
        !.tombstones =
          Newest({x \in @ : x.trace # c.trace}
                   \cup {[trace |-> c.trace, seq |-> NextSeq(@)]}, MaxGuards)]

(* lifecycle_span_control.span_id is the primary key: a span archived      *)
(* under another trace makes the copying INSERT fail.                      *)
ArchiveClash(d, c, transition) ==
  /\ c.tier = "hot" /\ transition # "delete"
  /\ \E s \in HotSpans(d, c.trace) : d.archived[s] # NoState

(* Mutant: only deletion is taken for a loss.                              *)
DeleteRemovesVisibility(transition) == transition = "delete"

(* The transitions behind which a record is no longer reported.            *)
RemovesVisibility(transition) == transition \in {"cold", "delete"}

(* The transaction of maintain_lifecycle_inner for an admitted candidate.  *)
MoveTrace(d, c, transition) ==
  LET moved ==
        IF transition = "delete" THEN Purge(d, c)
        ELSE IF c.tier = "hot" THEN ArchiveHot(d, c.trace, transition)
        ELSE [d EXCEPT !.control[c.trace].tier = "cold"]
      marked == AdvanceGeneration(MarkDirty(moved))
  IN IF RemovesVisibility(transition) THEN AdvanceEpoch(marked) ELSE marked
-----------------------------------------------------------------------------
(* Manual retention. *)

EventsOf(d, t) == {o \in d.observations : o.trace = t}

(* Mutant: the cutoff itself counts as old.                                *)
EligibleAtCutoff(d, cutoff) ==
  {t \in Traces :
     /\ EventsOf(d, t) # {}
     /\ \A o \in EventsOf(d, t) : o.at <= cutoff
     /\ HotSpans(d, t) # {}
     /\ HotSpans(d, t) \cap d.unresolved = {}}

(* select_retention reads the newest observation row of each trace.        *)
Eligible(d, cutoff) ==
  {t \in Traces :
     /\ EventsOf(d, t) # {}
     /\ \A o \in EventsOf(d, t) : o.at < cutoff
     /\ HotSpans(d, t) # {}
     /\ HotSpans(d, t) \cap d.unresolved = {}}

RetentionPlan(d, cutoff) ==
  [cutoff |-> cutoff,
   groups |-> {[trace |-> t, events |-> {<<o.id, o.hash>> : o \in EventsOf(d, t)}] :
                 t \in Eligible(d, cutoff)}]

Selected(plan) == {g.trace : g \in plan.groups}

SpansOf(d, plan) == UNION {HotSpans(d, t) : t \in Selected(plan)}

Truncated(d, plan) == Cardinality(SpansOf(d, plan)) > MaxArchiveRecords

(* Mutant: running spans are left out of the archive.                      *)
ArchiveFinished(d, plan) ==
  [plan |-> plan,
   entries |-> {<<s, d.records[s]>> :
                  s \in {x \in SpansOf(d, plan) : d.records[x].lifecycle \in Terminal}}]

(* write_archive: the file that is published before the transaction       *)
(* deletes anything.                                                       *)
ArchiveFile(d, plan) ==
  [plan |-> plan, entries |-> {<<s, d.records[s]>> : s \in SpansOf(d, plan)}]

RetainCommit(d, plan, path) ==
  LET S == SpansOf(d, plan)
  IN [AdvanceEpoch(AdvanceGeneration(MarkDirty(DeleteHot(d, Selected(plan))))) EXCEPT
        !.receipts = @ \cup {[plan |-> plan, path |-> path, compacted |-> FALSE,
                              seq |-> NextSeq(@)]},
        !.guards = GuardSpans(@, S, d.records)]

(* The second transaction of finish_retention_receipt.                     *)
CompactReceipt(d, plan) ==
  LET marked == {[r EXCEPT !.compacted = @ \/ r.plan = plan] : r \in d.receipts}
      done == {r \in marked : r.compacted}
  IN [d EXCEPT !.receipts = (marked \ done) \cup Newest(done, MaxReceipts)]
=============================================================================
