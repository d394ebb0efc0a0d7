------------------------- MODULE StoreTablesProofs -------------------------
(***************************************************************************)
(* The tables of the local store: what its ledgers, its capped tables and  *)
(* its summary rows say of each other.                                     *)
(***************************************************************************)
EXTENDS LocalStoreProofs, FunctionTheorems

-----------------------------------------------------------------------------
(* Capped tables with an insertion sequence.                               *)

Numbered(rows) ==
  /\ IsFiniteSet(rows)
  /\ \A r \in rows : r.seq \in Nat
  /\ \A q, r \in rows : q.seq = r.seq => q = r
  /\ \E b \in Nat : \A r \in rows : r.seq <= b

(* The sequence number for the next row is above all others.               *)
LEMMA NextSeqAbove ==
  ASSUME NEW rows, Numbered(rows)
  PROVE  NextSeq(rows) \in Nat /\ \A r \in rows : r.seq < NextSeq(rows)
<1>1. CASE rows = {}
  BY <1>1 DEF NextSeq
<1>2. CASE rows # {}
  <2> DEFINE bounds == {b \in Nat : \A r \in rows : r.seq <= b}
             top == CHOOSE m \in {r.seq : r \in rows} : \A r \in rows : r.seq <= m
  <2>1. bounds \in SUBSET Nat /\ bounds # {}
    BY DEF Numbered
  <2>2. PICK u \in bounds : \A b \in bounds : u <= b
    <3> HIDE DEF bounds
    <3> QED BY <2>1, LeastNatural
  <2>3. \E r \in rows : r.seq = u
    <3> SUFFICES ASSUME \A r \in rows : r.seq # u PROVE FALSE
      OBVIOUS
    <3>1. \A r \in rows : r.seq <= u - 1
      BY <2>2 DEF Numbered
    <3>2. u - 1 \in bounds
      BY <1>2, <2>2, <3>1 DEF Numbered
    <3> QED BY <2>2, <3>2
  <2>4. \E m \in {r.seq : r \in rows} : \A r \in rows : r.seq <= m
    BY <2>2, <2>3
  <2>5. top \in {r.seq : r \in rows} /\ \A r \in rows : r.seq <= top
    BY <2>4
  <2>6. NextSeq(rows) = 1 + top
    BY <1>2 DEF NextSeq
  <2> HIDE DEF top
  <2> QED BY <2>5, <2>6 DEF Numbered
<1> QED BY <1>1, <1>2

(* A part of a numbered table is one.                                      *)
LEMMA NumberedSubset ==
  ASSUME NEW rows, NEW part \in SUBSET rows, Numbered(rows)
  PROVE  Numbered(part) /\ Cardinality(part) <= Cardinality(rows)
BY FS_Subset DEF Numbered

(* A row with a sequence number above all others joins the table.          *)
LEMMA NumberedInsert ==
  ASSUME NEW rows, Numbered(rows), NEW row,
         row.seq \in Nat, \A r \in rows : r.seq < row.seq
  PROVE  Numbered(rows \cup {row})
<1>2. IsFiniteSet(rows \cup {row})
  BY FS_AddElement DEF Numbered
<1>3. \A r \in rows \cup {row} : r.seq \in Nat /\ r.seq <= row.seq
  BY DEF Numbered
<1>4. \A q, r \in rows \cup {row} : q.seq = r.seq => q = r
  BY DEF Numbered
<1> QED BY <1>2, <1>3, <1>4 DEF Numbered

(* Pruning leaves at most n rows.                                          *)
LEMMA NewestBound ==
  ASSUME NEW rows, Numbered(rows), NEW n \in Nat
  PROVE  Numbered(Newest(rows, n)) /\ Cardinality(Newest(rows, n)) <= n
<1> DEFINE kept == Newest(rows, n)
<1>1. kept \subseteq rows
  BY DEF Newest
<1>2. Numbered(kept)
  BY <1>1, NumberedSubset
<1>3. Cardinality(kept) <= n
  <2>1. CASE kept = {}
    BY <2>1, FS_EmptySet
  <2>2. CASE kept # {}
    <3> DEFINE seqs == {r.seq : r \in kept}
    <3>1. seqs \in SUBSET Nat /\ seqs # {}
      BY <1>2, <2>2 DEF Numbered
    <3>2. PICK m \in seqs : \A k \in seqs : m <= k
      BY <3>1, LeastNatural
    <3>3. PICK r \in kept : r.seq = m
      BY <3>2
    <3>4. \A q \in kept \ {r} : q.seq > r.seq
      <4> TAKE q \in kept \ {r}
      <4>1. q.seq \in Nat /\ r.seq \in Nat /\ q.seq # r.seq
        BY <1>2, <3>3 DEF Numbered
      <4>2. r.seq <= q.seq
        BY <3>2, <3>3
      <4> QED BY <4>1, <4>2
    <3> DEFINE above == {q \in rows : q.seq > r.seq}
    <3>5. kept \ {r} \subseteq above
      BY <1>1, <3>4
    <3>6. IsFiniteSet(above) /\ Cardinality(above) < n
      <4>1. above \subseteq rows
        OBVIOUS
      <4> QED BY <4>1, <3>3, FS_Subset DEF Numbered, Newest
    <3> HIDE DEF above, kept
    <3>7. Cardinality(kept \ {r}) <= Cardinality(above)
      BY <3>5, <3>6, FS_Subset
    <3>8. IsFiniteSet(kept) /\ r \in kept
      BY <1>2, <3>3 DEF Numbered
    <3>9. Cardinality(kept \ {r}) = Cardinality(kept) - 1 /\ Cardinality(kept) \in Nat
      BY <3>8, FS_RemoveElement, FS_CardinalityType
    <3>10. Cardinality(above) \in Nat
      BY <3>6, FS_CardinalityType
    <3> QED BY <3>6, <3>7, <3>9, <3>10
  <2> QED BY <2>1, <2>2
<1> QED BY <1>2, <1>3

(* insert_span_guards numbers its rows from the next sequence number on.   *)
LEMMA GuardsBounded ==
  ASSUME NEW rows, Numbered(rows), NEW S \in SUBSET Spans, NEW states
  PROVE  /\ Numbered(GuardSpans(rows, S, states))
         /\ Cardinality(GuardSpans(rows, S, states)) <= MaxGuards
<1> DEFINE injective(f) == \A x, y \in S : x # y => f[x] # f[y]
           order == CHOOSE f \in [S -> 1 .. Cardinality(S)] : injective(f)
           kept == {g \in rows : g.span \notin S}
           mk(s) == [span |-> s, state |-> states[s], seq |-> NextSeq(rows) + order[s]]
           fresh == {mk(s) : s \in S}
<1>1. IsFiniteSet(S) /\ Cardinality(S) \in Nat
  BY SentinelAssumption, FS_Subset, FS_CardinalityType
<1>2. \E f \in [S -> 1 .. Cardinality(S)] : injective(f)
  <2> DEFINE T == 1 .. Cardinality(S)
  <2>1. ExistsBijection(T, S)
    BY <1>1, FS_CardinalityType
  <2> HIDE DEF T
  <2>2. ExistsBijection(S, T)
    BY <2>1, Fun_ExistsBijSymmetric
  <2>3. PICK f : f \in Bijection(S, T)
    BY <2>2, Fun_ExistsBij
  <2>4. f \in [S -> T] /\ \A a, b \in S : f[a] = f[b] => a = b
    BY <2>3, Fun_BijectionProperties
  <2> QED BY <2>4 DEF T
<1>3. order \in [S -> 1 .. Cardinality(S)] /\ injective(order)
  BY <1>2
<1> HIDE DEF order
<1>4. NextSeq(rows) \in Nat /\ \A r \in rows : r.seq < NextSeq(rows)
  BY NextSeqAbove
<1>5. \A s \in S : order[s] \in Nat /\ order[s] > 0 /\ order[s] <= Cardinality(S)
  BY <1>1, <1>3
<1>6. /\ \A g \in fresh : g.seq \in Nat /\ g.seq > NextSeq(rows)
                          /\ g.seq <= NextSeq(rows) + Cardinality(S)
      /\ \A q, r \in fresh : q.seq = r.seq => q = r
  <2> DEFINE n == NextSeq(rows)
  <2>1. n \in Nat
    BY <1>4
  <2> HIDE DEF n
  <2>2. \A s \in S : mk(s).seq = n + order[s]
    BY DEF n
  <2>3. \A x, y \in S : mk(x).seq = mk(y).seq => x = y
    BY <1>3, <1>5, <2>1, <2>2
  <2>4. \A g \in fresh : g.seq \in Nat /\ g.seq > n /\ g.seq <= n + Cardinality(S)
    BY <1>1, <1>5, <2>1, <2>2
  <2>5. \A q, r \in fresh : q.seq = r.seq => q = r
    BY <2>3
  <2> QED BY <2>4, <2>5 DEF n
<1>7. IsFiniteSet(fresh)
  <2> DEFINE f == [s \in S |-> mk(s)]
  <2>1. f \in Surjection(S, fresh)
    BY DEF Surjection
  <2> HIDE DEF f, fresh
  <2> QED BY <1>1, <2>1, FS_Surjection
<1>8. Numbered(kept)
  BY NumberedSubset
<1>9. Numbered(kept \cup fresh)
  <2>1. IsFiniteSet(kept \cup fresh)
    BY <1>7, <1>8, FS_Union DEF Numbered
  <2>2. \A r \in kept : r.seq \in Nat /\ r.seq < NextSeq(rows)
    BY <1>4 DEF Numbered
  <2> HIDE DEF kept, fresh
  <2>3. \A q, r \in kept \cup fresh : q.seq = r.seq => q = r
    BY <1>4, <1>6, <1>8, <2>2 DEF Numbered
  <2>4. \A r \in kept \cup fresh : r.seq \in Nat /\ r.seq <= NextSeq(rows) + Cardinality(S)
    BY <1>1, <1>4, <1>6, <2>2
  <2>5. NextSeq(rows) + Cardinality(S) \in Nat
    BY <1>1, <1>4
  <2> QED BY <2>1, <2>3, <2>4, <2>5 DEF Numbered
<1>10. GuardSpans(rows, S, states) = Newest(kept \cup fresh, MaxGuards)
  BY DEF GuardSpans, order
<1>11. MaxGuards \in Nat
  BY StoreAssumption
<1> HIDE DEF kept, fresh
<1> QED BY <1>9, <1>10, <1>11, NewestBound
-----------------------------------------------------------------------------
(* What the transactions write, column by column.                          *)

(* e has the columns of the schema, and differs from d in cols at most.    *)
Changes(d, e, cols) ==
  DOMAIN e = DbFields /\ \A f \in DbFields \ cols : e[f] = d[f]

(* One value of a column that is a function.                               *)
Put(f, x, v) == [f EXCEPT ![x] = v]

(* The rows that ingest writes.                                            *)
DispositionRow(d, st, c, kind, code, hash) ==
  [stream |-> st, cursor |-> c, kind |-> kind, code |-> code, hash |-> hash,
   seq |-> NextSeq(d.dispositions)]

InputRow(st, c, o) ==
  [stream |-> st, cursor |-> c, id |-> EventId(st, o), hash |-> PayloadHash(o)]

EventRow(st, o) ==
  [id |-> EventId(st, o), trace |-> o.state.trace, at |-> ObservedAt(o.state),
   hash |-> PayloadHash(o)]

(* The spans of an archived trace whose parent is not restored with them.  *)
Orphans(d, t) ==
  {s \in ArchivedSpans(d, t) : /\ d.archived[s].parent # NoSpan
                               /\ d.archived[s].parent \notin ArchivedSpans(d, t)}

(* A database has the columns of the schema.                               *)
LEMMA HasColumns == ASSUME NEW d, DbTypeOK(d) PROVE DOMAIN d = DbFields
BY Columns DEF DbTypeOK

(* The one-column writes.                                                  *)
LEMMA WriteColumns ==
  ASSUME NEW d, DOMAIN d = DbFields, NEW st, NEW c
  PROVE  /\ Changes(d, AdvanceCursor(d, st, c), {"cursors"})
         /\ AdvanceCursor(d, st, c).cursors = Put(d.cursors, st, c)
         /\ Changes(d, MarkDirty(d), {"dirty"})
         /\ Changes(d, AdvanceGeneration(d), {"generation"})
         /\ Changes(d, AdvanceEpoch(d), {"epoch"})
BY DEF Changes, DbFields, Put, AdvanceCursor, MarkDirty, AdvanceGeneration, AdvanceEpoch

(* Writes in a row.                                                        *)
LEMMA ChangesTransitive ==
  ASSUME NEW d, NEW e, NEW f, NEW A, NEW B, Changes(d, e, A), Changes(e, f, B)
  PROVE  Changes(d, f, A \cup B)
BY DEF Changes

(* The columns that a disposition row writes.                              *)
LEMMA DispositionColumns ==
  ASSUME NEW d, DOMAIN d = DbFields, NEW st, NEW c, NEW kind, NEW code, NEW hash
  PROVE  LET e == InsertDisposition(d, st, c, kind, code, hash)
             row == DispositionRow(d, st, c, kind, code, hash)
         IN /\ Changes(d, e, {"cursors", "dispositions"})
            /\ e.cursors = Put(d.cursors, st, c)
            /\ e.dispositions = Newest(d.dispositions \cup {row}, MaxDispositions)
<1> DEFINE a == AdvanceCursor(d, st, c)
           row == DispositionRow(d, st, c, kind, code, hash)
           e == InsertDisposition(d, st, c, kind, code, hash)
           new == Newest(d.dispositions \cup {row}, MaxDispositions)
<1>1. Changes(d, a, {"cursors"}) /\ a.cursors = Put(d.cursors, st, c)
  BY WriteColumns
<1>2. DOMAIN a = DbFields /\ a.dispositions = d.dispositions
  BY <1>1 DEF Changes, DbFields
<1>3. e = [a EXCEPT !.dispositions = new]
  BY <1>2 DEF InsertDisposition, DispositionRow
<1> HIDE DEF a, e, new
<1>4. Changes(a, e, {"dispositions"}) /\ e.dispositions = new
  BY <1>2, <1>3 DEF Changes, DbFields
<1>5. Changes(d, e, {"cursors", "dispositions"}) /\ e.cursors = a.cursors
  BY <1>1, <1>4 DEF Changes, DbFields
<1> QED BY <1>1, <1>4, <1>5 DEF e, new

(* The columns that an accepted input writes.                              *)
LEMMA InputColumns ==
  ASSUME NEW d, DOMAIN d = DbFields, NEW st, NEW c, NEW o
  PROVE  LET e == InsertInput(d, st, c, o)
             row == InputRow(st, c, o)
         IN /\ Changes(d, e, {"cursors", "inputs", "dirty"})
            /\ e.cursors = Put(d.cursors, st, c)
            /\ e.inputs = d.inputs \cup {row}
<1> DEFINE a == AdvanceCursor(d, st, c)
           m == MarkDirty(a)
           row == InputRow(st, c, o)
           e == InsertInput(d, st, c, o)
           new == d.inputs \cup {row}
<1>1. Changes(d, a, {"cursors"}) /\ a.cursors = Put(d.cursors, st, c)
  BY WriteColumns
<1>2. DOMAIN a = DbFields /\ a.inputs = d.inputs
  BY <1>1 DEF Changes, DbFields
<1>3. Changes(a, m, {"dirty"})
  <2> HIDE DEF a
  <2> QED BY <1>2, WriteColumns
<1>4. DOMAIN m = DbFields /\ m.inputs = d.inputs /\ m.cursors = a.cursors
  BY <1>2, <1>3 DEF Changes, DbFields
<1>5. e = [m EXCEPT !.inputs = new]
  BY <1>4 DEF InsertInput, InputRow
<1> HIDE DEF a, m, e, new
<1>6. Changes(m, e, {"inputs"}) /\ e.inputs = new
  BY <1>4, <1>5 DEF Changes, DbFields
<1>7. Changes(d, e, {"cursors", "inputs", "dirty"}) /\ e.cursors = m.cursors
  BY <1>1, <1>3, <1>6 DEF Changes, DbFields
<1> QED BY <1>1, <1>4, <1>6, <1>7 DEF e, new

(* The columns that a new observation writes.                              *)
LEMMA CommitColumns ==
  ASSUME NEW d, DOMAIN d = DbFields, NEW st, NEW c, NEW o
  PROVE  LET e == CommitObservation(d, st, c, o)
             row == InputRow(st, c, o)
             event == EventRow(st, o)
         IN /\ Changes(d, e, {"cursors", "inputs", "dirty", "generation", "observations",
                              "records", "unresolved", "index"})
            /\ e.cursors = Put(d.cursors, st, c)
            /\ e.inputs = d.inputs \cup {row}
            /\ e.observations = d.observations \cup {event}
            /\ e.records = RowsWith(d, o)
            /\ e.unresolved = Unresolved(d, o)
            /\ e.index = Put(d.index, o.state.trace, IndexRow(d, o))
<1> DEFINE i == InsertInput(d, st, c, o)
           g == AdvanceGeneration(i)
           row == InputRow(st, c, o)
           event == EventRow(st, o)
           events == d.observations \cup {event}
           rows == RowsWith(d, o)
           flags == Unresolved(d, o)
           t == o.state.trace
           new == IndexRow(d, o)
           e == CommitObservation(d, st, c, o)
<1>1. /\ Changes(d, i, {"cursors", "inputs", "dirty"})
      /\ i.cursors = Put(d.cursors, st, c) /\ i.inputs = d.inputs \cup {row}
  BY InputColumns
<1>2. Changes(i, g, {"generation"})
  <2>1. DOMAIN i = DbFields
    BY <1>1 DEF Changes
  <2> HIDE DEF i
  <2> QED BY <2>1, WriteColumns
<1>3. /\ DOMAIN g = DbFields /\ g.cursors = i.cursors /\ g.inputs = i.inputs
      /\ g.observations = d.observations /\ g.index = d.index
  <2> HIDE DEF i, g
  <2> QED BY <1>1, <1>2 DEF Changes, DbFields
<1>4. e = [g EXCEPT !.observations = events, !.records = rows,
                    !.unresolved = flags, !.index = Put(d.index, t, new)]
  BY <1>3 DEF CommitObservation, EventRow, Put
<1> HIDE DEF i, g, e, events, rows, flags, new, t
<1>5. /\ Changes(g, e, {"observations", "records", "unresolved", "index"})
      /\ e.observations = events /\ e.records = rows /\ e.unresolved = flags
      /\ e.index = Put(d.index, t, new)
      /\ e.cursors = g.cursors /\ e.inputs = g.inputs
  BY <1>3, <1>4 DEF Changes, DbFields
<1>6. Changes(d, e, {"cursors", "inputs", "dirty", "generation", "observations",
                     "records", "unresolved", "index"})
  BY <1>1, <1>2, <1>5 DEF Changes
<1> QED BY <1>1, <1>3, <1>5, <1>6 DEF e, events, rows, flags, new, t

(* The columns that prepare_archived_trace writes.                         *)
LEMMA RehydrateColumns ==
  ASSUME NEW d, DbTypeOK(d), NEW t \in Traces, d.control[t] # NoRow
  PROVE  LET e == Rehydrate(d, t)
             S == ArchivedSpans(d, t)
         IN /\ Changes(d, e, {"records", "unresolved", "index", "guards", "control",
                              "archived"})
            /\ \A s \in Spans :
                 /\ e.records[s] = IF s \in S THEN d.archived[s] ELSE d.records[s]
                 /\ e.archived[s] = IF s \in S THEN NoState ELSE d.archived[s]
            /\ \A u \in Traces \ {t} :
                 e.index[u] = d.index[u] /\ e.control[u] = d.control[u]
            /\ e.control[t] = NoRow
            /\ e.index[t].latest = d.control[t].latest
            /\ e.index[t].count = d.control[t].count
            /\ e.index[t].unresolved = (Orphans(d, t) # {})
            /\ e.guards \subseteq d.guards
            /\ e.unresolved = d.unresolved \cup Orphans(d, t)
<1> DEFINE S == ArchivedSpans(d, t)
           row == [latest |-> d.control[t].latest, unresolved |-> Orphans(d, t) # {},
                   count |-> d.control[t].count]
           rows == [s \in Spans |-> IF s \in S THEN d.archived[s] ELSE d.records[s]]
           rest == [s \in Spans |-> IF s \in S THEN NoState ELSE d.archived[s]]
           guards == {g \in d.guards : g.span \notin S}
           index == [d.index EXCEPT ![t] = row]
           control == [d.control EXCEPT ![t] = NoRow]
           e == Rehydrate(d, t)
<1>0. DOMAIN d = DbFields /\ DOMAIN d.index = Traces /\ DOMAIN d.control = Traces
  BY HasColumns DEF DbTypeOK
<1>1. e = [d EXCEPT !.records = rows, !.unresolved = d.unresolved \cup Orphans(d, t),
                    !.index = index, !.guards = guards, !.control = control,
                    !.archived = rest]
  BY <1>0 DEF Rehydrate, Orphans, DbFields
<1>2. /\ row.latest = d.control[t].latest /\ row.count = d.control[t].count
      /\ row.unresolved = (Orphans(d, t) # {})
      /\ guards \subseteq d.guards
  OBVIOUS
<1> HIDE DEF S, row, guards
<1>3. /\ \A u \in Traces \ {t} : index[u] = d.index[u] /\ control[u] = d.control[u]
      /\ index[t] = row /\ control[t] = NoRow
  BY <1>0
<1>4. \A s \in Spans : /\ rows[s] = IF s \in S THEN d.archived[s] ELSE d.records[s]
                       /\ rest[s] = IF s \in S THEN NoState ELSE d.archived[s]
  OBVIOUS
<1> HIDE DEF rows, rest, index, control, e
<1>5. /\ Changes(d, e, {"records", "unresolved", "index", "guards", "control", "archived"})
      /\ e.records = rows /\ e.archived = rest /\ e.index = index
      /\ e.control = control /\ e.guards = guards
      /\ e.unresolved = d.unresolved \cup Orphans(d, t)
  BY <1>0, <1>1 DEF Changes, DbFields
<1> QED BY <1>2, <1>3, <1>4, <1>5 DEF S, e
-----------------------------------------------------------------------------
(* The two input ledgers and their checkpoints.                            *)

(* The two tables with one key space.                                      *)
Ledger(d) == d.inputs \cup d.dispositions

(* The inductive form of LedgerExclusive.                                  *)
LedgerInv(d) ==
  /\ \A r \in Ledger(d) : r.cursor <= d.cursors[r.stream]
  /\ \A q, r \in Ledger(d) : q.stream = r.stream /\ q.cursor = r.cursor => q = r

(* The four tables that are capped by count.                               *)
CapsInv(d) ==
  /\ Numbered(d.dispositions) /\ Cardinality(d.dispositions) <= MaxDispositions
  /\ Numbered(d.guards) /\ Cardinality(d.guards) <= MaxGuards
  /\ Numbered(d.tombstones) /\ Cardinality(d.tombstones) <= MaxGuards

(* The ledgers are the same.                                               *)
SameLedgers(d, e) ==
  e.cursors = d.cursors /\ e.inputs = d.inputs /\ e.dispositions = d.dispositions

(* One input is accounted for: its checkpoint moves by one, over one row   *)
(* that is new in one of the two ledgers.                                  *)
Accounts(d, e, st, c) ==
  /\ d.cursors[st] = c - 1
  /\ e.cursors = Put(d.cursors, st, c)
  /\ \E row :
       /\ row.stream = st /\ row.cursor = c
       /\ \/ e.inputs = d.inputs \cup {row} /\ e.dispositions = d.dispositions
          \/ /\ e.inputs = d.inputs /\ row.seq = NextSeq(d.dispositions)
             /\ e.dispositions = Newest(d.dispositions \cup {row}, MaxDispositions)

(* What a step of ingest does to the ledgers and to the capped tables.     *)
Ingested(d, e) ==
  /\ SameLedgers(d, e) \/ \E st \in Streams, c \in 1 .. MaxCursor : Accounts(d, e, st, c)
  /\ e.guards \subseteq d.guards /\ e.tombstones = d.tombstones /\ e.receipts = d.receipts

(* A rejected item, and a replay, write nothing.                           *)
LEMMA IngestedUnchanged == ASSUME NEW d PROVE Ingested(d, d)
BY DEF Ingested, SameLedgers

(* A rehydration in front of a step does not show in the ledgers.          *)
LEMMA RehydrateLedgers ==
  ASSUME NEW d, DbTypeOK(d), NEW t \in Traces
  PROVE  LET h == Rehydrate(d, t)
         IN /\ DOMAIN h = DbFields /\ SameLedgers(d, h)
            /\ h.guards \subseteq d.guards /\ h.tombstones = d.tombstones
            /\ h.receipts = d.receipts
<1> DEFINE h == Rehydrate(d, t)
<1>1. CASE d.control[t] = NoRow
  <2>1. h = d
    BY <1>1 DEF Rehydrate
  <2> HIDE DEF h
  <2> QED BY <2>1, HasColumns DEF SameLedgers, h
<1>2. CASE d.control[t] # NoRow
  <2>1. /\ Changes(d, h, {"records", "unresolved", "index", "guards", "control", "archived"})
        /\ h.guards \subseteq d.guards
    BY <1>2, RehydrateColumns
  <2> HIDE DEF h
  <2> QED BY <2>1 DEF Changes, DbFields, SameLedgers, h
<1> QED BY <1>1, <1>2

(* A disposition that is inserted behind the checkpoint.                   *)
LEMMA DispositionIngested ==
  ASSUME NEW d, NEW h, DOMAIN h = DbFields, SameLedgers(d, h),
         h.guards \subseteq d.guards, h.tombstones = d.tombstones, h.receipts = d.receipts,
         NEW st \in Streams, NEW c \in 1 .. MaxCursor, CursorMatches(d, st, c),
         NEW kind, NEW code, NEW hash
  PROVE  LET e == InsertDisposition(h, st, c, kind, code, hash)
         IN Ingested(d, e) /\ Ingested(d, MarkDirty(e))
<1> DEFINE e == InsertDisposition(h, st, c, kind, code, hash)
           row == DispositionRow(h, st, c, kind, code, hash)
           m == MarkDirty(e)
<1>1. /\ Changes(h, e, {"cursors", "dispositions"})
      /\ e.cursors = Put(h.cursors, st, c)
      /\ e.dispositions = Newest(h.dispositions \cup {row}, MaxDispositions)
  BY DispositionColumns
<1>2. row.stream = st /\ row.cursor = c /\ row.seq = NextSeq(h.dispositions)
  BY DEF DispositionRow
<1> HIDE DEF e, row
<1>3. DOMAIN e = DbFields
  BY <1>1 DEF Changes
<1>4. Changes(e, m, {"dirty"})
  BY <1>3, WriteColumns
<1> HIDE DEF m
<1>5. ASSUME NEW x \in {e, m} PROVE Ingested(d, x)
  <2>1. /\ x.inputs = d.inputs /\ x.cursors = Put(d.cursors, st, c)
        /\ x.dispositions = Newest(d.dispositions \cup {row}, MaxDispositions)
        /\ x.guards \subseteq d.guards /\ x.tombstones = d.tombstones
        /\ x.receipts = d.receipts
    BY <1>1, <1>4, <1>5 DEF Changes, DbFields, SameLedgers
  <2>2. row.seq = NextSeq(d.dispositions)
    BY <1>2 DEF SameLedgers
  <2>3. Accounts(d, x, st, c)
    BY <1>2, <2>1, <2>2 DEF Accounts, CursorMatches
  <2> QED BY <2>1, <2>3 DEF Ingested
<1> QED BY <1>5 DEF e, m

(* A source input that is inserted behind the checkpoint, alone or with    *)
(* the record it reduces into.                                             *)
LEMMA InputIngested ==
  ASSUME NEW d, NEW h, DOMAIN h = DbFields, SameLedgers(d, h),
         h.guards \subseteq d.guards, h.tombstones = d.tombstones, h.receipts = d.receipts,
         NEW st \in Streams, NEW c \in 1 .. MaxCursor, CursorMatches(d, st, c), NEW o
  PROVE  Ingested(d, InsertInput(h, st, c, o)) /\ Ingested(d, CommitObservation(h, st, c, o))
<1> DEFINE e == InsertInput(h, st, c, o)
           m == CommitObservation(h, st, c, o)
           row == InputRow(st, c, o)
<1>1. /\ Changes(h, e, {"cursors", "inputs", "dirty"})
      /\ e.cursors = Put(h.cursors, st, c) /\ e.inputs = h.inputs \cup {row}
  BY InputColumns
<1>2. /\ Changes(h, m, {"cursors", "inputs", "dirty", "generation", "observations",
                        "records", "unresolved", "index"})
      /\ m.cursors = Put(h.cursors, st, c) /\ m.inputs = h.inputs \cup {row}
  BY CommitColumns
<1>3. row.stream = st /\ row.cursor = c
  BY DEF InputRow
<1> HIDE DEF e, m, row
<1>4. ASSUME NEW x \in {e, m} PROVE Ingested(d, x)
  <2>1. /\ x.inputs = d.inputs \cup {row} /\ x.cursors = Put(d.cursors, st, c)
        /\ x.dispositions = d.dispositions
        /\ x.guards \subseteq d.guards /\ x.tombstones = d.tombstones
        /\ x.receipts = d.receipts
    BY <1>1, <1>2, <1>4 DEF Changes, DbFields, SameLedgers
  <2>2. Accounts(d, x, st, c)
    BY <1>3, <2>1 DEF Accounts, CursorMatches
  <2> QED BY <2>1, <2>2 DEF Ingested
<1> QED BY <1>4 DEF e, m

(* ingest_in_transaction, every verdict of it.                             *)
LEMMA IngestItemIngested ==
  ASSUME NEW d, DbTypeOK(d), NEW i \in Items
  PROVE  Ingested(d, IngestItem(d, i).db)
<1> DEFINE st == i.stream
           c == i.cursor
           o == i.body
           r == IngestItem(d, i)
           h == Rehydrate(d, o.state.trace)
<1>t. st \in Streams /\ c \in 1 .. MaxCursor
  BY DEF Items
<1>0. Ingested(d, d) /\ SameLedgers(d, d) /\ DOMAIN d = DbFields
  BY IngestedUnchanged, HasColumns DEF SameLedgers
<1>1. CASE i.type = "observation"
  <2>1. \/ r.db = d
        \/ CursorMatches(d, st, c) /\ r.db = SuppressDuplicate(d, st, c, o).db
        \/ CursorMatches(d, st, c) /\ r.db = IngestHot(d, h, st, c, o).db
    BY <1>1 DEF IngestItem, IngestObservation, Fail, Ok
  <2>2. CASE CursorMatches(d, st, c) /\ r.db = SuppressDuplicate(d, st, c, o).db
    <3>1. r.db = MarkDirty(Suppress(d, st, c, o, "duplicate_observation"))
      BY <2>2 DEF SuppressDuplicate, Ok
    <3> QED BY <1>t, <1>0, <2>2, <3>1, DispositionIngested DEF Suppress
  <2>3. CASE CursorMatches(d, st, c) /\ r.db = IngestHot(d, h, st, c, o).db
    <3>0. /\ DOMAIN h = DbFields /\ SameLedgers(d, h)
          /\ h.guards \subseteq d.guards /\ h.tombstones = d.tombstones
          /\ h.receipts = d.receipts
      <4>1. o.state.trace \in Traces
        BY <1>1, ObservationType DEF Items
      <4> QED BY <4>1, RehydrateLedgers
    <3> HIDE DEF h
    <3>1. \/ r.db = d
          \/ r.db = MarkDirty(Suppress(h, st, c, o, "duplicate_observation"))
          \/ r.db = Suppress(h, st, c, o, "expired_trace")
          \/ r.db = InsertInput(h, st, c, o)
          \/ r.db = CommitObservation(h, st, c, o)
      <4> HIDE DEF r
      <4> QED BY <2>3 DEF IngestHot, SuppressDuplicate, SuppressExpired, Ok, Fail
    <3>2. CASE r.db \in {MarkDirty(Suppress(h, st, c, o, "duplicate_observation")),
                         Suppress(h, st, c, o, "expired_trace")}
      BY <1>t, <2>3, <3>0, <3>2, DispositionIngested DEF Suppress
    <3>3. CASE r.db \in {InsertInput(h, st, c, o), CommitObservation(h, st, c, o)}
      BY <1>t, <2>3, <3>0, <3>3, InputIngested
    <3> QED BY <1>0, <3>1, <3>2, <3>3
  <2> QED BY <1>0, <2>1, <2>2, <2>3
<1>2. CASE i.type # "observation"
  <2>1. \/ r.db = d
        \/ /\ CursorMatches(d, st, c)
           /\ r.db = InsertDisposition(d, st, c, o.kind, o.code, o.hash)
    BY <1>2 DEF IngestItem, IngestDisposition, Ok, Fail
  <2> QED BY <1>t, <1>0, <2>1, DispositionIngested
<1> QED BY <1>1, <1>2

(* A step of ingest keeps the two ledgers exclusive.                       *)
LEMMA IngestedLedger ==
  ASSUME NEW d, NEW e, DbTypeOK(d), LedgerInv(d), Ingested(d, e)
  PROVE  LedgerInv(e)
<1>1. CASE SameLedgers(d, e)
  BY <1>1 DEF SameLedgers, LedgerInv, Ledger
<1>2. ASSUME NEW st \in Streams, NEW c \in 1 .. MaxCursor, Accounts(d, e, st, c)
      PROVE  LedgerInv(e)
  <2>1. PICK row : /\ row.stream = st /\ row.cursor = c
                   /\ Ledger(e) \subseteq Ledger(d) \cup {row}
    BY <1>2, NewestSubset DEF Accounts, Ledger
  <2>2. \A r \in Ledger(d) : r.stream \in Streams /\ r.cursor \in Nat
    BY DEF DbTypeOK, Ledger
  <2>3. /\ d.cursors[st] = c - 1 /\ e.cursors[st] = c
        /\ \A x \in Streams \ {st} : e.cursors[x] = d.cursors[x]
    BY <1>2 DEF DbTypeOK, Accounts, Put
  <2>4. \A r \in Ledger(d) : r.stream = st => r.cursor < c
    BY <2>2, <2>3 DEF LedgerInv
  <2>5. \A r \in Ledger(e) : r.cursor <= e.cursors[r.stream]
    BY <2>1, <2>2, <2>3, <2>4 DEF LedgerInv
  <2>6. \A q, r \in Ledger(e) : q.stream = r.stream /\ q.cursor = r.cursor => q = r
    BY <2>1, <2>2, <2>4 DEF LedgerInv
  <2> QED BY <2>5, <2>6 DEF LedgerInv
<1> QED BY <1>1, <1>2 DEF Ingested

(* A step of ingest keeps the caps.                                        *)
LEMMA IngestedCaps ==
  ASSUME NEW d, NEW e, CapsInv(d), Ingested(d, e)
  PROVE  CapsInv(e)
<1>1. Numbered(e.dispositions) /\ Cardinality(e.dispositions) <= MaxDispositions
  <2>1. CASE e.dispositions = d.dispositions
    BY <2>1 DEF CapsInv
  <2>2. ASSUME NEW row, row.seq = NextSeq(d.dispositions),
               e.dispositions = Newest(d.dispositions \cup {row}, MaxDispositions)
        PROVE  Numbered(e.dispositions) /\ Cardinality(e.dispositions) <= MaxDispositions
    <3>1. Numbered(d.dispositions)
      BY DEF CapsInv
    <3>2. row.seq \in Nat /\ \A r \in d.dispositions : r.seq < row.seq
      BY <2>2, <3>1, NextSeqAbove
    <3>3. Numbered(d.dispositions \cup {row})
      BY <3>1, <3>2, NumberedInsert
    <3>4. MaxDispositions \in Nat
      BY StoreAssumption
    <3> QED BY <2>2, <3>3, <3>4, NewestBound
  <2> QED BY <2>1, <2>2 DEF Ingested, SameLedgers, Accounts
<1>2. Numbered(e.guards) /\ Cardinality(e.guards) <= MaxGuards
  <2>1. Numbered(d.guards) /\ Cardinality(d.guards) <= MaxGuards /\ e.guards \subseteq d.guards
    BY DEF CapsInv, Ingested
  <2>2. Numbered(e.guards) /\ Cardinality(e.guards) <= Cardinality(d.guards)
    BY <2>1, NumberedSubset
  <2>3. Cardinality(e.guards) \in Nat /\ Cardinality(d.guards) \in Nat /\ MaxGuards \in Nat
    BY <2>1, <2>2, FS_CardinalityType, StoreAssumption DEF Numbered
  <2> QED BY <2>1, <2>2, <2>3
<1> QED BY <1>1, <1>2 DEF CapsInv, Ingested

(* The newest row outlives the pruning that its own insert triggers.       *)
LEMMA NewestHoldsRow ==
  ASSUME NEW rows, NEW row, NEW n \in Nat, n > 0, row \in rows,
         \A r \in rows : r.seq <= row.seq, \A r \in rows : r.seq \in Nat
  PROVE  row \in Newest(rows, n)
<1>1. {q \in rows : q.seq > row.seq} = {}
  OBVIOUS
<1> QED BY <1>1, FS_EmptySet DEF Newest

(* The cursors between two states are accounted for in the second one.     *)
Covers(d, e) ==
  \A st \in Streams :
    /\ e.cursors[st] >= d.cursors[st]
    /\ \A c \in (d.cursors[st] + 1) .. e.cursors[st] :
         LedgerRow(e.inputs, st, c) # {} \/ LedgerRow(e.dispositions, st, c) # {}

(* The row of the input that Accounts names is there, and in the ledger of *)
(* dispositions it is the newest.                                          *)
HasRow(e, st, c) ==
  \/ LedgerRow(e.inputs, st, c) # {}
  \/ \E row \in LedgerRow(e.dispositions, st, c) :
       \A r \in e.dispositions : r.seq <= row.seq

(* The row of the accounted input survives the prune of its commit.        *)
LEMMA AccountsHasRow ==
  ASSUME NEW d, NEW e, CapsInv(d), MaxDispositions > 0,
         NEW st \in Streams, NEW c \in 1 .. MaxCursor, Accounts(d, e, st, c)
  PROVE  HasRow(e, st, c)
<1>1. PICK row :
        /\ row.stream = st /\ row.cursor = c
        /\ \/ e.inputs = d.inputs \cup {row}
           \/ /\ row.seq = NextSeq(d.dispositions)
              /\ e.dispositions = Newest(d.dispositions \cup {row}, MaxDispositions)
  BY DEF Accounts
<1>2. CASE e.inputs = d.inputs \cup {row}
  BY <1>1, <1>2 DEF HasRow, LedgerRow
<1>3. CASE row.seq = NextSeq(d.dispositions)
           /\ e.dispositions = Newest(d.dispositions \cup {row}, MaxDispositions)
  <2> DEFINE rows == d.dispositions \cup {row}
  <2>1. row.seq \in Nat /\ \A r \in d.dispositions : r.seq < row.seq /\ r.seq \in Nat
    BY <1>3, NextSeqAbove DEF CapsInv, Numbered
  <2>2. row \in rows /\ \A r \in rows : r.seq <= row.seq /\ r.seq \in Nat
    BY <2>1
  <2>3. MaxDispositions \in Nat
    BY StoreAssumption
  <2> HIDE DEF rows
  <2>4. row \in Newest(rows, MaxDispositions)
    BY <2>2, <2>3, NewestHoldsRow
  <2>5. row \in e.dispositions /\ \A r \in e.dispositions : r.seq <= row.seq
    BY <1>3, <2>2, <2>4, NewestSubset DEF rows
  <2> QED BY <1>1, <2>5 DEF HasRow, LedgerRow
<1> QED BY <1>1, <1>2, <1>3

(* It outlives the next step of ingest too, as long as two rows may stay.  *)
LEMMA HasRowKept ==
  ASSUME NEW d, NEW e, CapsInv(d), MaxDispositions > 1, Ingested(d, e),
         NEW st \in Streams, NEW c \in 1 .. MaxCursor, HasRow(d, st, c)
  PROVE  LedgerRow(e.inputs, st, c) # {} \/ LedgerRow(e.dispositions, st, c) # {}
<1>1. CASE LedgerRow(d.inputs, st, c) # {}
  <2>1. d.inputs \subseteq e.inputs
    BY DEF Ingested, SameLedgers, Accounts
  <2> QED BY <1>1, <2>1 DEF LedgerRow
<1>2. ASSUME NEW row \in LedgerRow(d.dispositions, st, c),
             \A r \in d.dispositions : r.seq <= row.seq
      PROVE  LedgerRow(e.dispositions, st, c) # {}
  <2>0. row \in d.dispositions /\ row.stream = st /\ row.cursor = c
    BY <1>2 DEF LedgerRow
  <2>1. CASE e.dispositions = d.dispositions
    BY <1>2, <2>1
  <2>2. ASSUME NEW new, e.dispositions = Newest(d.dispositions \cup {new}, MaxDispositions)
        PROVE  row \in e.dispositions
    <3> DEFINE rows == d.dispositions \cup {new}
               above == {q \in rows : q.seq > row.seq}
    <3>1. row.seq \in Nat /\ \A r \in d.dispositions : r.seq \in Nat
      BY <2>0 DEF CapsInv, Numbered
    <3>2. above \subseteq {new}
      BY <1>2, <3>1
    <3>3. Cardinality(above) <= 1
      <4> HIDE DEF above
      <4>1. IsFiniteSet({new}) /\ Cardinality({new}) = 1
        BY FS_Singleton
      <4> QED BY <3>2, <4>1, FS_Subset
    <3>4. Cardinality(above) \in Nat /\ MaxDispositions \in Nat
      <4>1. IsFiniteSet({new})
        BY FS_Singleton
      <4>2. IsFiniteSet(above)
        <5> HIDE DEF above
        <5> QED BY <3>2, <4>1, FS_Subset
      <4> HIDE DEF above
      <4> QED BY <4>2, FS_CardinalityType, StoreAssumption
    <3>5. Cardinality(above) < MaxDispositions
      <4> HIDE DEF above
      <4> QED BY <3>3, <3>4
    <3> QED BY <2>0, <2>2, <3>5 DEF Newest
  <2> QED BY <2>0, <2>1, <2>2 DEF Ingested, SameLedgers, Accounts, LedgerRow
<1> QED BY <1>1, <1>2 DEF HasRow

(* One step of ingest, and two in one transaction.                         *)
LEMMA IngestedCovers ==
  ASSUME NEW d, NEW e, DbTypeOK(d), CapsInv(d), MaxDispositions > 1, Ingested(d, e)
  PROVE  /\ Covers(d, e)
         /\ \A st \in Streams : \A c \in (d.cursors[st] + 1) .. e.cursors[st] :
              HasRow(e, st, c) /\ c \in 1 .. MaxCursor
<1>t. d.cursors \in [Streams -> 0 .. MaxCursor] /\ MaxCursor \in Nat /\ MaxDispositions \in Nat
  BY StoreAssumption DEF DbTypeOK
<1>1. CASE SameLedgers(d, e)
  BY <1>1, <1>t DEF SameLedgers, Covers
<1>2. ASSUME NEW x \in Streams, NEW k \in 1 .. MaxCursor, Accounts(d, e, x, k)
      PROVE  /\ Covers(d, e)
             /\ \A st \in Streams : \A c \in (d.cursors[st] + 1) .. e.cursors[st] :
                  HasRow(e, st, c) /\ c \in 1 .. MaxCursor
  <2>1. /\ d.cursors[x] = k - 1 /\ e.cursors[x] = k
        /\ \A y \in Streams \ {x} : e.cursors[y] = d.cursors[y]
    BY <1>2, <1>t DEF Accounts, Put
  <2>2. HasRow(e, x, k)
    BY <1>2, <1>t, AccountsHasRow
  <2>3. \A st \in Streams : \A c \in (d.cursors[st] + 1) .. e.cursors[st] : st = x /\ c = k
    BY <1>t, <2>1
  <2>4. \A st \in Streams : e.cursors[st] >= d.cursors[st]
    BY <1>t, <2>1
  <2>5. LedgerRow(e.inputs, x, k) # {} \/ LedgerRow(e.dispositions, x, k) # {}
    BY <2>2 DEF HasRow
  <2> QED BY <2>2, <2>3, <2>4, <2>5 DEF Covers
<1> QED BY <1>1, <1>2 DEF Ingested

(* Two inputs of one batch are both accounted for.                         *)
LEMMA TwiceCovers ==
  ASSUME NEW d, NEW f, NEW e, DbTypeOK(d), CapsInv(d), DbTypeOK(f), CapsInv(f),
         DbTypeOK(e), MaxDispositions > 1, Ingested(d, f), Ingested(f, e)
  PROVE  Covers(d, e)
<1>1. /\ Covers(d, f)
      /\ \A st \in Streams : \A c \in (d.cursors[st] + 1) .. f.cursors[st] :
           HasRow(f, st, c) /\ c \in 1 .. MaxCursor
  BY IngestedCovers
<1>2. Covers(f, e)
  BY IngestedCovers
<1>3. /\ d.cursors \in [Streams -> Nat] /\ f.cursors \in [Streams -> Nat]
      /\ e.cursors \in [Streams -> Nat]
  BY StoreAssumption DEF DbTypeOK
<1> SUFFICES ASSUME NEW st \in Streams
             PROVE  /\ e.cursors[st] >= d.cursors[st]
                    /\ \A c \in (d.cursors[st] + 1) .. e.cursors[st] :
                         \/ LedgerRow(e.inputs, st, c) # {}
                         \/ LedgerRow(e.dispositions, st, c) # {}
  BY DEF Covers
<1>4. e.cursors[st] >= f.cursors[st] /\ f.cursors[st] >= d.cursors[st]
  BY <1>1, <1>2 DEF Covers
<1>5. ASSUME NEW c \in (d.cursors[st] + 1) .. e.cursors[st]
      PROVE  LedgerRow(e.inputs, st, c) # {} \/ LedgerRow(e.dispositions, st, c) # {}
  <2>1. CASE c \in (d.cursors[st] + 1) .. f.cursors[st]
    BY <1>1, <2>1, HasRowKept
  <2>2. CASE c \in (f.cursors[st] + 1) .. e.cursors[st]
    BY <1>2, <2>2 DEF Covers
  <2>3. c \in (d.cursors[st] + 1) .. f.cursors[st] \/ c \in (f.cursors[st] + 1) .. e.cursors[st]
    BY <1>3, <1>4, <1>5
  <2> QED BY <2>1, <2>2, <2>3
<1> QED BY <1>3, <1>4, <1>5
-----------------------------------------------------------------------------
(* What maintenance and retention write.                                   *)

(* The hot spans of a set of traces.                                       *)
HotIn(d, T) == UNION {HotSpans(d, t) : t \in T}

(* A span is hot in a set of traces when its record is.                    *)
LEMMA HotInTraces ==
  ASSUME NEW d, NEW T
  PROVE  \A s : s \in HotIn(d, T) <=>
                  s \in Spans /\ d.records[s] # NoState /\ d.records[s].trace \in T
BY DEF HotIn, HotSpans

(* The columns that delete_hot_trace writes.                               *)
LEMMA DeleteHotColumns ==
  ASSUME NEW d, DbTypeOK(d), NEW T \in SUBSET Traces
  PROVE  LET e == DeleteHot(d, T)
         IN /\ Changes(d, e, {"inputs", "observations", "unresolved", "records", "index"})
            /\ e.inputs \subseteq d.inputs
            /\ \A o : o \in e.observations <=> o \in d.observations /\ o.trace \notin T
            /\ e.unresolved = d.unresolved \ HotIn(d, T)
            /\ \A s \in Spans :
                 e.records[s] = IF s \in HotIn(d, T) THEN NoState ELSE d.records[s]
            /\ \A t \in Traces : e.index[t] = IF t \in T THEN NoRow ELSE d.index[t]
<1> DEFINE gone == {o.id : o \in {x \in d.observations : x.trace \in T}}
           inputs == {i \in d.inputs : i.id \notin gone}
           events == {o \in d.observations : o.trace \notin T}
           S == HotIn(d, T)
           rows == [s \in Spans |-> IF s \in S THEN NoState ELSE d.records[s]]
           index == [t \in Traces |-> IF t \in T THEN NoRow ELSE d.index[t]]
           e == DeleteHot(d, T)
<1>0. DOMAIN d = DbFields
  BY HasColumns
<1>1. e = [d EXCEPT !.inputs = inputs, !.observations = events,
                    !.unresolved = d.unresolved \ S, !.records = rows, !.index = index]
  BY <1>0 DEF DeleteHot, HotIn, DbFields
<1>2. inputs \subseteq d.inputs
  OBVIOUS
<1>3. \A o : o \in events <=> o \in d.observations /\ o.trace \notin T
  OBVIOUS
<1> HIDE DEF S, inputs, events
<1>4. /\ \A s \in Spans : rows[s] = IF s \in S THEN NoState ELSE d.records[s]
      /\ \A t \in Traces : index[t] = IF t \in T THEN NoRow ELSE d.index[t]
  OBVIOUS
<1> HIDE DEF rows, index, e
<1>5. /\ Changes(d, e, {"inputs", "observations", "unresolved", "records", "index"})
      /\ e.inputs = inputs /\ e.observations = events /\ e.unresolved = d.unresolved \ S
      /\ e.records = rows /\ e.index = index
  BY <1>0, <1>1 DEF Changes, DbFields
<1> QED BY <1>2, <1>3, <1>4, <1>5 DEF S, e

(* The columns that archive_hot_control writes, over the deletion.         *)
LEMMA ArchiveHotColumns ==
  ASSUME NEW d, DbTypeOK(d), NEW t \in Traces, NEW tier
  PROVE  LET e == ArchiveHot(d, t, tier)
             b == DeleteHot(d, {t})
             S == HotSpans(d, t)
         IN /\ Changes(b, e, {"control", "archived", "guards"})
            /\ e.guards = GuardSpans(d.guards, S, d.records)
            /\ e.control[t].tier = tier
            /\ e.control[t].latest = d.index[t].latest
            /\ e.control[t].count = d.index[t].count
            /\ \A u \in Traces \ {t} : e.control[u] = d.control[u]
            /\ \A s \in Spans :
                 e.archived[s] = IF s \in S THEN d.records[s] ELSE d.archived[s]
<1> DEFINE b == DeleteHot(d, {t})
           S == HotSpans(d, t)
           row == [tier |-> tier, latest |-> d.index[t].latest, count |-> d.index[t].count]
           control == [d.control EXCEPT ![t] = row]
           archived == [s \in Spans |-> IF s \in S THEN d.records[s] ELSE d.archived[s]]
           guards == GuardSpans(d.guards, S, d.records)
           e == ArchiveHot(d, t, tier)
<1>0. /\ DOMAIN b = DbFields
      /\ b.control = d.control /\ b.archived = d.archived /\ b.guards = d.guards
  BY DeleteHotColumns DEF Changes, DbFields
<1>d. DOMAIN d.control = Traces
  BY DEF DbTypeOK
<1>1. e = [b EXCEPT !.control = control, !.archived = archived, !.guards = guards]
  BY <1>0 DEF ArchiveHot, DbFields
<1>2. /\ row.tier = tier /\ row.latest = d.index[t].latest /\ row.count = d.index[t].count
  OBVIOUS
<1> HIDE DEF S, row, guards, b
<1>3. /\ control[t] = row /\ \A u \in Traces \ {t} : control[u] = d.control[u]
      /\ \A s \in Spans : archived[s] = IF s \in S THEN d.records[s] ELSE d.archived[s]
  BY <1>d
<1> HIDE DEF control, archived, e
<1>4. /\ Changes(b, e, {"control", "archived", "guards"})
      /\ e.control = control /\ e.archived = archived /\ e.guards = guards
  BY <1>0, <1>1 DEF Changes, DbFields
<1> QED BY <1>2, <1>3, <1>4 DEF S, b, e, guards

(* The columns that the deletion of an archived trace writes.              *)
LEMMA DropArchivedColumns ==
  ASSUME NEW d, DbTypeOK(d), NEW t \in Traces
  PROVE  LET e == DropArchived(d, t)
             S == ArchivedSpans(d, t)
         IN /\ Changes(d, e, {"control", "archived"})
            /\ e.control[t] = NoRow
            /\ \A u \in Traces \ {t} : e.control[u] = d.control[u]
            /\ \A s \in Spans : e.archived[s] = IF s \in S THEN NoState ELSE d.archived[s]
<1> DEFINE S == ArchivedSpans(d, t)
           control == [d.control EXCEPT ![t] = NoRow]
           archived == [s \in Spans |-> IF s \in S THEN NoState ELSE d.archived[s]]
           e == DropArchived(d, t)
<1>0. DOMAIN d = DbFields /\ DOMAIN d.control = Traces
  BY HasColumns DEF DbTypeOK
<1>1. e = [d EXCEPT !.control = control, !.archived = archived]
  BY <1>0 DEF DropArchived, DbFields
<1> HIDE DEF S
<1>2. /\ control[t] = NoRow /\ \A u \in Traces \ {t} : control[u] = d.control[u]
      /\ \A s \in Spans : archived[s] = IF s \in S THEN NoState ELSE d.archived[s]
  BY <1>0
<1> HIDE DEF control, archived, e
<1>3. Changes(d, e, {"control", "archived"}) /\ e.control = control /\ e.archived = archived
  BY <1>0, <1>1 DEF Changes, DbFields
<1> QED BY <1>2, <1>3 DEF S, e

(* The columns that the warm-to-cold move writes.                          *)
LEMMA CoolColumns ==
  ASSUME NEW d, DbTypeOK(d), NEW t \in Traces, d.control[t] # NoRow
  PROVE  LET e == [d EXCEPT !.control[t].tier = "cold"]
         IN /\ Changes(d, e, {"control"})
            /\ e.control[t].latest = d.control[t].latest
            /\ e.control[t].count = d.control[t].count
            /\ e.control[t] # NoRow
            /\ \A u \in Traces \ {t} : e.control[u] = d.control[u]
<1> DEFINE row == [d.control[t] EXCEPT !.tier = "cold"]
           control == [d.control EXCEPT ![t] = row]
           e == [d EXCEPT !.control[t].tier = "cold"]
<1>0. DOMAIN d = DbFields /\ DOMAIN d.control = Traces /\ d.control[t] \in ControlRows
  BY HasColumns DEF DbTypeOK
<1>1. e = [d EXCEPT !.control = control]
  BY <1>0 DEF DbFields
<1>2. /\ row \in ControlRows
      /\ row.latest = d.control[t].latest /\ row.count = d.control[t].count
  BY <1>0 DEF ControlRows
<1> HIDE DEF row
<1>3. control[t] = row /\ \A u \in Traces \ {t} : control[u] = d.control[u]
  BY <1>0
<1> HIDE DEF control, e
<1>4. Changes(d, e, {"control"}) /\ e.control = control
  BY <1>0, <1>1 DEF Changes, DbFields
<1> QED BY <1>2, <1>3, <1>4, Sentinels DEF e

(* The tombstone that purge_trace writes.                                  *)
Entombed(rows, t) ==
  Newest({x \in rows : x.trace # t} \cup {[trace |-> t, seq |-> NextSeq(rows)]}, MaxGuards)

(* The columns that purge_trace writes, over either deletion.              *)
LEMMA PurgeColumns ==
  ASSUME NEW d, DbTypeOK(d), NEW c \in Candidates
  PROVE  LET e == Purge(d, c)
             b == DeleteHot(d, {c.trace})
         IN /\ DOMAIN e = DbFields
            /\ e.tombstones = Entombed(d.tombstones, c.trace)
            /\ c.tier = "hot" =>
                 /\ Changes(b, e, {"guards", "tombstones"})
                 /\ e.guards = GuardSpans(d.guards, HotSpans(d, c.trace), d.records)
            /\ c.tier # "hot" => Changes(DropArchived(d, c.trace), e, {"tombstones"})
<1> DEFINE t == c.trace
           b == DeleteHot(d, {t})
           guards == GuardSpans(d.guards, HotSpans(d, t), d.records)
           hot == [b EXCEPT !.guards = guards]
           drop == DropArchived(d, t)
           base == IF c.tier = "hot" THEN hot ELSE drop
           e == Purge(d, c)
           new == Entombed(d.tombstones, t)
<1>t. t \in Traces
  BY DEF Candidates
<1>1. /\ DOMAIN b = DbFields /\ b.guards = d.guards /\ b.tombstones = d.tombstones
      /\ DOMAIN drop = DbFields /\ drop.tombstones = d.tombstones
  BY <1>t, DeleteHotColumns, DropArchivedColumns DEF Changes, DbFields
<1>2. e = [base EXCEPT !.tombstones = Newest({x \in base.tombstones : x.trace # t}
             \cup {[trace |-> t, seq |-> NextSeq(base.tombstones)]}, MaxGuards)]
  <2>1. hot = [b EXCEPT !.guards = GuardSpans(@, HotSpans(d, t), d.records)]
    BY <1>1 DEF DbFields
  <2> HIDE DEF hot
  <2>2. e = [(IF c.tier = "hot"
              THEN [DeleteHot(d, {c.trace}) EXCEPT
                      !.guards = GuardSpans(@, HotSpans(d, c.trace), d.records)]
              ELSE DropArchived(d, c.trace)) EXCEPT
               !.tombstones = Newest({x \in @ : x.trace # c.trace}
                   \cup {[trace |-> c.trace, seq |-> NextSeq(@)]}, MaxGuards)]
    BY DEF Purge
  <2> QED BY <2>1, <2>2
<1> HIDE DEF b, guards, drop, e
<1>3. /\ Changes(b, hot, {"guards"}) /\ hot.guards = guards
      /\ hot.tombstones = d.tombstones
  BY <1>1 DEF Changes, DbFields
<1> HIDE DEF hot
<1>4. DOMAIN base = DbFields /\ base.tombstones = d.tombstones
  BY <1>1, <1>3 DEF Changes
<1> HIDE DEF base
<1>5. e = [base EXCEPT !.tombstones = new]
  BY <1>2, <1>4 DEF Entombed
<1> HIDE DEF new
<1>6. Changes(base, e, {"tombstones"}) /\ e.tombstones = new
  BY <1>4, <1>5 DEF Changes, DbFields
<1>7. CASE c.tier = "hot"
  BY <1>3, <1>6, <1>7 DEF Changes, DbFields, base, new, guards, b, e
<1>8. CASE c.tier # "hot"
  BY <1>6, <1>8 DEF Changes, base, new, drop, e
<1> QED BY <1>7, <1>8

(* The ledgers and capped tables behind maintenance and retention.         *)
Shrinks(d, e) ==
  /\ e.cursors = d.cursors /\ e.dispositions = d.dispositions /\ e.inputs \subseteq d.inputs
  /\ \/ e.guards = d.guards
     \/ \E S \in SUBSET Spans : e.guards = GuardSpans(d.guards, S, d.records)
  /\ \/ e.tombstones = d.tombstones
     \/ \E t \in Traces : e.tombstones = Entombed(d.tombstones, t)

(* Only bookkeeping columns differ.                                        *)
Marks(d, e) == Changes(d, e, {"dirty", "generation", "acknowledged", "epoch"})

(* The marks that every maintenance transaction ends with.                 *)
LEMMA MarkedColumns ==
  ASSUME NEW d, DOMAIN d = DbFields
  PROVE  LET m == AdvanceGeneration(MarkDirty(d)) IN Marks(d, m) /\ Marks(d, AdvanceEpoch(m))
<1> DEFINE a == MarkDirty(d)
           m == AdvanceGeneration(a)
           e == AdvanceEpoch(m)
<1>1. Changes(d, a, {"dirty"})
  BY WriteColumns
<1> HIDE DEF a
<1>2. Changes(a, m, {"generation"})
  BY <1>1, WriteColumns DEF Changes
<1> HIDE DEF m
<1>3. Changes(m, e, {"epoch"})
  BY <1>2, WriteColumns DEF Changes
<1> HIDE DEF e
<1> QED BY <1>1, <1>2, <1>3 DEF Marks, Changes, a, m, e

(* The move of maintain_lifecycle_inner before it is marked.               *)
BareMove(d, c, transition) ==
  IF transition = "delete" THEN Purge(d, c)
  ELSE IF c.tier = "hot" THEN ArchiveHot(d, c.trace, transition)
  ELSE [d EXCEPT !.control[c.trace].tier = "cold"]

(* A maintenance transaction takes rows out of the ledgers at most.        *)
LEMMA BareMoveShrinks ==
  ASSUME NEW d, DbTypeOK(d), NEW c \in Candidates, NEW transition, Reload(d, c) # NoRow
  PROVE  LET e == BareMove(d, c, transition)
         IN DOMAIN e = DbFields /\ Shrinks(d, e) /\ e.receipts = d.receipts
<1> DEFINE t == c.trace
           e == BareMove(d, c, transition)
           b == DeleteHot(d, {t})
           S == HotSpans(d, t)
<1>t. t \in Traces
  BY DEF Candidates
<1>s. S \in SUBSET Spans
  BY DEF HotSpans
<1>b. /\ Changes(d, b, {"inputs", "observations", "unresolved", "records", "index"})
      /\ b.inputs \subseteq d.inputs
  BY <1>t, DeleteHotColumns
<1> HIDE DEF b
<1>1. CASE transition = "delete" /\ c.tier = "hot"
  <2>1. e = Purge(d, c)
    BY <1>1 DEF BareMove
  <2> HIDE DEF e
  <2>2. /\ e.tombstones = Entombed(d.tombstones, t)
        /\ Changes(b, e, {"guards", "tombstones"})
        /\ e.guards = GuardSpans(d.guards, S, d.records)
    BY <1>1, <2>1, PurgeColumns DEF b
  <2> HIDE DEF S
  <2> QED BY <1>t, <1>s, <1>b, <2>2 DEF Changes, DbFields, Shrinks, e
<1>2. CASE transition = "delete" /\ c.tier # "hot"
  <2> DEFINE drop == DropArchived(d, t)
  <2>1. e = Purge(d, c)
    BY <1>2 DEF BareMove
  <2>2. Changes(d, drop, {"control", "archived"})
    BY <1>t, DropArchivedColumns
  <2> HIDE DEF e
  <2>3. Changes(drop, e, {"tombstones"}) /\ e.tombstones = Entombed(d.tombstones, t)
    BY <1>2, <2>1, PurgeColumns
  <2> HIDE DEF drop
  <2> QED BY <1>t, <2>2, <2>3 DEF Changes, DbFields, Shrinks, e
<1>3. CASE transition # "delete" /\ c.tier = "hot"
  <2>1. e = ArchiveHot(d, t, transition)
    BY <1>3 DEF BareMove
  <2> HIDE DEF e
  <2>2. /\ Changes(b, e, {"control", "archived", "guards"})
        /\ e.guards = GuardSpans(d.guards, S, d.records)
    BY <1>t, <2>1, ArchiveHotColumns DEF b
  <2> HIDE DEF S
  <2> QED BY <1>s, <1>b, <2>2 DEF Changes, DbFields, Shrinks, e
<1>4. CASE transition # "delete" /\ c.tier # "hot"
  <2>1. e = [d EXCEPT !.control[t].tier = "cold"]
    BY <1>4 DEF BareMove
  <2>2. d.control[t] # NoRow
    BY <1>4 DEF Reload
  <2> HIDE DEF e
  <2>3. Changes(d, e, {"control"})
    BY <1>t, <2>1, <2>2, CoolColumns
  <2> QED BY <2>3 DEF Changes, DbFields, Shrinks, e
<1> QED BY <1>1, <1>2, <1>3, <1>4

(* The transaction of maintain_lifecycle_inner marks what it moved.        *)
LEMMA MoveMarks ==
  ASSUME NEW d, DbTypeOK(d), NEW c \in Candidates, NEW transition, Reload(d, c) # NoRow
  PROVE  Marks(BareMove(d, c, transition), MoveTrace(d, c, transition))
<1> DEFINE m == BareMove(d, c, transition)
           a == AdvanceGeneration(MarkDirty(m))
<1>1. DOMAIN m = DbFields
  BY BareMoveShrinks
<1>2. MoveTrace(d, c, transition) = IF RemovesVisibility(transition) THEN AdvanceEpoch(a) ELSE a
  BY DEF MoveTrace, BareMove
<1> HIDE DEF m
<1>3. Marks(m, a) /\ Marks(m, AdvanceEpoch(a))
  BY <1>1, MarkedColumns
<1> HIDE DEF a
<1> QED BY <1>2, <1>3 DEF m

(* Bookkeeping behind a shrinking step.                                    *)
LEMMA ShrinksMarked ==
  ASSUME NEW d, NEW m, NEW e, Shrinks(d, m), Marks(m, e)
  PROVE  Shrinks(d, e) /\ e.receipts = m.receipts
BY DEF Shrinks, Marks, Changes, DbFields

(* A shrinking step keeps the ledgers exclusive and the tables capped.     *)
LEMMA ShrinksLedger ==
  ASSUME NEW d, NEW e, LedgerInv(d), Shrinks(d, e)
  PROVE  LedgerInv(e)
BY DEF LedgerInv, Ledger, Shrinks

(* The capped tables of maintenance stay capped.                           *)
LEMMA ShrinksCaps ==
  ASSUME NEW d, NEW e, CapsInv(d), Shrinks(d, e)
  PROVE  CapsInv(e)
<1>0. /\ Numbered(d.guards) /\ Cardinality(d.guards) <= MaxGuards
      /\ Numbered(d.tombstones) /\ Cardinality(d.tombstones) <= MaxGuards
  BY DEF CapsInv
<1>1. Numbered(e.guards) /\ Cardinality(e.guards) <= MaxGuards
  BY <1>0, GuardsBounded DEF Shrinks
<1>2. Numbered(e.tombstones) /\ Cardinality(e.tombstones) <= MaxGuards
  <2>1. CASE e.tombstones = d.tombstones
    BY <1>0, <2>1
  <2>2. ASSUME NEW t \in Traces, e.tombstones = Entombed(d.tombstones, t)
        PROVE  Numbered(e.tombstones) /\ Cardinality(e.tombstones) <= MaxGuards
    <3> DEFINE rest == {x \in d.tombstones : x.trace # t}
               row == [trace |-> t, seq |-> NextSeq(d.tombstones)]
    <3>1. Numbered(rest)
      BY <1>0, NumberedSubset
    <3>2. row.seq \in Nat /\ \A r \in rest : r.seq < row.seq
      BY <1>0, NextSeqAbove
    <3>3. e.tombstones = Newest(rest \cup {row}, MaxGuards)
      BY <2>2 DEF Entombed
    <3> HIDE DEF rest, row
    <3>4. Numbered(rest \cup {row})
      BY <3>1, <3>2, NumberedInsert
    <3>5. MaxGuards \in Nat
      BY StoreAssumption
    <3> QED BY <3>3, <3>4, <3>5, NewestBound
  <2> QED BY <2>1, <2>2 DEF Shrinks
<1> QED BY <1>1, <1>2 DEF CapsInv, Shrinks
-----------------------------------------------------------------------------
(* Retention receipts. *)

(* The columns of a receipt.                                               *)
ReceiptColumns == {"plan", "path", "compacted", "seq"}

(* The inductive form of the bounds on receipts: one uncompacted receipt,  *)
(* and it is a row of its own.                                             *)
ReceiptInv(d) ==
  /\ Numbered(d.receipts)
  /\ \A r \in d.receipts : DOMAIN r = ReceiptColumns /\ r.compacted \in BOOLEAN
  /\ \A q, r \in d.receipts : ~q.compacted /\ ~r.compacted => q = r
  /\ Cardinality({r \in d.receipts : r.compacted}) <= MaxReceipts

(* The columns that the commit of apply_retention writes.                  *)
LEMMA RetainColumns ==
  ASSUME NEW d, DbTypeOK(d), NEW plan_, NEW path, Selected(plan_) \in SUBSET Traces
  PROVE  LET e == RetainCommit(d, plan_, path)
             b == DeleteHot(d, Selected(plan_))
         IN /\ Changes(b, e, {"dirty", "generation", "epoch", "receipts", "guards"})
            /\ Shrinks(d, e)
            /\ e.receipts = d.receipts \cup
                 {[plan |-> plan_, path |-> path, compacted |-> FALSE,
                   seq |-> NextSeq(d.receipts)]}
<1> DEFINE T == Selected(plan_)
           S == SpansOf(d, plan_)
           b == DeleteHot(d, T)
           m == AdvanceEpoch(AdvanceGeneration(MarkDirty(b)))
           receipts == d.receipts \cup {[plan |-> plan_, path |-> path, compacted |-> FALSE,
                                         seq |-> NextSeq(d.receipts)]}
           guards == GuardSpans(d.guards, S, d.records)
           e == RetainCommit(d, plan_, path)
<1>1. /\ Changes(d, b, {"inputs", "observations", "unresolved", "records", "index"})
      /\ b.inputs \subseteq d.inputs
  BY DeleteHotColumns
<1> HIDE DEF b
<1>2. Marks(b, m)
  BY <1>1, MarkedColumns DEF Changes
<1>s. S \in SUBSET Spans
  BY DEF SpansOf, HotSpans
<1> HIDE DEF m
<1>3. DOMAIN m = DbFields /\ m.receipts = d.receipts /\ m.guards = d.guards
  BY <1>1, <1>2 DEF Marks, Changes, DbFields
<1>4. e = [m EXCEPT !.receipts = receipts, !.guards = guards]
  BY <1>3 DEF RetainCommit, m, b, DbFields
<1> HIDE DEF e, receipts, guards, S
<1>5. /\ Changes(m, e, {"receipts", "guards"}) /\ e.receipts = receipts /\ e.guards = guards
  BY <1>3, <1>4 DEF Changes, DbFields
<1>6. Changes(b, e, {"dirty", "generation", "epoch", "receipts", "guards"})
  <2>1. Changes(b, m, {"dirty", "generation", "epoch"})
    <3> DEFINE x == MarkDirty(b)
               y == AdvanceGeneration(x)
    <3>1. Changes(b, x, {"dirty"})
      BY <1>1, WriteColumns DEF Changes
    <3> HIDE DEF x
    <3>2. Changes(x, y, {"generation"})
      BY <3>1, WriteColumns DEF Changes
    <3> HIDE DEF y
    <3>3. Changes(y, m, {"epoch"})
      BY <3>2, WriteColumns DEF Changes, m, x, y
    <3> QED BY <3>1, <3>2, <3>3 DEF Changes
  <2> QED BY <2>1, <1>5 DEF Changes
<1>7. Shrinks(d, e)
  BY <1>1, <1>5, <1>6, <1>s DEF Shrinks, Changes, DbFields, guards
<1> QED BY <1>5, <1>6, <1>7 DEF e, b, receipts

(* A new receipt is written only when all others are compacted.            *)
LEMMA ReceiptAdded ==
  ASSUME NEW d, NEW e, ReceiptInv(d), \A r \in d.receipts : r.compacted, NEW plan_, NEW path,
         e.receipts = d.receipts \cup {[plan |-> plan_, path |-> path, compacted |-> FALSE,
                                        seq |-> NextSeq(d.receipts)]}
  PROVE  ReceiptInv(e)
<1> DEFINE row == [plan |-> plan_, path |-> path, compacted |-> FALSE,
                   seq |-> NextSeq(d.receipts)]
<1>1. row.seq \in Nat /\ \A r \in d.receipts : r.seq < row.seq
  BY NextSeqAbove DEF ReceiptInv
<1>2. DOMAIN row = ReceiptColumns /\ row.compacted = FALSE
  BY DEF ReceiptColumns
<1>3. e.receipts = d.receipts \cup {row}
  OBVIOUS
<1> HIDE DEF row
<1>4. Numbered(e.receipts)
  BY <1>1, <1>3, NumberedInsert DEF ReceiptInv
<1>5. {r \in e.receipts : r.compacted} = {r \in d.receipts : r.compacted}
  BY <1>2, <1>3
<1>6. \A q, r \in e.receipts : ~q.compacted /\ ~r.compacted => q = r
  BY <1>2, <1>3
<1>7. \A r \in e.receipts : DOMAIN r = ReceiptColumns /\ r.compacted \in BOOLEAN
  BY <1>2, <1>3 DEF ReceiptInv
<1> QED BY <1>4, <1>5, <1>6, <1>7 DEF ReceiptInv

(* finish_retention_receipt marks receipts and prunes the marked ones.     *)
LEMMA ReceiptCompacted ==
  ASSUME NEW d, DbTypeOK(d), ReceiptInv(d), NEW plan_
  PROVE  LET e == CompactReceipt(d, plan_)
         IN /\ Changes(d, e, {"receipts"})
            /\ ReceiptInv(e)
            /\ \A r \in e.receipts : \E q \in d.receipts : r.plan = q.plan /\ r.path = q.path
<1> DEFINE mark(r) == [r EXCEPT !.compacted = @ \/ r.plan = plan_]
           marked == {mark(r) : r \in d.receipts}
           done == {r \in marked : r.compacted}
           new == (marked \ done) \cup Newest(done, MaxReceipts)
           e == CompactReceipt(d, plan_)
<1>0. DOMAIN d = DbFields
  BY HasColumns
<1>1. e = [d EXCEPT !.receipts = new]
  BY DEF CompactReceipt
<1>2. \A r \in d.receipts :
        /\ DOMAIN mark(r) = ReceiptColumns /\ mark(r).compacted \in BOOLEAN
        /\ mark(r).seq = r.seq /\ mark(r).plan = r.plan /\ mark(r).path = r.path
        /\ ~mark(r).compacted => ~r.compacted
  BY DEF ReceiptInv, ReceiptColumns
<1>3. IsFiniteSet(marked)
  <2> DEFINE f == [r \in d.receipts |-> mark(r)]
  <2>1. f \in Surjection(d.receipts, marked)
    BY DEF Surjection
  <2>2. IsFiniteSet(d.receipts)
    BY DEF ReceiptInv, Numbered
  <2> HIDE DEF f, marked
  <2> QED BY <2>1, <2>2, FS_Surjection
<1> HIDE DEF mark
<1>4. Numbered(marked)
  <2>1. \A r \in marked : r.seq \in Nat
    BY <1>2 DEF ReceiptInv, Numbered
  <2>2. \A q, r \in marked : q.seq = r.seq => q = r
    BY <1>2 DEF ReceiptInv, Numbered
  <2>3. \E b \in Nat : \A r \in marked : r.seq <= b
    BY <1>2 DEF ReceiptInv, Numbered
  <2> QED BY <1>3, <2>1, <2>2, <2>3 DEF Numbered
<1>5. \A r \in marked : /\ DOMAIN r = ReceiptColumns /\ r.compacted \in BOOLEAN
                        /\ \E q \in d.receipts : r.plan = q.plan /\ r.path = q.path
  BY <1>2
<1>6. \A q, r \in marked : ~q.compacted /\ ~r.compacted => q = r
  BY <1>2 DEF ReceiptInv
<1>7. Numbered(done)
  BY <1>4, NumberedSubset
<1>8. Cardinality(Newest(done, MaxReceipts)) <= MaxReceipts
  BY <1>7, NewestBound, StoreAssumption
<1>9. new \subseteq marked /\ {r \in new : r.compacted} = Newest(done, MaxReceipts)
  BY NewestSubset
<1> HIDE DEF marked, done, new, e
<1>10. Changes(d, e, {"receipts"}) /\ e.receipts = new
  BY <1>0, <1>1 DEF Changes, DbFields
<1>11. Numbered(new)
  BY <1>4, <1>9, NumberedSubset
<1>12. ReceiptInv(e)
  BY <1>5, <1>6, <1>8, <1>9, <1>10, <1>11 DEF ReceiptInv
<1> QED BY <1>5, <1>9, <1>10, <1>12 DEF e
-----------------------------------------------------------------------------
(* The summary rows. *)

FlaggedIsHot(d) == \A s \in d.unresolved : d.records[s] # NoState

EventsIndexed(d) ==
  \A o \in d.observations : d.index[o.trace] # NoRow /\ o.at <= d.index[o.trace].latest

CountsAgree(d) ==
  \A t \in Traces : d.index[t] # NoRow => d.index[t].count = Cardinality(HotSpans(d, t))

FlagsAgree(d) ==
  \A t \in Traces : d.index[t] # NoRow =>
    (d.index[t].unresolved <=> HotSpans(d, t) \cap d.unresolved # {})

ArchiveCountsAgree(d) ==
  \A t \in Traces : d.control[t] # NoRow =>
    d.control[t].count = Cardinality(ArchivedSpans(d, t))

(* No span was observed later than its summary row says.                   *)
LatestIsLatest(d) ==
  \A s \in Spans :
    /\ d.records[s] # NoState =>
         ObservedAt(d.records[s]) <= d.index[d.records[s].trace].latest
    /\ d.archived[s] # NoState =>
         ObservedAt(d.archived[s]) <= d.control[d.archived[s].trace].latest

(* A span is stored under a trace that an observation of it names.         *)
Names(s, t) == \E o \in Observations : o.span = s /\ o.state.trace = t

TracesNamed(d) ==
  \A s \in Spans : /\ d.records[s] # NoState => Names(s, d.records[s].trace)
                   /\ d.archived[s] # NoState => Names(s, d.archived[s].trace)

(* An event row carries an id and a hash that a source can deliver.        *)
EventsTyped(d) == \A x \in d.observations : <<x.id, x.hash>> \in EventKeys

(* The inductive form of IndexAgrees, with what a purge relies on.         *)
IndexInv(d) ==
  /\ FlaggedIsHot(d)
  /\ EventsTyped(d)
  /\ EventsIndexed(d)
  /\ CountsAgree(d)
  /\ FlagsAgree(d)
  /\ ArchiveCountsAgree(d)
  /\ LatestIsLatest(d)
  /\ TracesNamed(d)

(* The columns that the summary rows speak of.                             *)
SameRows(d, e) ==
  /\ e.records = d.records /\ e.archived = d.archived /\ e.index = d.index
  /\ e.control = d.control /\ e.unresolved = d.unresolved
  /\ e.observations = d.observations

(* The summary rows agree while neither side changes.                      *)
LEMMA IndexFrame == ASSUME NEW d, NEW e, IndexInv(d), SameRows(d, e) PROVE IndexInv(e)
BY DEF SameRows, IndexInv, FlaggedIsHot, EventsTyped, EventsIndexed, CountsAgree, FlagsAgree,
       ArchiveCountsAgree, LatestIsLatest, TracesNamed, HotSpans, ArchivedSpans

(* What DbTypeOK says of single rows.                                      *)
LEMMA ColumnTypes ==
  ASSUME NEW d, DbTypeOK(d)
  PROVE  /\ \A s \in Spans : d.records[s] # NoState =>
               /\ d.records[s] \in DomainSpanState
               /\ d.records[s].trace \in Traces /\ ObservedAt(d.records[s]) \in Nat
         /\ \A s \in Spans : d.archived[s] # NoState =>
               /\ d.archived[s] \in DomainSpanState
               /\ d.archived[s].trace \in Traces /\ ObservedAt(d.archived[s]) \in Nat
         /\ \A t \in Traces : d.index[t] # NoRow =>
               /\ d.index[t].latest \in Nat /\ d.index[t].count \in Nat
               /\ d.index[t].unresolved \in BOOLEAN
         /\ \A t \in Traces : d.control[t] # NoRow =>
               d.control[t].latest \in Nat /\ d.control[t].count \in Nat
         /\ \A o \in d.observations : o.trace \in Traces /\ o.at \in Nat
         /\ d.unresolved \subseteq Spans
<1>1. ASSUME NEW x \in DomainSpanState
      PROVE  x.trace \in Traces /\ ObservedAt(x) \in Nat
  BY DEF DomainSpanState, ObservedAt
<1>2. \A t \in Traces : d.index[t] # NoRow =>
        /\ d.index[t].latest \in Nat /\ d.index[t].count \in Nat
        /\ d.index[t].unresolved \in BOOLEAN
  BY DEF DbTypeOK, IndexRows
<1>3. \A t \in Traces : d.control[t] # NoRow =>
        d.control[t].latest \in Nat /\ d.control[t].count \in Nat
  BY DEF DbTypeOK, ControlRows
<1>4. /\ \A s \in Spans : d.records[s] # NoState => d.records[s] \in DomainSpanState
      /\ \A s \in Spans : d.archived[s] # NoState => d.archived[s] \in DomainSpanState
  BY DEF DbTypeOK
<1>5. \A o \in d.observations : o.trace \in Traces /\ o.at \in Nat
  BY DEF DbTypeOK
<1>6. d.unresolved \subseteq Spans
  BY DEF DbTypeOK
<1> QED BY <1>1, <1>2, <1>3, <1>4, <1>5, <1>6

(* Which trace of a span is where, in the form the steps use it.           *)
LEMMA TierFacts ==
  ASSUME NEW d, DbInv(d)
  PROVE  /\ \A s \in Spans : d.records[s] # NoState => d.index[d.records[s].trace] # NoRow
         /\ \A s \in Spans : d.archived[s] # NoState => d.control[d.archived[s].trace] # NoRow
         /\ \A t \in Traces : d.control[t] # NoRow => d.index[t] = NoRow
BY DEF DbInv, TierInv, HotIsIndexed, ArchivedIsControlled, ControlledIsArchived

(* prepare_archived_trace rebuilds the hot index row from the control row. *)
LEMMA RehydrateIndex ==
  ASSUME NEW d, DbInv(d), IndexInv(d), NEW t \in Traces, ~RehydrateClash(d, t)
  PROVE  IndexInv(Rehydrate(d, t))
<1>1. CASE d.control[t] = NoRow
  BY <1>1 DEF Rehydrate
<1>2. CASE d.control[t] # NoRow
  <2> DEFINE e == Rehydrate(d, t)
             S == ArchivedSpans(d, t)
             W == Orphans(d, t)
  <2>t. DbTypeOK(d)
    BY DEF DbInv
  <2>1. /\ Changes(d, e, {"records", "unresolved", "index", "guards", "control", "archived"})
        /\ \A s \in Spans :
             /\ e.records[s] = IF s \in S THEN d.archived[s] ELSE d.records[s]
             /\ e.archived[s] = IF s \in S THEN NoState ELSE d.archived[s]
        /\ \A u \in Traces \ {t} : e.index[u] = d.index[u] /\ e.control[u] = d.control[u]
        /\ e.control[t] = NoRow
        /\ e.index[t].latest = d.control[t].latest
        /\ e.index[t].count = d.control[t].count
        /\ e.index[t].unresolved = (W # {})
        /\ e.unresolved = d.unresolved \cup W
    BY <1>2, <2>t, RehydrateColumns
  <2>2. e.observations = d.observations
    BY <2>1 DEF Changes, DbFields
  <2>3. \A s : s \in S <=> s \in Spans /\ d.archived[s] # NoState /\ d.archived[s].trace = t
    BY DEF ArchivedSpans
  <2>4. \A s \in S : d.records[s] = NoState
    BY <1>2 DEF RehydrateClash
  <2>5. W \subseteq S
    BY DEF Orphans
  <2> HIDE DEF e, S, W
  <2>6. d.index[t] = NoRow
    BY <1>2, TierFacts
  <2>7. \A s \in Spans : d.records[s] # NoState => d.records[s].trace # t
    BY <2>6, TierFacts
  <2>8. HotSpans(e, t) = S
    BY <2>1, <2>3, <2>7 DEF HotSpans
  <2>9. \A u \in Traces \ {t} : HotSpans(e, u) = HotSpans(d, u)
    BY <2>1, <2>3, <2>4 DEF HotSpans
  <2>10. \A u \in Traces \ {t} : ArchivedSpans(e, u) = ArchivedSpans(d, u)
    BY <2>1, <2>3 DEF ArchivedSpans
  <2>a. S \cap d.unresolved = {}
    BY <2>4 DEF IndexInv, FlaggedIsHot
  <2>b. \A s \in S : d.archived[s] # NoState
    BY <2>3
  <2>c. \A s \in d.unresolved : s \in Spans /\ d.records[s] # NoState
    BY <2>t, ColumnTypes DEF IndexInv, FlaggedIsHot
  <2>d. \A s \in S : s \in Spans
    BY <2>3
  <2>11. FlaggedIsHot(e)
    BY <2>1, <2>5, <2>a, <2>b, <2>c, <2>d DEF FlaggedIsHot
  <2>12. EventsIndexed(e)
    <3>1. \A o \in d.observations : o.trace \in Traces \ {t}
      BY <2>6, <2>t, ColumnTypes DEF IndexInv, EventsIndexed
    <3> QED BY <2>1, <2>2, <3>1 DEF IndexInv, EventsIndexed
  <2>13. CountsAgree(e)
    <3>1. e.index[t].count = Cardinality(HotSpans(e, t))
      BY <1>2, <2>1, <2>8 DEF IndexInv, ArchiveCountsAgree, S
    <3>2. \A u \in Traces \ {t} : e.index[u] # NoRow =>
            e.index[u].count = Cardinality(HotSpans(e, u))
      BY <2>1, <2>9 DEF IndexInv, CountsAgree
    <3> QED BY <3>1, <3>2 DEF CountsAgree
  <2>14. FlagsAgree(e)
    <3>1. e.index[t].unresolved <=> HotSpans(e, t) \cap e.unresolved # {}
      BY <2>1, <2>5, <2>8, <2>a
    <3>2. ASSUME NEW u \in Traces \ {t}
          PROVE  HotSpans(e, u) \cap e.unresolved = HotSpans(d, u) \cap d.unresolved
      <4>1. HotSpans(d, u) \cap W = {}
        BY <2>4, <2>5 DEF HotSpans
      <4> QED BY <2>1, <2>9, <4>1
    <3>3. \A u \in Traces \ {t} : e.index[u] # NoRow =>
            (e.index[u].unresolved <=> HotSpans(e, u) \cap e.unresolved # {})
      BY <2>1, <3>2 DEF IndexInv, FlagsAgree
    <3> QED BY <3>1, <3>3 DEF FlagsAgree
  <2>15. ArchiveCountsAgree(e)
    BY <2>1, <2>10 DEF IndexInv, ArchiveCountsAgree
  <2>16. LatestIsLatest(e)
    <3> SUFFICES ASSUME NEW s \in Spans
                 PROVE  /\ e.records[s] # NoState =>
                             ObservedAt(e.records[s]) <= e.index[e.records[s].trace].latest
                        /\ e.archived[s] # NoState =>
                             ObservedAt(e.archived[s]) <= e.control[e.archived[s].trace].latest
      BY DEF LatestIsLatest
    <3>0. /\ d.records[s] # NoState =>
               ObservedAt(d.records[s]) <= d.index[d.records[s].trace].latest
          /\ d.archived[s] # NoState =>
               ObservedAt(d.archived[s]) <= d.control[d.archived[s].trace].latest
      BY DEF IndexInv, LatestIsLatest
    <3>1. CASE s \in S
      BY <2>1, <2>3, <3>0, <3>1
    <3>2. CASE s \notin S
      <4>1. d.records[s] # NoState => d.records[s].trace \in Traces \ {t}
        BY <2>7, <2>t, ColumnTypes
      <4>2. d.archived[s] # NoState => d.archived[s].trace \in Traces \ {t}
        BY <2>3, <3>2, <2>t, ColumnTypes
      <4> QED BY <2>1, <3>0, <3>2, <4>1, <4>2
    <3> QED BY <3>1, <3>2
  <2>17. TracesNamed(e)
    BY <2>1, <2>3 DEF IndexInv, TracesNamed
  <2>18. EventsTyped(e)
    BY <2>2 DEF IndexInv, EventsTyped
  <2> QED BY <2>11, <2>12, <2>13, <2>14, <2>15, <2>16, <2>17, <2>18 DEF IndexInv, e
<1> QED BY <1>1, <1>2

(* A commit that passes validate_topology_chain links no waiting child of  *)
(* another trace to the new span.                                          *)
LEMMA ChildrenInTrace ==
  ASSUME NEW rows, NEW s \in Spans, rows[s] # NoState, ~TopologyError(rows, s)
  PROVE  \A x \in Spans : rows[x] # NoState /\ rows[x].parent = s =>
                           rows[x].trace = rows[s].trace
<1> SUFFICES ASSUME NEW x \in Spans, rows[x] # NoState, rows[x].parent = s
             PROVE  rows[x].trace = rows[s].trace
  OBVIOUS
<1>1. s # NoSpan /\ x # NoSpan
  BY SentinelAssumption
<1>2. ~ChainError(rows, x)
  BY DEF TopologyError, ParentIn
<1>3. 0 \in 0 .. Cardinality(Spans)
  BY SentinelAssumption, FS_CardinalityType
<1>4. x \in {Ancestor(rows, x)[n] : n \in 0 .. Cardinality(Spans)} \ {NoSpan}
  BY <1>1, <1>3, WalkStarts
<1>5. ~BadLink(rows, x)
  BY <1>2, <1>4 DEF ChainError
<1> QED BY <1>1, <1>5 DEF BadLink, ParentIn

(* The record of a span only ever knows more, and no later time than the   *)
(* latest of its two observations.                                         *)
LEMMA MergeKnows ==
  ASSUME NEW x \in DomainSpanState, NEW y \in DomainSpanState, ~MergeConflict(x, y)
  PROVE  KnowsAtLeast(MergeState(x, y), x)
<1> DEFINE z == MergeState(x, y)
<1>1. /\ z.trace = x.trace /\ z.parent = x.parent /\ z.kind = x.kind
      /\ z.lifecycle = MergeLifecycle(x.lifecycle, y.lifecycle)
      /\ z.start = Least(x.start, y.start)
      /\ z.end = MergeEnd(x.end, y.end)
      /\ \A f \in Fields : z.fields[f] = MergeOptional(x.fields[f], y.fields[f])
  BY MergeStateFields
<1> HIDE DEF z
<1>2. /\ x.lifecycle \in Lifecycles /\ y.lifecycle \in Lifecycles
      /\ x.start \in Nat /\ y.start \in Nat
      /\ x.end \in Nat \cup {NoTime} /\ y.end \in Nat \cup {NoTime}
  BY DEF DomainSpanState
<1>3. x.lifecycle \in Terminal => z.lifecycle = x.lifecycle
  BY <1>1, <1>2 DEF MergeConflict, LifecycleConflict, MergeLifecycle, Terminal, Lifecycles
<1>4. x.lifecycle = "running" => z.lifecycle # "observed"
  BY <1>1, <1>2 DEF MergeLifecycle, Lifecycles
<1>5. z.start <= x.start
  BY <1>1, <1>2 DEF Least
<1>6. x.end # NoTime => z.end # NoTime /\ z.end >= x.end
  BY <1>1, <1>2, SentinelAssumption DEF MergeEnd, Latest
<1>7. \A f \in Fields : x.fields[f] \in {NoValue, z.fields[f]}
  BY <1>1 DEF MergeOptional
<1> QED BY <1>1, <1>3, <1>4, <1>5, <1>6, <1>7 DEF KnowsAtLeast, z

(* A merged state was not observed later than both of its parts.           *)
LEMMA MergeObserved ==
  ASSUME NEW x \in DomainSpanState, NEW y \in DomainSpanState
  PROVE  ObservedAt(MergeState(x, y)) <= Latest(ObservedAt(x), ObservedAt(y))
<1> DEFINE z == MergeState(x, y)
<1> SUFFICES ObservedAt(z) <= Latest(ObservedAt(x), ObservedAt(y))
  OBVIOUS
<1>1. z.start = Least(x.start, y.start) /\ z.end = MergeEnd(x.end, y.end)
  BY MergeStateFields
<1> HIDE DEF z
<1>2. /\ x.start \in Nat /\ y.start \in Nat
      /\ x.end \in Nat \cup {NoTime} /\ y.end \in Nat \cup {NoTime}
  BY DEF DomainSpanState
<1>3. CASE x.end = NoTime /\ y.end = NoTime
  BY <1>1, <1>2, <1>3 DEF ObservedAt, MergeEnd, Latest, Least
<1>4. CASE x.end = NoTime /\ y.end # NoTime
  BY <1>1, <1>2, <1>4 DEF ObservedAt, MergeEnd, Latest
<1>5. CASE x.end # NoTime /\ y.end = NoTime
  BY <1>1, <1>2, <1>5 DEF ObservedAt, MergeEnd, Latest
<1>6. CASE x.end # NoTime /\ y.end # NoTime
  BY <1>1, <1>2, <1>6, SentinelAssumption DEF ObservedAt, MergeEnd, Latest
<1> QED BY <1>3, <1>4, <1>5, <1>6

(* The tail of ingest_in_transaction keeps the summary rows: the flags of  *)
(* another trace cannot be lifted behind its index row.                    *)
LEMMA CommitIndex ==
  ASSUME NEW d, DbInv(d), IndexInv(d), NEW st \in Streams, NEW c, NEW o \in Observations,
         d.records[o.span] # NoState => Compatible(d.records[o.span], o.state),
         ~TopologyError(RowsWith(d, o), o.span)
  PROVE  IndexInv(CommitObservation(d, st, c, o))
<1> DEFINE t == o.state.trace
           s == o.span
           e == CommitObservation(d, st, c, o)
           new == Reduced(d, o)
           row == IndexRow(d, o)
           old == d.index[t]
           at == ObservedAt(o.state)
           rows == RowsWith(d, o)
           flags == Unresolved(d, o)
<1>a. DbTypeOK(d) /\ TierInv(d)
  BY DEF DbInv
<1>o. s \in Spans /\ o.state \in DomainSpanState /\ t \in Traces /\ at \in Nat
  BY ObservationType
<1>p. d.records[s] # NoState => d.records[s] \in DomainSpanState /\ d.records[s].trace = t
  BY <1>a, <1>o, ColumnTypes DEF Compatible
<1>n. new \in DomainSpanState /\ new.trace = t
  BY <1>o, <1>p, MergeStateType, MergeStateFields DEF Reduced
<1>w. /\ new # NoState /\ rows[s] = new
      /\ \A x \in Spans \ {s} : rows[x] = d.records[x]
  BY <1>a, <1>o, <1>n, Sentinels DEF RowsWith, DbTypeOK
<1>1. /\ Changes(d, e, {"cursors", "inputs", "dirty", "generation", "observations",
                        "records", "unresolved", "index"})
      /\ e.observations = d.observations \cup {EventRow(st, o)}
      /\ e.records = rows /\ e.unresolved = flags
      /\ e.index = Put(d.index, t, row)
  BY HasColumns, <1>a, CommitColumns
<1>2. /\ e.archived = d.archived /\ e.control = d.control
      /\ e.index[t] = row /\ \A u \in Traces \ {t} : e.index[u] = d.index[u]
  BY <1>1, <1>a, <1>o DEF Changes, DbFields, Put, DbTypeOK
<1>r. /\ row.latest = IF old = NoRow THEN at ELSE Latest(old.latest, at)
      /\ row.unresolved = (\E x \in flags : rows[x].trace = t)
      /\ row.count = (IF old = NoRow THEN 0 ELSE old.count)
                       + (IF d.records[s] = NoState THEN 1 ELSE 0)
      /\ row # NoRow
  <2>1. /\ row.latest = IF old = NoRow THEN at ELSE Latest(old.latest, at)
        /\ row.unresolved = (\E x \in flags : rows[x].trace = t)
        /\ row.count = (IF old = NoRow THEN 0 ELSE old.count)
                         + (IF d.records[s] = NoState THEN 1 ELSE 0)
    BY DEF IndexRow
  <2>2. old # NoRow => old.latest \in Nat /\ old.count \in Nat
    BY <1>a, <1>o, ColumnTypes
  <2>3. row \in IndexRows
    <3>1. row.latest \in Nat /\ row.count \in Nat /\ row.unresolved \in BOOLEAN
      BY <2>1, <2>2, <1>o DEF Latest
    <3>2. row = [latest |-> row.latest, unresolved |-> row.unresolved, count |-> row.count]
      BY DEF IndexRow
    <3> HIDE DEF row
    <3> QED BY <3>1, <3>2 DEF IndexRows
  <2> HIDE DEF row
  <2> QED BY <2>1, <2>3, Sentinels
<1>l. at <= row.latest /\ (old # NoRow => old.latest <= row.latest) /\ row.latest \in Nat
  BY <1>a, <1>o, <1>r, ColumnTypes DEF Latest
<1>f. \A x : x \in flags <=>
        /\ \/ x \in d.unresolved /\ x # s
           \/ x = s /\ new.parent # NoSpan /\ d.records[new.parent] = NoState
        /\ rows[x].parent # s
  BY DEF Unresolved
<1>u. \A x \in d.unresolved : x \in Spans /\ d.records[x] # NoState
  BY <1>a, ColumnTypes DEF IndexInv, FlaggedIsHot
<1>v. EventRow(st, o).trace = t /\ EventRow(st, o).at = at
  BY DEF EventRow
<1>k. \A x \in Spans : rows[x] # NoState /\ rows[x].parent = s => rows[x].trace = t
  <2> HIDE DEF rows, t
  <2> QED BY <1>n, <1>o, <1>w, ChildrenInTrace DEF rows
<1> HIDE DEF e, new, row, rows, flags, old, at
<1>3. HotSpans(e, t) = HotSpans(d, t) \cup {s}
  BY <1>1, <1>w, <1>n, <1>o, <1>p DEF HotSpans
<1>4. \A u \in Traces \ {t} : HotSpans(e, u) = HotSpans(d, u) /\ s \notin HotSpans(d, u)
  BY <1>1, <1>w, <1>n, <1>o, <1>p DEF HotSpans
<1>5. FlaggedIsHot(e)
  BY <1>1, <1>f, <1>u, <1>w DEF FlaggedIsHot
<1>6. EventsIndexed(e)
  <2>1. \A x \in d.observations : /\ x.trace \in Traces /\ x.at \in Nat
                                  /\ d.index[x.trace] # NoRow
                                  /\ x.at <= d.index[x.trace].latest
                                  /\ d.index[x.trace].latest \in Nat
    BY <1>a, ColumnTypes DEF IndexInv, EventsIndexed
  <2>2. \A x \in d.observations : e.index[x.trace] # NoRow /\ x.at <= e.index[x.trace].latest
    BY <1>2, <1>l, <1>r, <2>1 DEF old
  <2> QED BY <1>1, <1>2, <1>l, <1>r, <1>v, <2>2 DEF EventsIndexed
<1>7. CountsAgree(e)
  <2>1. row.count = Cardinality(HotSpans(e, t))
    <3>1. IsFiniteSet(HotSpans(d, t))
      BY SentinelAssumption, FS_Subset DEF HotSpans
    <3>2. Cardinality(HotSpans(d, t)) = IF old = NoRow THEN 0 ELSE old.count
      <4>1. CASE old = NoRow
        <5>1. HotSpans(d, t) = {}
          BY <4>1, TierFacts DEF HotSpans, old
        <5> QED BY <4>1, <5>1, FS_EmptySet
      <4>2. CASE old # NoRow
        BY <1>o, <4>2 DEF IndexInv, CountsAgree, old
      <4> QED BY <4>1, <4>2
    <3>3. s \in HotSpans(d, t) <=> d.records[s] # NoState
      BY <1>o, <1>p DEF HotSpans
    <3>4. Cardinality(HotSpans(d, t) \cup {s}) =
            IF s \in HotSpans(d, t) THEN Cardinality(HotSpans(d, t))
            ELSE Cardinality(HotSpans(d, t)) + 1
      BY <3>1, FS_AddElement
    <3>5. Cardinality(HotSpans(d, t)) \in Nat
      BY <3>1, FS_CardinalityType
    <3> QED BY <1>3, <1>r, <3>2, <3>3, <3>4, <3>5
  <2> QED BY <1>2, <1>4, <2>1 DEF CountsAgree, IndexInv
<1>8. FlagsAgree(e)
  <2>1. row.unresolved <=> HotSpans(e, t) \cap e.unresolved # {}
    <3>1. \A x \in flags : x \in Spans /\ rows[x] # NoState
      BY <1>f, <1>o, <1>u, <1>w
    <3> QED BY <1>1, <1>r, <3>1 DEF HotSpans
  <2>2. ASSUME NEW u \in Traces \ {t}
        PROVE  HotSpans(e, u) \cap e.unresolved = HotSpans(d, u) \cap d.unresolved
    <3>1. \A x \in HotSpans(d, u) : /\ x \in Spans /\ x # s
                                    /\ rows[x] # NoState /\ rows[x].trace = u
      BY <1>4, <1>w DEF HotSpans
    <3>2. \A x \in HotSpans(d, u) : rows[x].parent # s
      BY <1>k, <3>1
    <3> QED BY <1>1, <1>4, <1>f, <3>1, <3>2
  <2> QED BY <1>2, <2>1, <2>2 DEF FlagsAgree, IndexInv
<1>9. ArchiveCountsAgree(e)
  BY <1>2 DEF ArchiveCountsAgree, IndexInv, ArchivedSpans
<1>10. LatestIsLatest(e)
  <2>1. ObservedAt(new) <= row.latest
    <3>1. CASE d.records[s] = NoState
      BY <1>l, <3>1 DEF Reduced, new, at
    <3>2. CASE d.records[s] # NoState
      <4> DEFINE x == d.records[s]
      <4>1. new = MergeState(x, o.state)
        BY <3>2 DEF Reduced, new
      <4>2. x \in DomainSpanState /\ x.trace = t
        BY <1>p, <3>2
      <4>3. old # NoRow /\ ObservedAt(x) <= old.latest
        BY <1>o, <3>2, <4>2, TierFacts DEF IndexInv, LatestIsLatest, old
      <4>4. ObservedAt(x) \in Nat /\ old.latest \in Nat
        BY <1>a, <1>o, <3>2, <4>3, ColumnTypes DEF old
      <4> HIDE DEF x
      <4>5. ObservedAt(new) <= Latest(ObservedAt(x), at)
        BY <1>o, <4>1, <4>2, MergeObserved DEF at
      <4>6. ObservedAt(new) \in Nat
        BY <1>n DEF DomainSpanState, ObservedAt
      <4> QED BY <1>l, <1>o, <4>3, <4>4, <4>5, <4>6 DEF Latest
    <3> QED BY <3>1, <3>2
  <2>2. ASSUME NEW x \in Spans \ {s}, d.records[x] # NoState
        PROVE  ObservedAt(d.records[x]) <= e.index[d.records[x].trace].latest
    <3>1. /\ ObservedAt(d.records[x]) <= d.index[d.records[x].trace].latest
          /\ ObservedAt(d.records[x]) \in Nat /\ d.records[x].trace \in Traces
          /\ d.index[d.records[x].trace] # NoRow
          /\ d.index[d.records[x].trace].latest \in Nat
      BY <1>a, <2>2, ColumnTypes, TierFacts DEF IndexInv, LatestIsLatest
    <3> QED BY <1>2, <1>l, <3>1 DEF old
  <2>3. \A x \in Spans : e.records[x] # NoState =>
          ObservedAt(e.records[x]) <= e.index[e.records[x].trace].latest
    BY <1>1, <1>2, <1>n, <1>w, <2>1, <2>2
  <2> QED BY <1>2, <2>3 DEF LatestIsLatest, IndexInv
<1>11. TracesNamed(e)
  BY <1>1, <1>2, <1>n, <1>w DEF TracesNamed, IndexInv, Names
<1>12. EventsTyped(e)
  <2>1. <<EventRow(st, o).id, EventRow(st, o).hash>> \in EventKeys
    BY DEF EventRow, EventKeys
  <2> QED BY <1>1, <2>1 DEF IndexInv, EventsTyped
<1> QED BY <1>5, <1>6, <1>7, <1>8, <1>9, <1>10, <1>11, <1>12 DEF IndexInv, e

(* The DELETEs of a trace set take its summary rows with them.             *)
LEMMA DeleteHotIndex ==
  ASSUME NEW d, DbInv(d), IndexInv(d), NEW T \in SUBSET Traces
  PROVE  IndexInv(DeleteHot(d, T))
<1> DEFINE e == DeleteHot(d, T)
           S == HotIn(d, T)
<1>a. DbTypeOK(d)
  BY DEF DbInv
<1>1. /\ Changes(d, e, {"inputs", "observations", "unresolved", "records", "index"})
      /\ \A o : o \in e.observations <=> o \in d.observations /\ o.trace \notin T
      /\ e.unresolved = d.unresolved \ S
      /\ \A s \in Spans : e.records[s] = IF s \in S THEN NoState ELSE d.records[s]
      /\ \A t \in Traces : e.index[t] = IF t \in T THEN NoRow ELSE d.index[t]
  BY <1>a, DeleteHotColumns
<1>2. e.archived = d.archived /\ e.control = d.control
  BY <1>1 DEF Changes, DbFields
<1>3. \A s : s \in S <=> s \in Spans /\ d.records[s] # NoState /\ d.records[s].trace \in T
  BY HotInTraces
<1> HIDE DEF e, S
<1>4. \A t \in Traces : t \notin T =>
        HotSpans(e, t) = HotSpans(d, t) /\ HotSpans(d, t) \cap S = {}
  BY <1>1, <1>3 DEF HotSpans
<1>5. FlaggedIsHot(e)
  BY <1>1, <1>a, ColumnTypes DEF IndexInv, FlaggedIsHot
<1>6. EventsIndexed(e)
  BY <1>1, <1>a, ColumnTypes DEF IndexInv, EventsIndexed
<1>7. CountsAgree(e)
  BY <1>1, <1>4 DEF IndexInv, CountsAgree
<1>8. FlagsAgree(e)
  <2> SUFFICES ASSUME NEW t \in Traces, e.index[t] # NoRow
               PROVE  e.index[t].unresolved <=> HotSpans(e, t) \cap e.unresolved # {}
    BY DEF FlagsAgree
  <2>1. t \notin T /\ e.index[t] = d.index[t]
    BY <1>1
  <2>2. HotSpans(e, t) \cap e.unresolved = HotSpans(d, t) \cap d.unresolved
    BY <1>1, <1>4, <2>1
  <2> QED BY <2>1, <2>2 DEF IndexInv, FlagsAgree
<1>9. ArchiveCountsAgree(e)
  BY <1>2 DEF IndexInv, ArchiveCountsAgree, ArchivedSpans
<1>10. LatestIsLatest(e)
  <2>1. \A s \in Spans : e.records[s] # NoState =>
          /\ e.records[s] = d.records[s]
          /\ e.index[d.records[s].trace] = d.index[d.records[s].trace]
    BY <1>1, <1>3, <1>a, ColumnTypes
  <2> QED BY <1>2, <2>1 DEF IndexInv, LatestIsLatest
<1>11. TracesNamed(e)
  BY <1>1, <1>2 DEF IndexInv, TracesNamed
<1>12. EventsTyped(e)
  BY <1>1 DEF IndexInv, EventsTyped
<1> QED BY <1>5, <1>6, <1>7, <1>8, <1>9, <1>10, <1>11, <1>12 DEF IndexInv, e

(* Of the summary rows, a step changes those of the archive only.          *)
LEMMA ArchiveSide ==
  ASSUME NEW d, NEW e, IndexInv(d), e.records = d.records, e.index = d.index,
         e.unresolved = d.unresolved, e.observations = d.observations,
         ArchiveCountsAgree(e),
         \A s \in Spans : e.archived[s] # NoState =>
           /\ ObservedAt(e.archived[s]) <= e.control[e.archived[s].trace].latest
           /\ Names(s, e.archived[s].trace)
  PROVE  IndexInv(e)
BY DEF IndexInv, FlaggedIsHot, EventsTyped, EventsIndexed, CountsAgree, FlagsAgree,
       LatestIsLatest, TracesNamed, HotSpans

(* archive_hot_control copies the hot summary row.                         *)
LEMMA ArchiveHotIndex ==
  ASSUME NEW d, DbInv(d), IndexInv(d), NEW t \in Traces, d.index[t] # NoRow, NEW tier,
         \A s \in HotSpans(d, t) : d.archived[s] = NoState
  PROVE  IndexInv(ArchiveHot(d, t, tier))
<1> DEFINE e == ArchiveHot(d, t, tier)
           b == DeleteHot(d, {t})
           S == HotSpans(d, t)
<1>a. DbTypeOK(d)
  BY DEF DbInv
<1>b. IndexInv(b)
  BY DeleteHotIndex
<1>1. /\ Changes(b, e, {"control", "archived", "guards"})
      /\ e.control[t].latest = d.index[t].latest
      /\ e.control[t].count = d.index[t].count
      /\ \A u \in Traces \ {t} : e.control[u] = d.control[u]
      /\ \A s \in Spans : e.archived[s] = IF s \in S THEN d.records[s] ELSE d.archived[s]
  BY <1>a, ArchiveHotColumns
<1>2. /\ e.records = b.records /\ e.index = b.index
      /\ e.unresolved = b.unresolved /\ e.observations = b.observations
  BY <1>1 DEF Changes, DbFields
<1>3. \A s : s \in S <=> s \in Spans /\ d.records[s] # NoState /\ d.records[s].trace = t
  BY DEF HotSpans
<1>4. \A s \in Spans : d.archived[s] # NoState =>
        s \notin S /\ d.archived[s].trace \in Traces \ {t}
  BY <1>a, ColumnTypes, TierFacts
<1> HIDE DEF e, b, S
<1>5. ArchivedSpans(e, t) = S
  BY <1>1, <1>3, <1>4 DEF ArchivedSpans
<1>6. \A u \in Traces \ {t} : ArchivedSpans(e, u) = ArchivedSpans(d, u)
  BY <1>1, <1>3, <1>4 DEF ArchivedSpans
<1>7. ArchiveCountsAgree(e)
  <2>1. e.control[t].count = Cardinality(ArchivedSpans(e, t))
    BY <1>1, <1>5 DEF IndexInv, CountsAgree, S
  <2> QED BY <1>1, <1>6, <2>1 DEF IndexInv, ArchiveCountsAgree
<1>8. ASSUME NEW s \in Spans, e.archived[s] # NoState
      PROVE  /\ ObservedAt(e.archived[s]) <= e.control[e.archived[s].trace].latest
             /\ Names(s, e.archived[s].trace)
  <2>1. CASE s \in S
    BY <1>1, <1>3, <2>1 DEF IndexInv, LatestIsLatest, TracesNamed
  <2>2. CASE s \notin S
    BY <1>1, <1>4, <1>8, <2>2 DEF IndexInv, LatestIsLatest, TracesNamed
  <2> QED BY <2>1, <2>2
<1> QED BY <1>b, <1>2, <1>7, <1>8, ArchiveSide DEF e

(* The DELETE of a control row and its spans.                              *)
LEMMA DropArchivedIndex ==
  ASSUME NEW d, DbInv(d), IndexInv(d), NEW t \in Traces
  PROVE  IndexInv(DropArchived(d, t))
<1> DEFINE e == DropArchived(d, t)
           S == ArchivedSpans(d, t)
<1>a. DbTypeOK(d)
  BY DEF DbInv
<1>1. /\ Changes(d, e, {"control", "archived"})
      /\ e.control[t] = NoRow
      /\ \A u \in Traces \ {t} : e.control[u] = d.control[u]
      /\ \A s \in Spans : e.archived[s] = IF s \in S THEN NoState ELSE d.archived[s]
  BY <1>a, DropArchivedColumns
<1>2. /\ e.records = d.records /\ e.index = d.index
      /\ e.unresolved = d.unresolved /\ e.observations = d.observations
  BY <1>1 DEF Changes, DbFields
<1>3. \A s : s \in S <=> s \in Spans /\ d.archived[s] # NoState /\ d.archived[s].trace = t
  BY DEF ArchivedSpans
<1> HIDE DEF e, S
<1>4. \A u \in Traces \ {t} : ArchivedSpans(e, u) = ArchivedSpans(d, u)
  BY <1>1, <1>3 DEF ArchivedSpans
<1>5. ArchiveCountsAgree(e)
  BY <1>1, <1>4 DEF IndexInv, ArchiveCountsAgree
<1>6. ASSUME NEW s \in Spans, e.archived[s] # NoState
      PROVE  /\ ObservedAt(e.archived[s]) <= e.control[e.archived[s].trace].latest
             /\ Names(s, e.archived[s].trace)
  <2>1. e.archived[s] = d.archived[s] /\ d.archived[s].trace \in Traces \ {t}
    BY <1>1, <1>3, <1>6, <1>a, ColumnTypes
  <2> QED BY <1>1, <1>6, <2>1 DEF IndexInv, LatestIsLatest, TracesNamed
<1> QED BY <1>2, <1>5, <1>6, ArchiveSide DEF e

(* warm-to-cold keeps the counts and the time.                             *)
LEMMA CoolIndex ==
  ASSUME NEW d, DbInv(d), IndexInv(d), NEW t \in Traces, d.control[t] # NoRow
  PROVE  IndexInv([d EXCEPT !.control[t].tier = "cold"])
<1> DEFINE e == [d EXCEPT !.control[t].tier = "cold"]
<1>a. DbTypeOK(d)
  BY DEF DbInv
<1>1. /\ Changes(d, e, {"control"})
      /\ e.control[t].latest = d.control[t].latest
      /\ e.control[t].count = d.control[t].count
      /\ \A u \in Traces \ {t} : e.control[u] = d.control[u]
  BY <1>a, CoolColumns
<1> HIDE DEF e
<1>2. /\ e.records = d.records /\ e.index = d.index /\ e.archived = d.archived
      /\ e.unresolved = d.unresolved /\ e.observations = d.observations
  BY <1>1 DEF Changes, DbFields
<1>3. ArchiveCountsAgree(e)
  BY <1>1, <1>2 DEF IndexInv, ArchiveCountsAgree, ArchivedSpans
<1>4. ASSUME NEW s \in Spans, e.archived[s] # NoState
      PROVE  /\ ObservedAt(e.archived[s]) <= e.control[e.archived[s].trace].latest
             /\ Names(s, e.archived[s].trace)
  <2>1. d.archived[s].trace \in Traces
    BY <1>2, <1>4, <1>a, ColumnTypes
  <2>2. d.control[d.archived[s].trace].latest = e.control[d.archived[s].trace].latest
    BY <1>1, <2>1
  <2> QED BY <1>2, <1>4, <2>2 DEF IndexInv, LatestIsLatest, TracesNamed
<1> QED BY <1>2, <1>3, <1>4, ArchiveSide DEF e

(* The transaction of maintain_lifecycle_inner.                            *)
LEMMA MoveIndex ==
  ASSUME NEW d, DbInv(d), IndexInv(d), NEW c \in Candidates, NEW transition,
         Reload(d, c) # NoRow, ~ArchiveClash(d, c, transition)
  PROVE  IndexInv(MoveTrace(d, c, transition))
<1> DEFINE t == c.trace
           m == BareMove(d, c, transition)
           e == MoveTrace(d, c, transition)
<1>a. DbTypeOK(d) /\ t \in Traces
  BY DEF DbInv, Candidates
<1>1. IndexInv(m)
  <2>1. CASE transition = "delete" /\ c.tier = "hot"
    <3> DEFINE b == DeleteHot(d, {t})
    <3>1. m = Purge(d, c)
      BY <2>1 DEF BareMove
    <3>2. Changes(b, m, {"guards", "tombstones"})
      BY <1>a, <2>1, <3>1, PurgeColumns
    <3>3. IndexInv(b)
      BY <1>a, DeleteHotIndex
    <3> HIDE DEF m, b
    <3>4. SameRows(b, m)
      BY <3>2 DEF Changes, DbFields, SameRows
    <3> QED BY <3>3, <3>4, IndexFrame
  <2>2. CASE transition = "delete" /\ c.tier # "hot"
    <3> DEFINE b == DropArchived(d, t)
    <3>1. m = Purge(d, c)
      BY <2>2 DEF BareMove
    <3>2. Changes(b, m, {"tombstones"})
      BY <1>a, <2>2, <3>1, PurgeColumns
    <3>3. IndexInv(b)
      BY <1>a, DropArchivedIndex
    <3> HIDE DEF m, b
    <3>4. SameRows(b, m)
      BY <3>2 DEF Changes, DbFields, SameRows
    <3> QED BY <3>3, <3>4, IndexFrame
  <2>3. CASE transition # "delete" /\ c.tier = "hot"
    <3>1. m = ArchiveHot(d, t, transition)
      BY <2>3 DEF BareMove
    <3>2. d.index[t] # NoRow /\ \A s \in HotSpans(d, t) : d.archived[s] = NoState
      BY <2>3 DEF Reload, ArchiveClash
    <3> QED BY <1>a, <3>1, <3>2, ArchiveHotIndex
  <2>4. CASE transition # "delete" /\ c.tier # "hot"
    <3>1. m = [d EXCEPT !.control[t].tier = "cold"]
      BY <2>4 DEF BareMove
    <3>2. d.control[t] # NoRow
      BY <2>4 DEF Reload
    <3> HIDE DEF m
    <3> QED BY <1>a, <3>1, <3>2, CoolIndex
  <2> QED BY <2>1, <2>2, <2>3, <2>4
<1>2. Marks(m, e)
  BY <1>a, MoveMarks
<1> HIDE DEF m, e
<1>3. SameRows(m, e)
  BY <1>2 DEF Marks, Changes, DbFields, SameRows
<1> QED BY <1>1, <1>3, IndexFrame DEF e

(* apply_retention *)
LEMMA RetainIndex ==
  ASSUME NEW d, DbInv(d), IndexInv(d), NEW plan_, NEW path, Selected(plan_) \in SUBSET Traces
  PROVE  IndexInv(RetainCommit(d, plan_, path))
<1> DEFINE b == DeleteHot(d, Selected(plan_))
           e == RetainCommit(d, plan_, path)
<1>1. Changes(b, e, {"dirty", "generation", "epoch", "receipts", "guards"})
  BY RetainColumns DEF DbInv
<1>2. IndexInv(b)
  BY DeleteHotIndex
<1> HIDE DEF b, e
<1>3. SameRows(b, e)
  BY <1>1 DEF Changes, DbFields, SameRows
<1> QED BY <1>2, <1>3, IndexFrame DEF e
-----------------------------------------------------------------------------
(* What is known of a span. *)

(* The adapters derive the trace from the session and the span from the    *)
(* session and its position in it (build_observation), so every            *)
(* observation of a span names the same trace.                             *)
OneTracePerSpan ==
  \A o, p \in Observations : o.span = p.span => o.state.trace = p.state.trace

(* No stored state is lost or knows less.                                  *)
KeepsHistory(d, e) ==
  \A s \in Spans : Stored(d, s) # NoState =>
    Stored(e, s) # NoState /\ KnowsAtLeast(Stored(e, s), Stored(d, s))

(* A stored state is a state, and it names the one trace of its span.      *)
LEMMA StoredType ==
  ASSUME NEW d, DbTypeOK(d), NEW s \in Spans, Stored(d, s) # NoState
  PROVE  Stored(d, s) \in DomainSpanState
BY DEF Stored, DbTypeOK

(* KnowsAtLeast is reflexive.                                              *)
LEMMA KnowsItself ==
  ASSUME NEW x \in DomainSpanState
  PROVE  KnowsAtLeast(x, x)
<1>1. x.start \in Nat /\ x.end \in Nat \cup {NoTime}
  BY DEF DomainSpanState
<1>2. x.lifecycle = "running" => x.lifecycle # "observed"
  OBVIOUS
<1>3. x.start <= x.start /\ (x.end # NoTime => x.end >= x.end)
  BY <1>1
<1> QED BY <1>2, <1>3 DEF KnowsAtLeast

(* KnowsAtLeast is transitive.                                             *)
LEMMA KnowsTransitive ==
  ASSUME NEW x \in DomainSpanState, NEW y \in DomainSpanState, NEW z \in DomainSpanState,
         KnowsAtLeast(y, x), KnowsAtLeast(z, y)
  PROVE  KnowsAtLeast(z, x)
<1>1. /\ x.start \in Nat /\ y.start \in Nat /\ z.start \in Nat
      /\ x.end \in Nat \cup {NoTime} /\ y.end \in Nat \cup {NoTime}
      /\ z.end \in Nat \cup {NoTime}
      /\ x.lifecycle \in Lifecycles /\ y.lifecycle \in Lifecycles
      /\ z.lifecycle \in Lifecycles
  BY DEF DomainSpanState
<1>2. z.trace = x.trace /\ z.parent = x.parent /\ z.kind = x.kind
  BY DEF KnowsAtLeast
<1>3. x.lifecycle \in Terminal => z.lifecycle = x.lifecycle
  BY DEF KnowsAtLeast
<1>4. x.lifecycle = "running" => z.lifecycle # "observed"
  BY <1>1 DEF KnowsAtLeast, Terminal, Lifecycles
<1>5. z.start <= x.start
  BY <1>1 DEF KnowsAtLeast
<1>6. x.end # NoTime => z.end # NoTime /\ z.end >= x.end
  BY <1>1, SentinelAssumption DEF KnowsAtLeast
<1>7. \A f \in Fields : x.fields[f] \in {NoValue, z.fields[f]}
  BY DEF KnowsAtLeast
<1> QED BY <1>2, <1>3, <1>4, <1>5, <1>6, <1>7 DEF KnowsAtLeast

(* Two transactions that keep the history keep it together.                *)
LEMMA HistoryTransitive ==
  ASSUME NEW d, NEW e, NEW f, DbTypeOK(d), DbTypeOK(e), DbTypeOK(f),
         KeepsHistory(d, e), KeepsHistory(e, f)
  PROVE  KeepsHistory(d, f)
BY StoredType, KnowsTransitive DEF KeepsHistory

(* The stored states are the same.                                         *)
LEMMA SameStored ==
  ASSUME NEW d, NEW e, DbTypeOK(d), \A s \in Spans : Stored(e, s) = Stored(d, s)
  PROVE  KeepsHistory(d, e)
BY StoredType, KnowsItself DEF KeepsHistory

(* Moving an archived trace back changes no stored state.                  *)
LEMMA RehydrateStored ==
  ASSUME NEW d, DbTypeOK(d), NEW t \in Traces, ~RehydrateClash(d, t)
  PROVE  \A s \in Spans : Stored(Rehydrate(d, t), s) = Stored(d, s)
<1>1. CASE d.control[t] = NoRow
  BY <1>1 DEF Rehydrate
<1>2. CASE d.control[t] # NoRow
  <2> DEFINE e == Rehydrate(d, t)
             S == ArchivedSpans(d, t)
  <2>1. \A s \in Spans :
          /\ e.records[s] = IF s \in S THEN d.archived[s] ELSE d.records[s]
          /\ e.archived[s] = IF s \in S THEN NoState ELSE d.archived[s]
    BY <1>2, RehydrateColumns
  <2>2. \A s \in S : d.records[s] = NoState /\ d.archived[s] # NoState
    BY <1>2 DEF RehydrateClash, ArchivedSpans
  <2> HIDE DEF e, S
  <2> QED BY <2>1, <2>2 DEF Stored, e
<1> QED BY <1>1, <1>2

(* reduce_span_state never forgets, and a span of a hot trace is not in    *)
(* the archive as well.                                                    *)
LEMMA CommitHistory ==
  ASSUME NEW d, DbInv(d), IndexInv(d), OneTracePerSpan, NEW st, NEW c, NEW o \in Observations,
         d.control[o.state.trace] = NoRow,
         d.records[o.span] # NoState => ~MergeConflict(d.records[o.span], o.state)
  PROVE  KeepsHistory(d, CommitObservation(d, st, c, o))
<1> DEFINE e == CommitObservation(d, st, c, o)
           s == o.span
<1>a. DbTypeOK(d)
  BY DEF DbInv
<1>o. s \in Spans /\ o.state \in DomainSpanState
  BY ObservationType
<1>1. /\ Changes(d, e, {"cursors", "inputs", "dirty", "generation", "observations",
                        "records", "unresolved", "index"})
      /\ e.records = RowsWith(d, o)
  BY <1>a, HasColumns, CommitColumns
<1>2. e.archived = d.archived
  BY <1>1 DEF Changes, DbFields
<1>3. /\ e.records[s] = Reduced(d, o)
      /\ \A x \in Spans \ {s} : e.records[x] = d.records[x]
  BY <1>1, <1>a, <1>o DEF RowsWith, DbTypeOK
<1> HIDE DEF e
<1>4. ASSUME NEW x \in Spans \ {s}, Stored(d, x) # NoState
      PROVE  Stored(e, x) # NoState /\ KnowsAtLeast(Stored(e, x), Stored(d, x))
  <2>1. Stored(e, x) = Stored(d, x)
    BY <1>2, <1>3 DEF Stored
  <2> QED BY <1>4, <1>a, <2>1, StoredType, KnowsItself
<1>5. ASSUME Stored(d, s) # NoState
      PROVE  Stored(e, s) # NoState /\ KnowsAtLeast(Stored(e, s), Stored(d, s))
  <2>1. d.records[s] # NoState
    <3> SUFFICES ASSUME d.records[s] = NoState PROVE FALSE
      OBVIOUS
    <3>1. d.archived[s] # NoState
      BY <1>5 DEF Stored
    <3>2. Names(s, d.archived[s].trace)
      BY <1>o, <3>1 DEF IndexInv, TracesNamed
    <3>3. d.archived[s].trace = o.state.trace
      BY <3>2 DEF OneTracePerSpan, Names
    <3> QED BY <1>o, <3>1, <3>3, TierFacts
  <2>2. d.records[s] \in DomainSpanState
    BY <1>a, <1>o, <2>1, ColumnTypes
  <2> DEFINE y == MergeState(d.records[s], o.state)
  <2>3. y \in DomainSpanState /\ KnowsAtLeast(y, d.records[s])
    BY <1>o, <2>1, <2>2, MergeStateType, MergeKnows
  <2>4. y # NoState
    BY <2>3, Sentinels
  <2>5. e.records[s] = y
    BY <1>3, <2>1 DEF Reduced
  <2> HIDE DEF y
  <2> QED BY <2>1, <2>3, <2>4, <2>5 DEF Stored
<1> QED BY <1>4, <1>5 DEF KeepsHistory, e

(* Every verdict of ingest_in_transaction.                                 *)
LEMMA IngestItemRows ==
  ASSUME NEW d, DbInv(d), IndexInv(d), NEW i \in Items
  PROVE  LET e == IngestItem(d, i).db
         IN IndexInv(e) /\ (OneTracePerSpan => KeepsHistory(d, e))
<1> DEFINE st == i.stream
           c == i.cursor
           o == i.body
           t == o.state.trace
           r == IngestItem(d, i)
           h == Rehydrate(d, t)
<1> SUFFICES IndexInv(r.db) /\ (OneTracePerSpan => KeepsHistory(d, r.db))
  OBVIOUS
<1>a. DbTypeOK(d)
  BY DEF DbInv
<1>0. ASSUME NEW x, DbTypeOK(x), DOMAIN x = DbFields, IndexInv(x), KeepsHistory(d, x),
             NEW e, SameRows(x, e)
      PROVE  IndexInv(e) /\ KeepsHistory(d, e)
  <2>1. IndexInv(e)
    BY <1>0, IndexFrame
  <2>2. \A s \in Spans : Stored(e, s) = Stored(x, s)
    BY <1>0 DEF SameRows, Stored
  <2> QED BY <1>0, <2>1, <2>2 DEF KeepsHistory
<1>d. KeepsHistory(d, d) /\ SameRows(d, d) /\ DOMAIN d = DbFields
  BY <1>a, SameStored, HasColumns DEF SameRows
<1>e. ASSUME NEW x, DOMAIN x = DbFields, NEW kind, NEW code, NEW hash
      PROVE  LET y == InsertDisposition(x, st, c, kind, code, hash)
             IN SameRows(x, y) /\ SameRows(x, MarkDirty(y))
  <2> DEFINE y == InsertDisposition(x, st, c, kind, code, hash)
             m == MarkDirty(y)
  <2>1. Changes(x, y, {"cursors", "dispositions"})
    BY <1>e, DispositionColumns
  <2> HIDE DEF y
  <2>2. Changes(y, m, {"dirty"})
    BY <2>1, WriteColumns DEF Changes
  <2> HIDE DEF m
  <2> QED BY <2>1, <2>2 DEF Changes, DbFields, SameRows, y, m
<1>1. CASE i.type = "observation"
  <2>o. o \in Observations /\ t \in Traces
    BY <1>1, ObservationType DEF Items
  <2>1. \/ r.db = d
        \/ r.db = SuppressDuplicate(d, st, c, o).db
        \/ ~RehydrateClash(d, t) /\ r.db = IngestHot(d, h, st, c, o).db
    BY <1>1 DEF IngestItem, IngestObservation, Fail, Ok
  <2>2. CASE r.db = SuppressDuplicate(d, st, c, o).db
    <3>1. r.db = MarkDirty(Suppress(d, st, c, o, "duplicate_observation"))
      BY <2>2 DEF SuppressDuplicate, Ok
    <3>2. SameRows(d, r.db)
      BY <1>d, <1>e, <3>1 DEF Suppress
    <3> HIDE DEF r
    <3> QED BY <1>0, <1>a, <1>d, <3>2
  <2>3. CASE ~RehydrateClash(d, t) /\ r.db = IngestHot(d, h, st, c, o).db
    <3>1. DbInv(h) /\ h.control[t] = NoRow
      BY <2>3, <2>o, RehydrateSound
    <3>2. IndexInv(h)
      BY <2>3, <2>o, RehydrateIndex
    <3>3. KeepsHistory(d, h)
      <4>1. \A s \in Spans : Stored(h, s) = Stored(d, s)
        BY <1>a, <2>3, <2>o, RehydrateStored
      <4> QED BY <1>a, <4>1, SameStored
    <3> HIDE DEF h
    <3>4. DbTypeOK(h) /\ DOMAIN h = DbFields
      BY <3>1, HasColumns DEF DbInv
    <3>5. \/ r.db = d
          \/ r.db = MarkDirty(Suppress(h, st, c, o, "duplicate_observation"))
          \/ r.db = Suppress(h, st, c, o, "expired_trace")
          \/ r.db = InsertInput(h, st, c, o)
          \/ /\ r.db = CommitObservation(h, st, c, o)
             /\ ~TopologyError(RowsWith(h, o), o.span)
             /\ h.records[o.span] # NoState =>
                  /\ Compatible(h.records[o.span], o.state)
                  /\ ~MergeConflict(h.records[o.span], o.state)
             /\ ~Expired(h, t)
      <4> HIDE DEF r
      <4> QED BY <2>3 DEF IngestHot, SuppressDuplicate, SuppressExpired, Ok, Fail
    <3>6. CASE r.db \in {MarkDirty(Suppress(h, st, c, o, "duplicate_observation")),
                         Suppress(h, st, c, o, "expired_trace")}
      <4>1. SameRows(h, r.db)
        BY <1>e, <3>4, <3>6 DEF Suppress
      <4> HIDE DEF r
      <4> QED BY <1>0, <3>2, <3>3, <3>4, <4>1
    <3>7. CASE r.db = InsertInput(h, st, c, o)
      <4>1. Changes(h, r.db, {"cursors", "inputs", "dirty"})
        BY <3>4, <3>7, InputColumns
      <4> HIDE DEF r
      <4>2. SameRows(h, r.db)
        BY <4>1 DEF Changes, DbFields, SameRows
      <4> QED BY <1>0, <3>2, <3>3, <3>4, <4>2
    <3>8. CASE /\ r.db = CommitObservation(h, st, c, o)
               /\ ~TopologyError(RowsWith(h, o), o.span)
               /\ h.records[o.span] # NoState =>
                    /\ Compatible(h.records[o.span], o.state)
                    /\ ~MergeConflict(h.records[o.span], o.state)
               /\ ~Expired(h, t)
      <4>0. st \in Streams
        BY DEF Items
      <4> HIDE DEF r
      <4>1. IndexInv(r.db)
        BY <2>o, <3>1, <3>2, <3>8, <4>0, CommitIndex
      <4>2. ASSUME OneTracePerSpan PROVE KeepsHistory(d, r.db)
        <5>1. KeepsHistory(h, r.db)
          BY <2>o, <3>1, <3>2, <3>8, <4>2, CommitHistory
        <5>2. DbTypeOK(r.db)
          BY IngestItemSound DEF Sound, DbInv, r
        <5> QED BY <1>a, <3>3, <3>4, <5>1, <5>2, HistoryTransitive
      <4> QED BY <4>1, <4>2
    <3> QED BY <1>d, <3>5, <3>6, <3>7, <3>8
  <2> QED BY <1>d, <2>1, <2>2, <2>3
<1>2. CASE i.type # "observation"
  <2>1. r.db = d \/ r.db = InsertDisposition(d, st, c, o.kind, o.code, o.hash)
    BY <1>2 DEF IngestItem, IngestDisposition, Ok, Fail
  <2>2. SameRows(d, r.db)
    BY <1>d, <1>e, <2>1
  <2> HIDE DEF r
  <2> QED BY <1>0, <1>a, <1>d, <2>2
<1> QED BY <1>1, <1>2

(* What a step of ingest guarantees of the tables. A disposition may be    *)
(* pruned by the one that follows it in the batch when only one is kept.   *)
IngestOK(d, e) ==
  /\ LedgerInv(e)
  /\ CapsInv(e)
  /\ e.receipts = d.receipts
  /\ IndexInv(e)
  /\ MaxDispositions > 1 => Covers(d, e)
  /\ OneTracePerSpan => KeepsHistory(d, e)

(* One item.                                                               *)
LEMMA IngestItemOK ==
  ASSUME NEW d, DbInv(d), LedgerInv(d), CapsInv(d), IndexInv(d), NEW i \in Items
  PROVE  IngestOK(d, IngestItem(d, i).db)
<1> DEFINE e == IngestItem(d, i).db
<1>1. DbTypeOK(d)
  BY DEF DbInv
<1>2. Ingested(d, e)
  BY <1>1, IngestItemIngested
<1>3. IndexInv(e) /\ (OneTracePerSpan => KeepsHistory(d, e))
  BY IngestItemRows
<1> HIDE DEF e
<1>4. LedgerInv(e) /\ CapsInv(e) /\ e.receipts = d.receipts
  BY <1>1, <1>2, IngestedLedger, IngestedCaps DEF Ingested
<1>5. MaxDispositions > 1 => Covers(d, e)
  BY <1>1, <1>2, IngestedCovers
<1> QED BY <1>3, <1>4, <1>5 DEF IngestOK, e

(* A batch of two in one transaction.                                      *)
LEMMA IngestPairOK ==
  ASSUME NEW d, DbInv(d), LedgerInv(d), CapsInv(d), IndexInv(d),
         NEW i \in Items, NEW j \in Items
  PROVE  IngestOK(d, IngestPair(d, i, j).db)
<1> DEFINE m == IngestItem(d, i).db
           e == IngestItem(m, j).db
           r == IngestPair(d, i, j).db
<1>0. r = d \/ r = e
  BY DEF IngestPair, Fail
<1>1. DbInv(m) /\ IngestOK(d, m) /\ Ingested(d, m)
  BY IngestItemSound, IngestItemOK, IngestItemIngested DEF Sound, DbInv
<1> HIDE DEF m, r
<1>2. DbInv(e) /\ IngestOK(m, e) /\ Ingested(m, e)
  BY <1>1, IngestItemSound, IngestItemOK, IngestItemIngested DEF Sound, DbInv, IngestOK
<1> HIDE DEF e
<1>3. DbTypeOK(d) /\ DbTypeOK(m) /\ DbTypeOK(e)
  BY <1>1, <1>2 DEF DbInv
<1>4. MaxDispositions > 1 => Covers(d, e)
  BY <1>1, <1>2, <1>3, TwiceCovers DEF IngestOK
<1>5. OneTracePerSpan => KeepsHistory(d, e)
  BY <1>1, <1>2, <1>3, HistoryTransitive DEF IngestOK
<1>6. IngestOK(d, e)
  BY <1>1, <1>2, <1>4, <1>5 DEF IngestOK
<1>7. IngestOK(d, d)
  <2>1. MaxDispositions > 1 => Covers(d, d)
    BY <1>3, IngestedUnchanged, IngestedCovers
  <2>2. KeepsHistory(d, d)
    BY <1>3, SameStored
  <2> QED BY <2>1, <2>2 DEF IngestOK
<1> QED BY <1>0, <1>6, <1>7 DEF r

(* A span is not held twice: it would be under the same trace.             *)
LEMMA SpanInOneTier ==
  ASSUME NEW d, DbInv(d), IndexInv(d), OneTracePerSpan, NEW s \in Spans
  PROVE  d.records[s] = NoState \/ d.archived[s] = NoState
<1> SUFFICES ASSUME d.records[s] # NoState, d.archived[s] # NoState PROVE FALSE
  OBVIOUS
<1>1. Names(s, d.records[s].trace) /\ Names(s, d.archived[s].trace)
  BY DEF IndexInv, TracesNamed
<1>2. d.records[s].trace = d.archived[s].trace
  BY <1>1 DEF Names, OneTracePerSpan
<1>3. d.records[s].trace \in Traces
  BY ColumnTypes DEF DbInv
<1> QED BY <1>2, <1>3, TierFacts

(* purge_trace leaves a tombstone that the cap does not take at once.      *)
LEMMA EntombedExpired ==
  ASSUME NEW rows, Numbered(rows), MaxGuards > 0, NEW t
  PROVE  \E x \in Entombed(rows, t) : x.trace = t
<1> DEFINE row == [trace |-> t, seq |-> NextSeq(rows)]
           all == {x \in rows : x.trace # t} \cup {row}
<1>1. NextSeq(rows) \in Nat /\ \A r \in rows : r.seq < NextSeq(rows)
  BY NextSeqAbove
<1>2. \A r \in rows : r.seq \in Nat
  BY DEF Numbered
<1>3. row.seq = NextSeq(rows) /\ row.trace = t
  OBVIOUS
<1>n. MaxGuards \in Nat
  BY StoreAssumption
<1> HIDE DEF row
<1>4. row \in all /\ (\A r \in all : r.seq <= row.seq) /\ \A r \in all : r.seq \in Nat
  BY <1>1, <1>2, <1>3
<1> HIDE DEF all
<1>5. row \in Newest(all, MaxGuards)
  BY <1>4, <1>n, NewestHoldsRow
<1> QED BY <1>3, <1>5 DEF Entombed, all, row

(* What a maintenance transaction may do to a stored state: keep it, or    *)
(* remove it with its trace, which the pass found old enough.              *)
Outlived(d, e, s, at) ==
  /\ Stored(e, s) = NoState
  /\ Expired(e, Stored(d, s).trace)
  /\ ObservedAt(Stored(d, s)) <= Cutoff(at, DeleteAge)

MoveKeeps(d, e, at) ==
  \A s \in Spans : Stored(d, s) # NoState =>
    Stored(e, s) = Stored(d, s) \/ Outlived(d, e, s, at)

(* Deleting a trace whose last observation is past the threshold.          *)
LEMMA PurgeHistory ==
  ASSUME NEW d, DbInv(d), IndexInv(d), CapsInv(d), OneTracePerSpan, MaxGuards > 0,
         NEW c \in Candidates, Reload(d, c) # NoRow, NEW at \in Nat,
         Reload(d, c).latest <= Cutoff(at, DeleteAge)
  PROVE  MoveKeeps(d, Purge(d, c), at)
<1> DEFINE t == c.trace
           e == Purge(d, c)
           b == DeleteHot(d, {t})
           k == DropArchived(d, t)
           limit == Cutoff(at, DeleteAge)
<1>a. DbTypeOK(d) /\ t \in Traces /\ limit \in Nat
  <2>1. DeleteAge \in Nat
    BY StoreAssumption
  <2> QED BY <2>1 DEF DbInv, Candidates, Cutoff
<1>1. Expired(e, t)
  <2>1. e.tombstones = Entombed(d.tombstones, t)
    BY <1>a, PurgeColumns
  <2>2. Numbered(d.tombstones)
    BY DEF CapsInv
  <2> HIDE DEF e, t
  <2> QED BY <2>1, <2>2, EntombedExpired DEF Expired
<1> SUFFICES ASSUME NEW s \in Spans, Stored(d, s) # NoState
             PROVE  Stored(e, s) = Stored(d, s) \/ Outlived(d, e, s, at)
  BY DEF MoveKeeps
<1>2. d.records[s] = NoState \/ d.archived[s] = NoState
  BY SpanInOneTier
<1>3. CASE c.tier = "hot"
  <2>1. Reload(d, c) = d.index[t]
    BY <1>3 DEF Reload
  <2>2. /\ Changes(b, e, {"guards", "tombstones"})
        /\ Changes(d, b, {"inputs", "observations", "unresolved", "records", "index"})
        /\ b.records[s] = IF s \in HotIn(d, {t}) THEN NoState ELSE d.records[s]
    BY <1>3, <1>a, PurgeColumns, DeleteHotColumns
  <2> HIDE DEF e, b, limit, t
  <2>3. e.archived = d.archived /\ e.records = b.records
    BY <2>2 DEF Changes, DbFields
  <2>4. CASE d.records[s] # NoState /\ d.records[s].trace = t
    <3>1. e.records[s] = NoState
      BY <2>2, <2>3, <2>4, HotInTraces
    <3>2. Stored(e, s) = NoState /\ Stored(d, s) = d.records[s]
      BY <1>2, <2>3, <2>4, <3>1 DEF Stored
    <3>3. d.index[t].latest \in Nat /\ ObservedAt(d.records[s]) \in Nat
      BY <1>a, <2>1, <2>4, ColumnTypes
    <3>4. ObservedAt(d.records[s]) <= d.index[t].latest
      BY <2>4 DEF IndexInv, LatestIsLatest
    <3>5. ObservedAt(d.records[s]) <= limit
      BY <1>a, <2>1, <3>3, <3>4 DEF limit
    <3> QED BY <1>1, <2>4, <3>2, <3>5 DEF Outlived, limit
  <2>5. CASE ~(d.records[s] # NoState /\ d.records[s].trace = t)
    <3>1. e.records[s] = d.records[s]
      BY <2>2, <2>3, <2>5, HotInTraces
    <3> QED BY <2>3, <3>1 DEF Stored
  <2> QED BY <2>4, <2>5 DEF e
<1>4. CASE c.tier # "hot"
  <2>1. d.control[t] # NoRow /\ Reload(d, c).latest = d.control[t].latest
    BY <1>4 DEF Reload
  <2>2. /\ Changes(k, e, {"tombstones"})
        /\ Changes(d, k, {"control", "archived"})
        /\ k.archived[s] = IF s \in ArchivedSpans(d, t) THEN NoState ELSE d.archived[s]
    BY <1>4, <1>a, PurgeColumns, DropArchivedColumns
  <2> HIDE DEF e, k, limit, t
  <2>3. e.records = d.records /\ e.archived = k.archived
    BY <2>2 DEF Changes, DbFields
  <2>4. CASE d.archived[s] # NoState /\ d.archived[s].trace = t
    <3>1. e.archived[s] = NoState
      BY <2>2, <2>3, <2>4 DEF ArchivedSpans
    <3>2. Stored(e, s) = NoState /\ Stored(d, s) = d.archived[s]
      BY <1>2, <2>3, <2>4, <3>1 DEF Stored
    <3>3. d.control[t].latest \in Nat /\ ObservedAt(d.archived[s]) \in Nat
      BY <1>a, <2>1, <2>4, ColumnTypes
    <3>4. ObservedAt(d.archived[s]) <= d.control[t].latest
      BY <2>4 DEF IndexInv, LatestIsLatest
    <3>5. ObservedAt(d.archived[s]) <= limit
      BY <1>a, <2>1, <3>3, <3>4 DEF limit
    <3> QED BY <1>1, <2>4, <3>2, <3>5 DEF Outlived, limit
  <2>5. CASE ~(d.archived[s] # NoState /\ d.archived[s].trace = t)
    <3>1. e.archived[s] = d.archived[s]
      BY <2>2, <2>3, <2>5 DEF ArchivedSpans
    <3> QED BY <2>3, <3>1 DEF Stored
  <2> QED BY <2>4, <2>5 DEF e
<1> QED BY <1>3, <1>4

(* The moves between tiers carry every state along.                        *)
LEMMA BareMoveHistory ==
  ASSUME NEW d, DbInv(d), IndexInv(d), CapsInv(d), OneTracePerSpan, MaxGuards > 0,
         NEW c \in Candidates, Reload(d, c) # NoRow, NEW at \in Nat, NEW tr,
         tr = "delete" => Reload(d, c).latest <= Cutoff(at, DeleteAge)
  PROVE  MoveKeeps(d, BareMove(d, c, tr), at)
<1> DEFINE t == c.trace
           m == BareMove(d, c, tr)
           b == DeleteHot(d, {t})
<1>a. DbTypeOK(d) /\ t \in Traces
  BY DEF DbInv, Candidates
<1>1. CASE tr = "delete"
  <2>1. m = Purge(d, c)
    BY <1>1 DEF BareMove
  <2> HIDE DEF m
  <2> QED BY <1>1, <2>1, PurgeHistory DEF m
<1>2. CASE tr # "delete" /\ c.tier = "hot"
  <2>1. m = ArchiveHot(d, t, tr)
    BY <1>2 DEF BareMove
  <2>2. /\ Changes(b, m, {"control", "archived", "guards"})
        /\ Changes(d, b, {"inputs", "observations", "unresolved", "records", "index"})
        /\ \A s \in Spans :
             /\ b.records[s] = IF s \in HotIn(d, {t}) THEN NoState ELSE d.records[s]
             /\ m.archived[s] = IF s \in HotSpans(d, t) THEN d.records[s] ELSE d.archived[s]
    BY <1>a, <2>1, ArchiveHotColumns, DeleteHotColumns
  <2> HIDE DEF m, b, t
  <2>3. m.records = b.records
    BY <2>2 DEF Changes, DbFields
  <2>4. \A s \in Spans : s \in HotIn(d, {t}) <=> s \in HotSpans(d, t)
    BY HotInTraces DEF HotSpans
  <2>5. \A s \in HotSpans(d, t) : d.records[s] # NoState
    BY DEF HotSpans
  <2>6. \A s \in Spans : Stored(m, s) = Stored(d, s)
    BY <2>2, <2>3, <2>4, <2>5 DEF Stored
  <2> QED BY <2>6 DEF MoveKeeps, m
<1>3. CASE tr # "delete" /\ c.tier # "hot"
  <2>1. m = [d EXCEPT !.control[t].tier = "cold"] /\ d.control[t] # NoRow
    BY <1>3 DEF BareMove, Reload
  <2>2. Changes(d, m, {"control"})
    BY <1>a, <2>1, CoolColumns
  <2> HIDE DEF m
  <2>3. m.records = d.records /\ m.archived = d.archived
    BY <2>2 DEF Changes, DbFields
  <2> QED BY <2>3 DEF MoveKeeps, Stored, m
<1> QED BY <1>1, <1>2, <1>3

(* The marks of the transaction change no stored state.                    *)
LEMMA MoveHistory ==
  ASSUME NEW d, DbInv(d), IndexInv(d), CapsInv(d), OneTracePerSpan, MaxGuards > 0,
         NEW c \in Candidates, Reload(d, c) # NoRow, NEW at \in Nat, NEW tr,
         tr = "delete" => Reload(d, c).latest <= Cutoff(at, DeleteAge)
  PROVE  MoveKeeps(d, MoveTrace(d, c, tr), at)
<1> DEFINE m == BareMove(d, c, tr)
           e == MoveTrace(d, c, tr)
<1>1. MoveKeeps(d, m, at)
  BY BareMoveHistory
<1>2. Marks(m, e)
  BY MoveMarks DEF DbInv
<1> HIDE DEF m, e
<1>3. e.records = m.records /\ e.archived = m.archived /\ e.tombstones = m.tombstones
  BY <1>2 DEF Marks, Changes, DbFields
<1>4. \A s \in Spans : Stored(e, s) = Stored(m, s)
  BY <1>3 DEF Stored
<1>5. \A x : Expired(e, x) = Expired(m, x)
  BY <1>3 DEF Expired
<1> QED BY <1>1, <1>4, <1>5 DEF MoveKeeps, Outlived, e

(* Retention removes the hot states of the selected traces, nothing else.  *)
LEMMA RetainHistory ==
  ASSUME NEW d, DbInv(d), IndexInv(d), OneTracePerSpan, NEW plan_, NEW path,
         Selected(plan_) \in SUBSET Traces
  PROVE  LET e == RetainCommit(d, plan_, path)
         IN \A s \in Spans : Stored(d, s) # NoState =>
              \/ Stored(e, s) = Stored(d, s)
              \/ /\ Stored(e, s) = NoState
                 /\ s \in SpansOf(d, plan_) /\ Stored(d, s) = d.records[s]
<1> DEFINE e == RetainCommit(d, plan_, path)
           T == Selected(plan_)
           b == DeleteHot(d, T)
<1>1. /\ Changes(b, e, {"dirty", "generation", "epoch", "receipts", "guards"})
      /\ Changes(d, b, {"inputs", "observations", "unresolved", "records", "index"})
      /\ \A s \in Spans : b.records[s] = IF s \in HotIn(d, T) THEN NoState ELSE d.records[s]
  BY RetainColumns, DeleteHotColumns DEF DbInv
<1>2. SpansOf(d, plan_) = HotIn(d, T)
  BY DEF SpansOf, HotIn
<1> HIDE DEF e, b, T
<1>3. e.records = b.records /\ e.archived = d.archived
  BY <1>1 DEF Changes, DbFields
<1> SUFFICES ASSUME NEW s \in Spans, Stored(d, s) # NoState
             PROVE  \/ Stored(e, s) = Stored(d, s)
                    \/ /\ Stored(e, s) = NoState
                       /\ s \in SpansOf(d, plan_) /\ Stored(d, s) = d.records[s]
  BY DEF e
<1>4. CASE s \in HotIn(d, T)
  <2>1. d.records[s] # NoState
    BY <1>4, HotInTraces
  <2>2. d.archived[s] = NoState
    BY <2>1, SpanInOneTier
  <2>3. e.records[s] = NoState
    BY <1>1, <1>3, <1>4
  <2> QED BY <1>2, <1>3, <1>4, <2>1, <2>2, <2>3 DEF Stored
<1>5. CASE s \notin HotIn(d, T)
  BY <1>1, <1>3, <1>5 DEF Stored
<1> QED BY <1>4, <1>5
-----------------------------------------------------------------------------
(* The steps of the system.                                                *)

(* What the tables say of each other.                                      *)
TablesInv == LedgerInv(db) /\ CapsInv(db) /\ ReceiptInv(db) /\ IndexInv(db)

(* The progress of the calls in memory.                                    *)
PassTyped == pass # NoPass => DOMAIN pass = {"at", "todo", "touched"} /\ pass.at \in Nat

PlanTyped == plan # NoPlan => plan \in Plans

RetiringTyped ==
  retiring # NoPlan => /\ DOMAIN retiring = {"plan", "path", "stage"}
                       /\ retiring.path \in Paths /\ plan # NoPlan

(* The inductive form of ReceiptHasArchive.                                *)
ReceiptsBacked ==
  \A r \in db.receipts : /\ r.path \in Paths
                         /\ archives[r.path] # NoFile
                         /\ archives[r.path].plan = r.plan

CallsInv == PassTyped /\ PlanTyped /\ RetiringTyped /\ ReceiptsBacked

(* What every step guarantees: SpanHistoryMonotone, for one step.          *)
HistoryStep ==
  \A s \in Spans : Stored(db, s) # NoState =>
    \/ Stored(db', s) # NoState /\ KnowsAtLeast(Stored(db', s), Stored(db, s))
    \/ /\ Stored(db', s) = NoState
       /\ \/ /\ pass # NoPass /\ Expired(db', Stored(db, s).trace)
             /\ ObservedAt(Stored(db, s)) <= Cutoff(pass.at, DeleteAge)
          \/ \E p \in Paths : /\ archives'[p] # NoFile
                              /\ <<s, Stored(db, s)>> \in archives'[p].entries

(* The tables, the ledgers and the history, for one step.                  *)
TablesStep ==
  /\ TablesInv'
  /\ MaxDispositions > 1 => Covers(db, db')
  /\ OneTracePerSpan /\ MaxGuards > 0 => HistoryStep

(* A commit of ingest.                                                     *)
LEMMA IngestTables ==
  ASSUME TablesInv, IngestOK(db, db')
  PROVE  TablesStep /\ db'.receipts = db.receipts
<1>1. db'.receipts = db.receipts
  BY DEF IngestOK
<1>2. ReceiptInv(db')
  BY <1>1 DEF TablesInv, ReceiptInv
<1>3. TablesInv'
  BY <1>2 DEF TablesInv, IngestOK
<1>4. MaxDispositions > 1 => Covers(db, db')
  BY DEF IngestOK
<1>5. OneTracePerSpan => HistoryStep
  BY DEF IngestOK, KeepsHistory, HistoryStep
<1> QED BY <1>1, <1>3, <1>4, <1>5 DEF TablesStep

(* A step that writes bookkeeping columns at most.                         *)
LEMMA MarksTables ==
  ASSUME StoreInv, TablesInv, Marks(db, db')
  PROVE  TablesStep /\ db'.receipts = db.receipts
<1>0. DbTypeOK(db)
  BY DEF StoreInv, TypeOK
<1>1. /\ SameLedgers(db, db') /\ SameRows(db, db') /\ db'.guards = db.guards
      /\ db'.tombstones = db.tombstones /\ db'.receipts = db.receipts
  BY DEF Marks, Changes, DbFields, SameLedgers, SameRows
<1>2. Ingested(db, db')
  BY <1>1 DEF Ingested
<1>3. LedgerInv(db') /\ CapsInv(db')
  BY <1>0, <1>2, IngestedLedger, IngestedCaps DEF TablesInv
<1>4. IndexInv(db')
  BY <1>1, IndexFrame DEF TablesInv
<1>5. MaxDispositions > 1 => Covers(db, db')
  BY <1>0, <1>2, IngestedCovers DEF TablesInv
<1>6. KeepsHistory(db, db')
  <2>1. \A s \in Spans : Stored(db', s) = Stored(db, s)
    BY <1>1 DEF SameRows, Stored
  <2> QED BY <1>0, <2>1, SameStored
<1>7. IngestOK(db, db')
  BY <1>1, <1>3, <1>4, <1>5, <1>6 DEF IngestOK
<1> QED BY <1>7, IngestTables

(* A step that leaves the database alone.                                  *)
LEMMA QuietTables ==
  ASSUME StoreInv, TablesInv, db' = db
  PROVE  TablesStep /\ db'.receipts = db.receipts
<1>1. Marks(db, db')
  BY HasColumns DEF StoreInv, TypeOK, Marks, Changes
<1> QED BY <1>1, MarksTables

(* The writes outside ingest that touch bookkeeping columns.               *)
LEMMA MarkedTables ==
  ASSUME StoreInv, TablesInv, NEW n,
         \/ db' = [db EXCEPT !.dirty = FALSE]
         \/ db' = AdvanceGeneration(db)
         \/ db' = [db EXCEPT !.acknowledged = n]
  PROVE  TablesStep /\ db'.receipts = db.receipts
<1>1. DOMAIN db = DbFields
  BY HasColumns DEF StoreInv, TypeOK
<1>2. Marks(db, db')
  BY <1>1 DEF Marks, Changes, DbFields, AdvanceGeneration
<1> QED BY <1>2, MarksTables

(* A commit that only takes rows out of the ledgers.                       *)
LEMMA ShrinkTables ==
  ASSUME StoreInv, TablesInv, Shrinks(db, db'), ReceiptInv(db'), IndexInv(db'),
         OneTracePerSpan /\ MaxGuards > 0 => HistoryStep
  PROVE  TablesStep
<1>1. LedgerInv(db') /\ CapsInv(db')
  BY ShrinksLedger, ShrinksCaps DEF TablesInv
<1>2. Covers(db, db')
  <2>1. db'.cursors = db.cursors
    BY DEF Shrinks
  <2>2. \A st \in Streams : db.cursors[st] \in Nat
    BY StoreAssumption DEF StoreInv, TypeOK, DbTypeOK
  <2>3. \A st \in Streams : /\ db.cursors[st] >= db.cursors[st]
                            /\ (db.cursors[st] + 1) .. db.cursors[st] = {}
    BY <2>2
  <2> QED BY <2>1, <2>3 DEF Covers
<1> QED BY <1>1, <1>2 DEF TablesStep, TablesInv

(* maintain_lifecycle_inner for one candidate.                             *)
LEMMA MaintainTables ==
  ASSUME StoreInv, TablesInv, CallsInv, NEW c \in Candidates, MaintainTrace(c)
  PROVE  TablesStep /\ db'.receipts = db.receipts
<1> DEFINE tr == TransitionOf(c)
           m == BareMove(db, c, tr)
<1>0. DbInv(db) /\ DbTypeOK(db) /\ IndexInv(db) /\ CapsInv(db)
  BY DEF StoreInv, TypeOK, DbInv, TablesInv
<1>1. /\ tr # "none" /\ Reload(db, c) # NoRow
      /\ ~ArchiveClash(db, c, tr) /\ db' = MoveTrace(db, c, tr)
      /\ pass # NoPass
  BY DEF MaintainTrace, Admitted, TransitionOf, Commits
<1>2. tr = "delete" => Reload(db, c).latest <= Cutoff(pass.at, DeleteAge)
  BY <1>1 DEF TransitionOf, TransitionFor
<1>3. pass.at \in Nat
  BY <1>1 DEF CallsInv, PassTyped
<1> HIDE DEF tr
<1>4. Shrinks(db, m) /\ m.receipts = db.receipts /\ Marks(m, db')
  BY <1>0, <1>1, BareMoveShrinks, MoveMarks
<1> HIDE DEF m
<1>5. Shrinks(db, db') /\ db'.receipts = db.receipts
  BY <1>4, ShrinksMarked
<1>6. IndexInv(db')
  BY <1>0, <1>1, MoveIndex
<1>7. ReceiptInv(db')
  BY <1>5 DEF TablesInv, ReceiptInv
<1>8. ASSUME OneTracePerSpan, MaxGuards > 0 PROVE HistoryStep
  <2>1. MoveKeeps(db, db', pass.at)
    BY <1>0, <1>1, <1>2, <1>3, <1>8, MoveHistory
  <2> SUFFICES ASSUME NEW s \in Spans, Stored(db, s) # NoState
               PROVE  \/ Stored(db', s) # NoState /\ KnowsAtLeast(Stored(db', s), Stored(db, s))
                      \/ /\ Stored(db', s) = NoState
                         /\ Expired(db', Stored(db, s).trace)
                         /\ ObservedAt(Stored(db, s)) <= Cutoff(pass.at, DeleteAge)
    BY <1>1 DEF HistoryStep
  <2>2. KnowsAtLeast(Stored(db, s), Stored(db, s))
    BY <1>0, StoredType, KnowsItself
  <2>3. Stored(db', s) = Stored(db, s) \/ Outlived(db, db', s, pass.at)
    BY <2>1 DEF MoveKeeps
  <2> QED BY <2>2, <2>3 DEF Outlived
<1> QED BY <1>5, <1>6, <1>7, <1>8, ShrinkTables

(* The plan that select_retention derives.                                 *)
LEMMA PlanType ==
  ASSUME NEW d, IndexInv(d), NEW cutoff \in Cutoffs
  PROVE  RetentionPlan(d, cutoff) \in Plans
<1> DEFINE events(t) == {<<o.id, o.hash>> : o \in EventsOf(d, t)}
           group(t) == [trace |-> t, events |-> events(t)]
           groups == {group(t) : t \in Eligible(d, cutoff)}
<1>1. \A t : events(t) \in SUBSET EventKeys
  BY DEF EventsOf, IndexInv, EventsTyped
<1> HIDE DEF events
<1>2. \A t \in Traces : group(t) \in [trace: Traces, events: SUBSET EventKeys]
  BY <1>1
<1>3. Eligible(d, cutoff) \subseteq Traces
  BY DEF Eligible
<1> HIDE DEF group
<1>4. groups \in SUBSET [trace: Traces, events: SUBSET EventKeys]
  BY <1>2, <1>3
<1>5. RetentionPlan(d, cutoff) = [cutoff |-> cutoff, groups |-> groups]
  BY DEF RetentionPlan, groups, group, events
<1> HIDE DEF groups
<1> QED BY <1>4, <1>5 DEF Plans

(* write_archive writes an archive.                                        *)
LEMMA ArchiveType ==
  ASSUME NEW d, DbTypeOK(d), NEW plan_ \in Plans
  PROVE  /\ ArchiveFile(d, plan_) # NoFile
         /\ ArchiveFile(d, plan_).plan = plan_
         /\ \A s \in SpansOf(d, plan_) : <<s, d.records[s]>> \in ArchiveFile(d, plan_).entries
<1> DEFINE entries == {<<s, d.records[s]>> : s \in SpansOf(d, plan_)}
<1>1. \A s \in SpansOf(d, plan_) : s \in Spans /\ d.records[s] # NoState
  BY DEF SpansOf, HotSpans
<1>2. \A s \in SpansOf(d, plan_) : <<s, d.records[s]>> \in Spans \X DomainSpanState
  BY <1>1, ColumnTypes
<1>3. entries \in SUBSET (Spans \X DomainSpanState)
  BY <1>2
<1>4. ArchiveFile(d, plan_) = [plan |-> plan_, entries |-> entries]
  BY DEF ArchiveFile
<1>5. \A s \in SpansOf(d, plan_) : <<s, d.records[s]>> \in entries
  OBVIOUS
<1> HIDE DEF entries
<1>6. ArchiveFile(d, plan_) \in ArchiveFiles
  BY <1>3, <1>4 DEF ArchiveFiles
<1> QED BY <1>4, <1>5, <1>6, FileSentinelAssumption

(* apply_retention behind its checks: the archive, then the deletions and  *)
(* the receipt in one commit.                                              *)
LEMMA RetainTables ==
  ASSUME StoreInv, TablesInv, CallsInv, ApplyRetention
  PROVE  TablesStep /\ ReceiptsBacked'
<1> DEFINE path == retiring.path
           new == [plan |-> plan, path |-> path, compacted |-> FALSE,
                   seq |-> NextSeq(db.receipts)]
<1>0. DbInv(db) /\ DbTypeOK(db) /\ IndexInv(db) /\ ReceiptInv(db) /\ DOMAIN archives = Paths
  BY DEF StoreInv, TypeOK, DbInv, TablesInv
<1>1. /\ RetentionPlan(db, plan.cutoff) = plan /\ db' = RetainCommit(db, plan, path)
      /\ archives' = [archives EXCEPT ![path] = ArchiveFile(db, plan)]
      /\ archives[path] = NoFile /\ \A r \in db.receipts : r.compacted
      /\ retiring # NoPlan
  BY DEF ApplyRetention, MayRetain, Commits, Retiring
<1>2. path \in Paths /\ plan \in Plans
  BY <1>1 DEF CallsInv, RetiringTyped, PlanTyped
<1>3. Selected(plan) \in SUBSET Traces
  BY <1>2 DEF Plans, Selected
<1> HIDE DEF path
<1>4. Shrinks(db, db') /\ db'.receipts = db.receipts \cup {new}
  BY <1>0, <1>1, <1>3, RetainColumns
<1>5. ReceiptInv(db')
  BY <1>0, <1>1, <1>4, ReceiptAdded
<1>6. IndexInv(db')
  BY <1>0, <1>1, <1>3, RetainIndex
<1>7. /\ archives'[path] = ArchiveFile(db, plan)
      /\ \A p \in Paths \ {path} : archives'[p] = archives[p]
  BY <1>0, <1>1, <1>2
<1>8. /\ archives'[path] # NoFile /\ archives'[path].plan = plan
      /\ \A s \in SpansOf(db, plan) : <<s, db.records[s]>> \in archives'[path].entries
  BY <1>0, <1>2, <1>7, ArchiveType
<1>9. ReceiptsBacked'
  <2>1. \A r \in db.receipts : /\ r.path \in Paths \ {path} /\ archives[r.path] # NoFile
                               /\ archives[r.path].plan = r.plan
    BY <1>1 DEF CallsInv, ReceiptsBacked
  <2>2. new.plan = plan /\ new.path = path
    OBVIOUS
  <2> HIDE DEF new
  <2> QED BY <1>2, <1>4, <1>7, <1>8, <2>1, <2>2 DEF ReceiptsBacked
<1>10. ASSUME OneTracePerSpan PROVE HistoryStep
  <2> SUFFICES ASSUME NEW s \in Spans, Stored(db, s) # NoState
               PROVE  \/ Stored(db', s) # NoState /\ KnowsAtLeast(Stored(db', s), Stored(db, s))
                      \/ /\ Stored(db', s) = NoState
                         /\ <<s, Stored(db, s)>> \in archives'[path].entries
    BY <1>2, <1>8 DEF HistoryStep
  <2>1. KnowsAtLeast(Stored(db, s), Stored(db, s))
    BY <1>0, StoredType, KnowsItself
  <2>2. \/ Stored(db', s) = Stored(db, s)
        \/ /\ Stored(db', s) = NoState
           /\ s \in SpansOf(db, plan) /\ Stored(db, s) = db.records[s]
    BY <1>0, <1>1, <1>3, <1>10, RetainHistory
  <2> QED BY <1>8, <2>1, <2>2
<1> QED BY <1>4, <1>5, <1>6, <1>9, <1>10, ShrinkTables

(* The second transaction of finish_retention_receipt.                     *)
LEMMA CompactTables ==
  ASSUME StoreInv, TablesInv, CallsInv, db' = CompactReceipt(db, retiring.plan),
         archives' = archives
  PROVE  TablesStep /\ ReceiptsBacked'
<1>0. DbTypeOK(db) /\ ReceiptInv(db) /\ IndexInv(db)
  BY DEF StoreInv, TypeOK, TablesInv
<1>1. /\ Changes(db, db', {"receipts"}) /\ ReceiptInv(db')
      /\ \A r \in db'.receipts : \E q \in db.receipts : r.plan = q.plan /\ r.path = q.path
  BY <1>0, ReceiptCompacted
<1>2. /\ SameRows(db, db') /\ db'.cursors = db.cursors /\ db'.inputs = db.inputs
      /\ db'.dispositions = db.dispositions /\ db'.guards = db.guards
      /\ db'.tombstones = db.tombstones
  BY <1>1 DEF Changes, DbFields, SameRows
<1>3. IndexInv(db')
  BY <1>0, <1>2, IndexFrame
<1>4. HistoryStep
  <2>1. \A s \in Spans : Stored(db', s) = Stored(db, s)
    BY <1>2 DEF SameRows, Stored
  <2>2. KeepsHistory(db, db')
    BY <1>0, <2>1, SameStored
  <2> QED BY <2>2 DEF KeepsHistory, HistoryStep
<1>5. Shrinks(db, db')
  BY <1>2 DEF Shrinks
<1>6. TablesStep
  BY <1>1, <1>3, <1>4, <1>5, ShrinkTables
<1>7. ReceiptsBacked'
  BY <1>1 DEF CallsInv, ReceiptsBacked
<1> QED BY <1>6, <1>7

(* The archives stay, and so do the receipts.                              *)
LEMMA BackedFrame ==
  ASSUME ReceiptsBacked, db'.receipts = db.receipts, archives' = archives
  PROVE  ReceiptsBacked'
BY DEF ReceiptsBacked

(* The tables and the archives that receipts name.                         *)
TablesOK == TablesStep /\ ReceiptsBacked'

(* The tables, for every step.                                             *)
LEMMA TablesNext ==
  ASSUME StoreInv, TablesInv, CallsInv, [Next]_vars
  PROVE  TablesOK
<1>0. DbInv(db) /\ LedgerInv(db) /\ CapsInv(db) /\ IndexInv(db) /\ ReceiptsBacked
  BY DEF StoreInv, TypeOK, DbInv, TablesInv, CallsInv
<1>q. ASSUME db' = db, archives' = archives PROVE TablesOK
  BY <1>0, <1>q, QuietTables, BackedFrame DEF TablesOK
<1>m. ASSUME NEW n, archives' = archives,
             \/ db' = [db EXCEPT !.dirty = FALSE]
             \/ db' = AdvanceGeneration(db)
             \/ db' = [db EXCEPT !.acknowledged = n]
      PROVE  TablesOK
  BY <1>0, <1>m, MarkedTables, BackedFrame DEF TablesOK
<1>i. ASSUME IngestOK(db, db'), archives' = archives PROVE TablesOK
  BY <1>0, <1>i, IngestTables, BackedFrame DEF TablesOK
<1>1. CASE Tick
  BY <1>1, <1>q DEF Tick
<1>2. ASSUME NEW i \in Items, Ingest(i) PROVE TablesOK
  <2>1. db' = IngestItem(db, i).db /\ archives' = archives
    BY <1>2 DEF Ingest, Commits
  <2> QED BY <1>0, <1>i, <2>1, IngestItemOK
<1>3. ASSUME NEW i \in Items, NEW j \in Items, IngestBatch(i, j) PROVE TablesOK
  <2>1. db' = IngestPair(db, i, j).db /\ archives' = archives
    BY <1>3 DEF IngestBatch, Commits
  <2> QED BY <1>0, <1>i, <2>1, IngestPairOK
<1>4. CASE RebuildProjection
  BY <1>4, <1>m DEF RebuildProjection
<1>5. CASE CrashAfterRename
  BY <1>5, <1>q DEF CrashAfterRename
<1>6. CASE Crash
  BY <1>6, <1>q DEF Crash
<1>7. CASE Open
  BY <1>7, <1>q, <1>m DEF Open
<1>8. CASE MaintainBegin
  BY <1>8, <1>m DEF MaintainBegin, RetractReports, Commits
<1>9. ASSUME NEW c \in Candidates, MaintainSkip(c) PROVE TablesOK
  BY <1>9, <1>q DEF MaintainSkip
<1>10. ASSUME NEW c \in Candidates, MaintainTrace(c) PROVE TablesOK
  <2>1. archives' = archives
    BY <1>10 DEF MaintainTrace
  <2> QED BY <1>0, <1>10, <2>1, MaintainTables, BackedFrame DEF TablesOK
<1>11. ASSUME NEW c \in Candidates, MaintainInterrupted(c) PROVE TablesOK
  BY <1>11, <1>q DEF MaintainInterrupted
<1>12. CASE MaintainEnd
  BY <1>12, <1>q DEF MaintainEnd
<1>13. ASSUME NEW cutoff \in Cutoffs, PlanRetention(cutoff) PROVE TablesOK
  BY <1>13, <1>q DEF PlanRetention
<1>14. ASSUME NEW p \in Paths, BeginRetention(p) PROVE TablesOK
  BY <1>14, <1>m DEF BeginRetention, RetractReports, Commits
<1>15. CASE ApplyRetention
  BY <1>15, RetainTables DEF TablesOK
<1>16. CASE RetentionInterrupted
  <2>1. /\ db' = db /\ archives[retiring.path] = NoFile
        /\ archives' = [archives EXCEPT ![retiring.path] = ArchiveFile(db, plan)]
    BY <1>16 DEF RetentionInterrupted, MayRetain
  <2>2. ReceiptsBacked'
    BY <1>0, <2>1 DEF ReceiptsBacked
  <2>3. TablesStep
    BY <2>1, QuietTables
  <2> QED BY <2>2, <2>3 DEF TablesOK
<1>17. CASE ResumeRetention
  BY <1>17, <1>q DEF ResumeRetention
<1>18. CASE RefuseRetention
  BY <1>18, <1>q DEF RefuseRetention
<1>19. CASE FinishRebuild
  BY <1>19, <1>m DEF FinishRebuild
<1>20. CASE FinishCompact
  BY <1>20, CompactTables DEF FinishCompact, TablesOK
<1>21. ASSUME NEW r \in Renderers, RenderReport(r) PROVE TablesOK
  BY <1>21, <1>q DEF RenderReport
<1>22. ASSUME NEW r \in Renderers, AcknowledgeReport(r) PROVE TablesOK
  BY <1>22, <1>m DEF AcknowledgeReport
<1>23. CASE UNCHANGED vars
  BY <1>23, <1>q DEF vars
<1> QED
  BY <1>1, <1>2, <1>3, <1>4, <1>5, <1>6, <1>7, <1>8, <1>9, <1>10, <1>11, <1>12,
     <1>13, <1>14, <1>15, <1>16, <1>17, <1>18, <1>19, <1>20, <1>21, <1>22, <1>23
  DEF Next

(* The calls in progress, for every step.                                  *)
LEMMA CallsNext ==
  ASSUME StoreInv, TablesInv, CallsInv, [Next]_vars
  PROVE  PassTyped' /\ PlanTyped' /\ RetiringTyped'
<1>1. PassTyped'
  <2>0. PassTyped /\ now \in Nat
    BY SystemAssumption DEF CallsInv, StoreInv, TypeOK
  <2>1. ASSUME pass' = pass PROVE PassTyped'
    BY <2>0, <2>1 DEF PassTyped
  <2>2. ASSUME pass' = NoPass PROVE PassTyped'
    BY <2>2 DEF PassTyped
  <2>3. ASSUME MaintainBegin PROVE PassTyped'
    BY <2>0, <2>3 DEF PassTyped, MaintainBegin
  <2>4. ASSUME NEW c \in Candidates, MaintainSkip(c) \/ MaintainTrace(c) PROVE PassTyped'
    BY <2>0, <2>4 DEF PassTyped, MaintainSkip, MaintainTrace
  <2>5. \/ pass' = pass \/ pass' = NoPass \/ MaintainBegin
        \/ \E c \in Candidates : MaintainSkip(c) \/ MaintainTrace(c)
    BY DEF Next, vars, Tick, Ingest, IngestBatch, RebuildProjection, CrashAfterRename,
           Crash, Open, MaintainInterrupted, MaintainEnd, PlanRetention, BeginRetention,
           ApplyRetention, RetentionInterrupted, ResumeRetention, RefuseRetention,
           FinishRebuild, FinishCompact, RenderReport, AcknowledgeReport, Dies
  <2> QED BY <2>1, <2>2, <2>3, <2>4, <2>5
<1>2. PlanTyped'
  <2>0. PlanTyped /\ IndexInv(db)
    BY DEF CallsInv, TablesInv
  <2>1. plan' = plan \/ \E cutoff \in Cutoffs : plan' = RetentionPlan(db, cutoff)
    BY DEF Next, vars, Tick, Ingest, IngestBatch, RebuildProjection, CrashAfterRename,
           Crash, Open, MaintainBegin, MaintainSkip, MaintainTrace, MaintainInterrupted,
           MaintainEnd, PlanRetention, BeginRetention, ApplyRetention,
           RetentionInterrupted, ResumeRetention, RefuseRetention, FinishRebuild,
           FinishCompact, RenderReport, AcknowledgeReport
  <2> QED BY <2>0, <2>1, PlanType DEF PlanTyped
<1>3. RetiringTyped'
  <2>0. RetiringTyped
    BY DEF CallsInv
  <2>1. ASSUME retiring' = retiring, plan' = plan PROVE RetiringTyped'
    BY <2>0, <2>1 DEF RetiringTyped
  <2>2. ASSUME retiring' = NoPlan PROVE RetiringTyped'
    BY <2>2 DEF RetiringTyped
  <2>3. ASSUME NEW p \in Paths, BeginRetention(p) PROVE RetiringTyped'
    BY <2>3 DEF RetiringTyped, BeginRetention
  <2>4. ASSUME ApplyRetention \/ ResumeRetention \/ FinishRebuild PROVE RetiringTyped'
    BY <2>0, <2>4 DEF RetiringTyped, ApplyRetention, ResumeRetention, FinishRebuild, Retiring
  <2>5. \/ retiring' = retiring /\ plan' = plan
        \/ retiring' = NoPlan
        \/ \E p \in Paths : BeginRetention(p)
        \/ ApplyRetention \/ ResumeRetention \/ FinishRebuild
    BY DEF Next, vars, Tick, Ingest, IngestBatch, RebuildProjection, CrashAfterRename,
           Crash, Open, MaintainBegin, MaintainSkip, MaintainTrace, MaintainInterrupted,
           MaintainEnd, PlanRetention, RetentionInterrupted, RefuseRetention,
           FinishCompact, RenderReport, AcknowledgeReport, Dies
  <2> QED BY <2>1, <2>2, <2>3, <2>4, <2>5
<1> QED BY <1>1, <1>2, <1>3

(* A set whose members are equal.                                          *)
LEMMA AtMostOne ==
  ASSUME NEW S, \A q, r \in S : q = r
  PROVE  Cardinality(S) <= 1
<1>1. CASE S = {}
  BY <1>1, FS_EmptySet
<1>2. CASE S # {}
  <2>1. PICK r \in S : TRUE
    BY <1>2
  <2>2. S = {r}
    BY <2>1
  <2>3. Cardinality({r}) = 1
    BY FS_Singleton
  <2> QED BY <2>2, <2>3
<1> QED BY <1>1, <1>2

(* An empty table.                                                         *)
LEMMA EmptyNumbered == Numbered({}) /\ Cardinality({}) = 0
BY FS_EmptySet DEF Numbered

(* The empty store.                                                        *)
LEMMA InitTables == ASSUME Init PROVE TablesInv /\ CallsInv
<1>1. /\ db.cursors = [s \in Streams |-> 0]
      /\ db.inputs = {} /\ db.dispositions = {} /\ db.observations = {}
      /\ db.records = [s \in Spans |-> NoState] /\ db.unresolved = {}
      /\ db.index = [t \in Traces |-> NoRow] /\ db.control = [t \in Traces |-> NoRow]
      /\ db.archived = [s \in Spans |-> NoState]
      /\ db.guards = {} /\ db.tombstones = {} /\ db.receipts = {}
  BY DEF Init, EmptyDb
<1>b. MaxDispositions \in Nat /\ MaxGuards \in Nat /\ MaxReceipts \in Nat
  BY StoreAssumption
<1>2. LedgerInv(db)
  BY <1>1 DEF LedgerInv, Ledger
<1>3. CapsInv(db)
  BY <1>1, <1>b, EmptyNumbered DEF CapsInv
<1>4. ReceiptInv(db)
  <2>1. {r \in db.receipts : r.compacted} = {}
    BY <1>1
  <2> QED BY <1>1, <1>b, <2>1, EmptyNumbered DEF ReceiptInv
<1>5. IndexInv(db)
  BY <1>1 DEF IndexInv, FlaggedIsHot, EventsTyped, EventsIndexed, CountsAgree, FlagsAgree,
              ArchiveCountsAgree, LatestIsLatest, TracesNamed
<1>6. CallsInv
  BY <1>1 DEF Init, CallsInv, PassTyped, PlanTyped, RetiringTyped, ReceiptsBacked
<1> QED BY <1>2, <1>3, <1>4, <1>5, <1>6 DEF TablesInv

(* The whole inductive invariant.                                          *)
AllInv == StoreInv /\ TablesInv /\ CallsInv

(* The invariant behind the theorems below.                                *)
THEOREM TablesInvariant == Spec => []AllInv
<1>1. Init => AllInv
  BY InitStore, InitTables DEF AllInv
<1>2. AllInv /\ [Next]_vars => AllInv'
  BY NextStep, TablesNext, CallsNext
  DEF AllInv, StepOK, TablesOK, TablesStep, CallsInv
<1> QED BY <1>1, <1>2, PTL DEF Spec

(* A cursor of a stream is accounted for at most once in the two ledgers   *)
(* that share a key space, and never ahead of the checkpoint, whatever is  *)
(* replayed, suppressed, pruned or deleted.                                *)
THEOREM LedgersAreExclusive == Spec => []LedgerExclusive
<1>1. AllInv => LedgerExclusive
  <2> SUFFICES ASSUME AllInv, NEW st \in Streams, NEW c \in 1 .. MaxCursor
               PROVE  LET rows == LedgerRow(db.inputs, st, c)
                                    \cup LedgerRow(db.dispositions, st, c)
                      IN Cardinality(rows) <= 1 /\ (rows # {} => c <= db.cursors[st])
    BY DEF LedgerExclusive
  <2> DEFINE rows == LedgerRow(db.inputs, st, c) \cup LedgerRow(db.dispositions, st, c)
  <2>1. \A r \in rows : r \in Ledger(db) /\ r.stream = st /\ r.cursor = c
    BY DEF LedgerRow, Ledger
  <2>2. \A q, r \in rows : q = r
    BY <2>1 DEF AllInv, TablesInv, LedgerInv
  <2>3. rows # {} => c <= db.cursors[st]
    BY <2>1 DEF AllInv, TablesInv, LedgerInv
  <2> HIDE DEF rows
  <2>4. Cardinality(rows) <= 1
    BY <2>2, AtMostOne
  <2> QED BY <2>3, <2>4 DEF rows
<1> QED BY <1>1, TablesInvariant, PTL

(* A checkpoint never moves past an input without a ledger row of it in    *)
(* the same commit, in a batch too. Two dispositions of one batch must not *)
(* prune each other; the code keeps MAX_ADAPTER_DISPOSITIONS = 100 000.    *)
THEOREM EveryCursorAccounted ==
  ASSUME MaxDispositions > 1
  PROVE  Spec => NoCursorSkipped
<1>1. AllInv /\ [Next]_vars =>
        [\A st \in Streams :
           /\ db'.cursors[st] >= db.cursors[st]
           /\ \A c \in (db.cursors[st] + 1) .. db'.cursors[st] :
                \/ LedgerRow(db'.inputs, st, c) # {}
                \/ LedgerRow(db'.dispositions, st, c) # {}]_vars
  BY TablesNext DEF AllInv, TablesOK, TablesStep, Covers
<1> QED BY <1>1, TablesInvariant, PTL DEF Spec, NoCursorSkipped

(* The tables that are capped by count stay capped, and one receipt at     *)
(* most is waiting for its compaction.                                     *)
THEOREM LedgersAreBounded == Spec => []BoundedLedgers
<1>1. AllInv => BoundedLedgers
  <2> SUFFICES ASSUME AllInv PROVE BoundedLedgers
    OBVIOUS
  <2> DEFINE open == {r \in db.receipts : ~r.compacted}
  <2>1. CapsInv(db) /\ ReceiptInv(db)
    BY DEF AllInv, TablesInv
  <2>2. \A q, r \in open : q = r
    BY <2>1 DEF ReceiptInv
  <2>3. Cardinality(open) <= 1
    BY <2>2, AtMostOne
  <2> QED BY <2>1, <2>3 DEF BoundedLedgers, CapsInv, ReceiptInv
<1> QED BY <1>1, TablesInvariant, PTL

(* The incrementally kept summary rows agree with the rows they stand for: *)
(* maintenance never meets the count mismatch that makes it refuse.        *)
THEOREM SummariesAgree == Spec => []IndexAgrees
<1>1. AllInv => IndexAgrees
  <2> SUFFICES ASSUME AllInv, NEW t \in Traces
               PROVE  LET S == HotSpans(db, t)
                          row == db.index[t]
                      IN /\ row # NoRow <=> S # {}
                         /\ row # NoRow =>
                              /\ row.count = Cardinality(S)
                              /\ row.unresolved <=> S \cap db.unresolved # {}
                              /\ \A o \in EventsOf(db, t) : o.at <= row.latest
                         /\ db.control[t] # NoRow =>
                              db.control[t].count = Cardinality(ArchivedSpans(db, t))
    BY DEF IndexAgrees
  <2>1. TierInv(db) /\ IndexInv(db)
    BY DEF AllInv, StoreInv, TablesInv
  <2>2. db.index[t] # NoRow <=> HotSpans(db, t) # {}
    BY <2>1 DEF TierInv, HotIsIndexed, IndexedIsHot, HotSpans
  <2>3. db.index[t] # NoRow =>
          /\ db.index[t].count = Cardinality(HotSpans(db, t))
          /\ db.index[t].unresolved <=> HotSpans(db, t) \cap db.unresolved # {}
    BY <2>1 DEF IndexInv, CountsAgree, FlagsAgree
  <2>4. \A o \in EventsOf(db, t) : o.at <= db.index[t].latest
    BY <2>1 DEF IndexInv, EventsIndexed, EventsOf
  <2>5. db.control[t] # NoRow => db.control[t].count = Cardinality(ArchivedSpans(db, t))
    BY <2>1 DEF IndexInv, ArchiveCountsAgree
  <2> QED BY <2>2, <2>3, <2>4, <2>5
<1> QED BY <1>1, TablesInvariant, PTL

(* A receipt always names a published archive of its own plan: the archive *)
(* precedes the commit that adds the receipt, and an occupied path is      *)
(* never written again.                                                    *)
THEOREM ReceiptsAreBacked == Spec => []ReceiptHasArchive
<1>1. AllInv => ReceiptHasArchive
  BY DEF AllInv, CallsInv, ReceiptsBacked, ReceiptHasArchive
<1> QED BY <1>1, TablesInvariant, PTL

(* What is known of a span only grows until an expiry that the pass found  *)
(* due, or an archive on disk, takes it over. Sources that derive the span *)
(* id from the session name one trace per span, as every adapter does; the *)
(* tombstone of a purge is only kept when any is.                          *)
THEOREM HistoryNeverShrinks ==
  ASSUME OneTracePerSpan, MaxGuards > 0
  PROVE  Spec => SpanHistoryMonotone
<1>1. AllInv /\ [Next]_vars => HistoryStep
  BY TablesNext DEF AllInv, TablesOK, TablesStep
<1>2. HistoryStep =>
        [\A s \in Spans :
           LET old == Stored(db, s)
               new == Stored(db', s)
           IN old # NoState =>
                \/ new # NoState /\ KnowsAtLeast(new, old)
                \/ /\ new = NoState
                   /\ \/ /\ pass # NoPass /\ Expired(db', old.trace)
                         /\ ObservedAt(old) <= Cutoff(pass.at, DeleteAge)
                      \/ \E p \in Paths : /\ archives'[p] # NoFile
                                          /\ <<s, old>> \in archives'[p].entries]_vars
  BY DEF HistoryStep
<1> QED BY <1>1, <1>2, TablesInvariant, PTL DEF Spec, SpanHistoryMonotone
=============================================================================
