------------------------- MODULE RequestCorrelation -------------------------
(***************************************************************************)
(* How the collector gives a model request and its response, which Codex   *)
(* reports as two log records of one or two exports, the same request id.  *)
(* A response names at most its conversation and model, so it is taken for *)
(* the oldest request outstanding there. Requests with an official id (or  *)
(* a replay identity) are recognised when an export is sent again: while   *)
(* they wait, and for some time after they were answered.                  *)
(*                                                                         *)
(* An export is worked on record by record in a copy of the state; the     *)
(* copy, the records and the cursor are committed in one transaction, and  *)
(* only then does the copy become the state in memory. The exporter may    *)
(* send anything again at any time.                                        *)
(*                                                                         *)
(* A request id is <<"raw", i>> or <<"hash", i>>, one the collector makes  *)
(* up <<"local", cursor>>. Waiting and answered requests are entries of    *)
(* one set, which "sequence" orders. paired and queued are the responses   *)
(* and requests committed, as far as they concern each other.              *)
(***************************************************************************)
EXTENDS Integers, FiniteSets, Sequences

CONSTANTS
  Exports,         \* sequences of records [kind, key, id, ok] that may arrive
  MaxRemembered,   \* MAX_PENDING_OTLP_REQUESTS
  MaxSnapshotBytes,\* MAX_PERSISTED_OTLP_CORRELATION_BYTES
  Ttl,             \* OTLP_REQUEST_CORRELATION_TTL_MS
  NoKey, NoId, NoExport,
  MaxDeliveries,   \* bound: exports received
  MaxClock         \* bound: time

VARIABLES
  memory,      \* the state in the collector
  snapshot,    \* the state in the store
  cursor,      \* the last cursor committed
  parsing,     \* the export being worked on
  clock, deliveries,
  paired,      \* responses and the requests they were taken for
  queued       \* requests that began to wait

correlationVars == <<memory, snapshot, cursor, parsing, clock, deliveries, paired, queued>>
committed == <<memory, snapshot, cursor, paired, queued>>

ASSUME CorrelationAssumption ==
  /\ MaxRemembered \in Nat \ {0} /\ Ttl \in Nat \ {0}
  /\ MaxSnapshotBytes \in Nat /\ MaxDeliveries \in Nat /\ MaxClock \in Nat
  /\ \A x \in Exports : Len(x) \in Nat

NothingWaits == [entries |-> {}, next |-> 0]

CorrelationInit ==
  /\ memory = NothingWaits /\ snapshot = NothingWaits /\ cursor = 0
  /\ parsing = NoExport /\ clock = 0 /\ deliveries = 0
  /\ paired = {} /\ queued = {}

----------------------------------------------------------------------------
(* The state: entries [key, label, official, answered, at, sequence]       *)

\* hash_opaque_identifier leaves a hash alone.
Hashed(id) == IF id # NoId /\ id[1] = "raw" THEN <<"hash", id[2]>> ELSE id

\* expire
Expired(state, time) ==
  [entries |-> {e \in state.entries : time - e.at < Ttl}, next |-> state.next]

Oldest(S) == CHOOSE e \in S : \A f \in S : e.sequence <= f.sequence

(* Mutant: room for one more than is needed.                               *)
KeptWithRoom(S) == IF Cardinality(S) >= MaxRemembered THEN S \ {Oldest(S)} ELSE S
\* enforce_capacity: there is never more than one entry too many.
Kept(S) == IF Cardinality(S) > MaxRemembered THEN S \ {Oldest(S)} ELSE S

\* next_sequence, push, push_completed
Remembered(state, key, label, official, answered, time) ==
  [entries |-> Kept(state.entries \cup
                 {[key |-> key, label |-> label, official |-> official,
                   answered |-> answered, at |-> time, sequence |-> state.next]}),
   next |-> state.next + 1]

(* Mutant: only requests that wait are recognised.                         *)
ContainsWaitingRetry(state, key, label) ==
  \E e \in state.entries : e.key = key /\ e.official /\ ~e.answered /\ e.label = label
ContainsOfficialRetry(state, key, label) ==
  \E e \in state.entries : e.key = key /\ e.official /\ e.label = label

Waiting(state, key) == {e \in state.entries : e.key = key /\ ~e.answered}

\* to_persisted_json: a waiting entry, its retry identity, an answered entry,
\* with hashes of 74 characters each
SnapshotBytes(S) ==
    437 * Cardinality({e \in S : ~e.answered})
  + 103 * Cardinality({e \in S : ~e.answered /\ e.official})
  + 447 * Cardinality({e \in S : e.answered})

----------------------------------------------------------------------------
(* One export                                                              *)

Receive(x) ==
  /\ parsing = NoExport
  /\ deliveries < MaxDeliveries /\ deliveries' = deliveries + 1
  /\ parsing' = [export |-> x, count |-> 0, time |-> clock,
                 state |-> Expired(memory, clock), paired |-> {}, queued |-> {}]
  /\ UNCHANGED <<committed, clock>>

Parsing == parsing # NoExport /\ parsing.count < Len(parsing.export)
Record == parsing.export[parsing.count + 1]
Cursor == cursor + parsing.count + 1

Parsed(state, pairs, requests) ==
  parsing' = [export |-> parsing.export, count |-> parsing.count + 1, time |-> parsing.time,
              state |-> state, paired |-> pairs, queued |-> requests]
Skipped == Parsed(parsing.state, parsing.paired, parsing.queued)

\* Records that are not about requests, or name no conversation or model.
CorrelateOther ==
  /\ Parsing
  /\ Record.kind = "other" \/ Record.key = NoKey
  /\ Skipped
  /\ UNCHANGED <<committed, clock, deliveries>>

Label == IF Record.id = NoId THEN <<"local", Cursor>> ELSE Hashed(Record.id)

\* A request that failed, or is known already, does not wait.
CorrelateStart ==
  /\ Parsing
  /\ Record.kind = "start" /\ Record.key # NoKey
  /\ LET official == Record.id # NoId
         state == parsing.state
     IN IF Record.ok /\ ~(official /\ ContainsOfficialRetry(state, Record.key, Label))
        THEN Parsed(Remembered(state, Record.key, Label, official, FALSE, parsing.time),
                    parsing.paired,
                    parsing.queued \cup {[key |-> Record.key, sequence |-> state.next,
                                          label |-> Label, at |-> parsing.time,
                                          cursor |-> Cursor]})
        ELSE Skipped
  /\ UNCHANGED <<committed, clock, deliveries>>

\* The id the response and, in the same export, its request are given.
PairLabel(p) ==
  IF Record.id = NoId THEN p.label
  ELSE IF Hashed(Record.id) = p.label THEN Record.id ELSE NoId

Relabelled(requests, p) ==
  {[key |-> q.key, sequence |-> q.sequence, at |-> q.at, cursor |-> q.cursor,
    label |-> IF q.sequence = p.sequence THEN PairLabel(p) ELSE q.label] : q \in requests}

(* Mutant: a request without an identity is read and not taken.            *)
AnsweredInPlace(state, p) ==
  IF p.official
  THEN Remembered([entries |-> state.entries \ {p}, next |-> state.next],
                  p.key, p.label, TRUE, TRUE, parsing.time)
  ELSE state
Answered(state, p) ==
  LET left == [entries |-> state.entries \ {p}, next |-> state.next]
  IN IF p.official
     THEN Remembered(left, p.key, p.label, TRUE, TRUE, parsing.time)
     ELSE left

\* The oldest request is answered even if the response names another one.
CorrelateResponse ==
  /\ Parsing
  /\ Record.kind = "response" /\ Record.key # NoKey
  /\ LET waiting == Waiting(parsing.state, Record.key)
         p == Oldest(waiting)
     IN IF waiting = {}
        THEN Skipped
        ELSE Parsed(Answered(parsing.state, p),
                    parsing.paired \cup {[key |-> Record.key, sequence |-> p.sequence,
                                          label |-> PairLabel(p), cursor |-> Cursor]},
                    Relabelled(parsing.queued, p))
  /\ UNCHANGED <<committed, clock, deliveries>>

\* ingest_locked: the snapshot fits and the transaction commits
CommitExport ==
  /\ parsing # NoExport /\ ~Parsing
  /\ SnapshotBytes(parsing.state.entries) <= MaxSnapshotBytes
  /\ memory' = parsing.state /\ snapshot' = parsing.state
  /\ cursor' = cursor + Len(parsing.export)
  /\ paired' = paired \cup parsing.paired
  /\ queued' = queued \cup parsing.queued
  /\ parsing' = NoExport
  /\ UNCHANGED <<clock, deliveries>>

\* A snapshot that is too large, a policy, a full disk, a failed transaction.
RefuseExport ==
  /\ parsing # NoExport /\ ~Parsing
  /\ parsing' = NoExport
  /\ UNCHANGED <<committed, clock, deliveries>>

\* prepare_collector_state, after the process ended anywhere
RestartCollector ==
  /\ memory' = Expired(snapshot, clock)
  /\ parsing' = NoExport
  /\ UNCHANGED <<snapshot, cursor, paired, queued, clock, deliveries>>

TimePasses ==
  /\ clock < MaxClock /\ clock' = clock + 1
  /\ UNCHANGED <<committed, parsing, deliveries>>

CorrelationNext ==
  \/ \E x \in Exports : Receive(x)
  \/ CorrelateOther \/ CorrelateStart \/ CorrelateResponse
  \/ CommitExport \/ RefuseExport \/ RestartCollector \/ TimePasses

CorrelationSpec == CorrelationInit /\ [][CorrelationNext]_correlationVars

----------------------------------------------------------------------------
\* Every response is taken for a request of its own conversation and model
\* that came before it, no request for two responses, and requests in the
\* order in which they began to wait; if both show an id it is the same one.
\* So it is over retries, refused exports and restarts.
PairedRight ==
  \A p \in paired :
    /\ \E q \in queued :
         /\ q.key = p.key /\ q.sequence = p.sequence /\ q.cursor < p.cursor
         /\ p.label # NoId => Hashed(p.label) = Hashed(q.label)
    /\ \A o \in paired : o.key = p.key /\ o.cursor < p.cursor => o.sequence < p.sequence

\* A request that can be recognised is remembered once, waiting or answered,
\* however often and in whatever mixture its exports arrive: a retry never
\* makes a second request that would draw away the next response.
RememberedOnce ==
  \A state \in {memory, snapshot} : \A e, f \in state.entries :
    e.official /\ f.official /\ e.key = f.key /\ e.label = f.label => e = f

\* A request goes on waiting until it is answered, is too old, or is among
\* the entries that the capacity pushes out: no refused export, restart or
\* answer to another request loses it.
WaitsUntilDue ==
  \A q \in queued :
    \/ \E e \in snapshot.entries : e.sequence = q.sequence /\ ~e.answered
    \/ \E p \in paired : p.sequence = q.sequence
    \/ clock - q.at >= Ttl
    \/ snapshot.next - q.sequence > MaxRemembered
=============================================================================
