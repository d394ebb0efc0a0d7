--------------------------- MODULE DashboardQuery ---------------------------
(***************************************************************************)
(* The dashboard query service: bounded scans over a published view and    *)
(* the cursor leases that tie the pages of one query together. A request   *)
(* holds the render guard from beginning to end, so one action is one      *)
(* request; between requests views are published and revoked, leases       *)
(* expire and other queries push leases out. A page may end after any row, *)
(* because a scan stops when its time slice is over. The views are the     *)
(* ones PublishedView shows, here with their rows in index order.          *)
(***************************************************************************)
EXTENDS Integers, Sequences, FiniteSets, SequencesExt, TLC

CONSTANTS
  Content,      \* the rows of view 1, 2, ...: a sequence of sequences
  Bindings,     \* the queries clients ask: [view, kind, filter]
  ScanLimit,    \* MAX_SCAN_FACTS, and the LIMIT of the statements
  PageRows,     \* DASHBOARD_TRACE_PAGE_MAX_ROWS
  MaxLeases,    \* MAX_CURSOR_LEASES
  IdleTtl, HardTtl,
  MaxNow, MaxSequence,
  NoCursor, NoAnswer, NoTrace

VARIABLES
  shown,      \* the readable views, newest first
  published,  \* how many views have been published
  leases, sequence, now,
  answer      \* what the last request returned

vars == <<shown, published, leases, sequence, now, answer>>

Init ==
  /\ shown = <<>> /\ published = 0
  /\ leases = <<>> /\ sequence = 0 /\ now = 0
  /\ answer = NoAnswer

----------------------------------------------------------------------------
(* The scans. A row is [id, trace, session, turn, matches]; traces,        *)
(* sessions and turns are numbers, 0 is an absent one.                     *)

Phases(kind) ==
  CASE kind = "spans"   -> <<"row">>
    [] kind = "traces"  -> <<"row">>
    [] kind = "facets"  -> <<"session", "turn">>
    [] kind = "summary" -> <<"row", "session", "turn">>

\* The rows of one index, in its order; an index on a dimension skips rows
\* without a value.
Before(r, q, phase) == r[phase] < q[phase] \/ (r[phase] = q[phase] /\ r.id < q.id)
Indexed(view, phase) ==
  IF phase = "row" THEN Content[view]
  ELSE SortSeq(SelectSeq(Content[view], LAMBDA r : r[phase] # 0),
               LAMBDA r, q : Before(r, q, phase))

Start == [phase |-> 1, after |-> 0, partial |-> NoTrace, last |-> 0, count |-> 0, totals |-> <<>>]

Matches(row, filter) == filter \in row.matches

\* One row consumed by a scan: s is the cursor and the rows to return.
ConsumeSpan(s, row, filter) ==
  IF Matches(row, filter) THEN [s EXCEPT !.out = Append(@, row.id)] ELSE s

FlushesTrace(s, row) == s.partial # NoTrace /\ s.partial.trace # row.trace
Flushed(s) == [s EXCEPT !.out = Append(@, s.partial), !.partial = NoTrace]

PushTrace(s, row, filter) ==
  IF ~Matches(row, filter) THEN s
  ELSE IF s.partial = NoTrace
       THEN [s EXCEPT !.partial = [trace |-> row.trace, spans |-> 1]]
       ELSE [s EXCEPT !.partial.spans = @ + 1]
ConsumeTrace(s, row, filter) ==
  PushTrace(IF FlushesTrace(s, row) THEN Flushed(s) ELSE s, row, filter)

NewValue(s, row, phase, filter) == row[phase] # s.last /\ Matches(row, filter)

ConsumeFacet(s, row, phase, filter) ==
  IF NewValue(s, row, phase, filter)
  THEN [s EXCEPT !.out = Append(@, <<phase, row[phase]>>), !.last = row[phase]]
  ELSE s

ConsumeSummary(s, row, phase, filter) ==
  IF phase = "row"
  THEN IF Matches(row, filter) THEN [s EXCEPT !.count = @ + 1] ELSE s
  ELSE IF NewValue(s, row, phase, filter)
       THEN [s EXCEPT !.count = @ + 1, !.last = row[phase]]
       ELSE s

Consume(b, phase, s, row) ==
  LET t == CASE b.kind = "spans"   -> ConsumeSpan(s, row, b.filter)
             [] b.kind = "traces"  -> ConsumeTrace(s, row, b.filter)
             [] b.kind = "facets"  -> ConsumeFacet(s, row, phase, b.filter)
             [] b.kind = "summary" -> ConsumeSummary(s, row, phase, b.filter)
  IN [t EXCEPT !.after = @ + 1]

\* No more rows: a pending trace is returned, then the next dimension is
\* scanned by the next request, or the query is finished.
AtEnd(b, s) ==
  LET t == IF b.kind = "traces" /\ s.partial # NoTrace THEN Flushed(s) ELSE s
      u == IF b.kind = "summary" THEN [t EXCEPT !.totals = Append(@, t.count)] ELSE t
  IN IF s.phase = Len(Phases(b.kind))
     THEN [u EXCEPT !.done = TRUE,
                    !.out = IF b.kind = "summary" THEN <<u.totals>> ELSE @]
     ELSE [u EXCEPT !.phase = @ + 1, !.after = 0, !.last = 0, !.count = 0]

\* Every way a scan from a cursor can end.
Scans(b, cursor) ==
  LET phase == Phases(b.kind)[cursor.phase]
      index == Indexed(b.view, phase)
      source == SubSeq(index, cursor.after + 1,
                       IF cursor.after + ScanLimit < Len(index)
                       THEN cursor.after + ScanLimit ELSE Len(index))
      begin == [phase |-> cursor.phase, after |-> cursor.after, partial |-> cursor.partial,
                last |-> cursor.last, count |-> cursor.count, totals |-> cursor.totals,
                out |-> <<>>, done |-> FALSE]
      state[k \in 0..Len(source)] ==
        IF k = 0 THEN begin ELSE Consume(b, phase, state[k - 1], source[k])
      \* after k rows the scan has to stop
      full(k) == k > 0 /\ (k >= ScanLimit \/ Len(state[k].out) >= PageRows)
      \* row k + 1 completes a trace that fills the page, and is left alone
      breaks(k) ==
        /\ b.kind = "traces" /\ k < Len(source)
        /\ FlushesTrace(state[k], source[k + 1])
        /\ Len(state[k].out) + 1 >= PageRows
      reached(k) == \A j \in 0..(k - 1) : ~full(j) /\ ~breaks(j)
  IN {state[k] : k \in {j \in 1..Len(source) : reached(j)}}
     \cup {Flushed(state[k]) : k \in {j \in 0..Len(source) :
                                        reached(j) /\ ~full(j) /\ breaks(j)}}
     \cup {AtEnd(b, state[k]) : k \in {j \in {Len(source)} : reached(j) /\ ~full(j)}}

Position(s) ==
  [phase |-> s.phase, after |-> s.after, partial |-> s.partial,
   last |-> s.last, count |-> s.count, totals |-> s.totals]

----------------------------------------------------------------------------
(* Leases: a function from cursor numbers.                                 *)

History(kind) == kind \in {"spans", "traces"}

PruneExpired ==
  LET live == {c \in DOMAIN leases : /\ now - leases[c].used <= IdleTtl
                                     /\ now - leases[c].created <= HardTtl}
  IN [c \in live |-> leases[c]]

With(ls, c, lease) == (c :> lease) @@ ls
Without(ls, c) == [d \in DOMAIN ls \ {c} |-> ls[d]]

\* The oldest leases go, but never the parent of the new one.
MakeRoom(ls, protected) ==
  LET others == DOMAIN ls \ {protected}
      excess == Cardinality(DOMAIN ls) - MaxLeases + 1
      older(c) == Cardinality({d \in others : d < c})
  IN [c \in {d \in DOMAIN ls : d = protected \/ older(d) >= excess} |-> ls[c]]

NoReplay == [at |-> Start, done |-> FALSE, next |-> NoCursor, set |-> FALSE]

\* issue_lease: a page of a history query keeps its parent for going back,
\* summary and facet requests use it up.
Issue(ls, parent, b, s, heard) ==
  LET created == IF parent = NoCursor THEN now ELSE ls[parent].created
      kept == IF parent # NoCursor /\ ~History(b.kind) THEN Without(ls, parent) ELSE ls
      roomy == MakeRoom(kept, parent)
      new == [binding |-> b, at |-> Position(s), created |-> created, used |-> now,
              replay |-> NoReplay, heard |-> heard]
      c == sequence + 1
      boundary == [at |-> Position(s), done |-> FALSE, next |-> c, set |-> TRUE]
  IN IF parent # NoCursor /\ History(b.kind)
     THEN With(With(roomy, parent, [roomy[parent] EXCEPT !.replay = boundary]), c, new)
     ELSE With(roomy, c, new)

Respond(b, before, s, next) ==
  answer' = [binding |-> b, heard |-> before \o s.out, done |-> s.done, next |-> next]
Status(reason) == answer' = NoAnswer

(* Mutant: a page that is asked for again keeps its old successor.         *)
ReplayAnyway(ls, parent, b, s) ==
  /\ Respond(b, ls[parent].heard, s, ls[parent].replay.next)
  /\ leases' = ls
\* A page that was returned before: it has to end where it ended then.
Replay(ls, parent, b, s) ==
  LET r == ls[parent].replay
      faithful == /\ r.done = s.done
                  /\ r.at = Position(s)
                  /\ r.next = NoCursor \/ r.next \in DOMAIN ls
  IN IF faithful
     THEN /\ Respond(b, ls[parent].heard, s, r.next)
          /\ leases' = ls
     ELSE /\ Status("snapshot_expired")
          /\ leases' = Without(ls, parent)

Finished(ls, parent, b, s) ==
  /\ Respond(b, IF parent = NoCursor THEN <<>> ELSE ls[parent].heard, s, NoCursor)
  /\ LET boundary == [at |-> Position(s), done |-> TRUE, next |-> NoCursor, set |-> TRUE]
     IN leases' = IF parent = NoCursor \/ ~History(b.kind) THEN ls
                  ELSE With(ls, parent, [ls[parent] EXCEPT !.replay = boundary])

Continued(ls, parent, b, s) ==
  LET before == IF parent = NoCursor THEN <<>> ELSE ls[parent].heard
  IN /\ sequence < MaxSequence
     /\ sequence' = sequence + 1
     /\ Respond(b, before, s, sequence + 1)
     /\ leases' = Issue(ls, parent, b, s, before \o s.out)

Answered(ls, parent) == IF parent = NoCursor THEN FALSE ELSE ls[parent].replay.set

\* The part of a request after its cursor was resolved.
Serve(ls, parent, b) ==
  IF ~ \E i \in 1..Len(shown) : shown[i] = b.view
  THEN /\ Status(IF shown = <<>> THEN "refresh_pending" ELSE "snapshot_expired")
       /\ leases' = ls /\ UNCHANGED sequence
  ELSE \E s \in Scans(b, IF parent = NoCursor THEN Start ELSE ls[parent].at) :
         \/ /\ Answered(ls, parent)
            /\ Replay(ls, parent, b, s)
            /\ UNCHANGED sequence
         \/ /\ ~Answered(ls, parent)
            /\ s.done
            /\ Finished(ls, parent, b, s)
            /\ UNCHANGED sequence
         \/ /\ ~Answered(ls, parent)
            /\ ~s.done
            /\ Continued(ls, parent, b, s)

FirstPage(b) ==
  /\ Serve(PruneExpired, NoCursor, b)
  /\ UNCHANGED <<shown, published, now>>

\* resolve_lease: a cursor that is gone, or that belongs to another query,
\* is refused; using it counts against the idle limit anew.
NextPage(c, b) ==
  LET ls == PruneExpired
  IN /\ IF c \notin DOMAIN ls \/ ls[c].binding # b
        THEN /\ Status("refused")
             /\ leases' = ls /\ UNCHANGED sequence
        ELSE Serve(With(ls, c, [ls[c] EXCEPT !.used = now]), c, b)
     /\ UNCHANGED <<shown, published, now>>

\* The publisher, as PublishedView describes it.
Publish ==
  /\ published < Len(Content)
  /\ published' = published + 1
  /\ shown' = IF shown = <<>> THEN <<published + 1>> ELSE <<published + 1, shown[1]>>
  /\ answer' = NoAnswer
  /\ UNCHANGED <<leases, sequence, now>>

Hide ==
  /\ shown # <<>>
  /\ shown' = <<>>
  /\ answer' = NoAnswer
  /\ UNCHANGED <<published, leases, sequence, now>>

Tick ==
  /\ now < MaxNow
  /\ now' = now + 1
  /\ answer' = NoAnswer
  /\ UNCHANGED <<shown, published, leases, sequence>>

Next ==
  \/ \E b \in Bindings : FirstPage(b)
  \/ \E b \in Bindings : \E c \in 1..sequence : NextPage(c, b)
  \/ Publish \/ Hide \/ Tick

Spec == Init /\ [][Next]_vars

----------------------------------------------------------------------------
(* What a query means.                                                     *)

Wanted(b) == SelectSeq(Content[b.view], LAMBDA r : Matches(r, b.filter))
FacetValues(b, phase) == {r[phase] : r \in ToSet(Wanted(b))} \ {0}
Ascending(S) == SetToSortSeq(S, <)

Reference(b) ==
  LET spans(t) == Cardinality({i \in 1..Len(Wanted(b)) : Wanted(b)[i].trace = t})
      traces == Ascending({r.trace : r \in ToSet(Wanted(b))})
      facet(phase) == [i \in 1..Cardinality(FacetValues(b, phase)) |->
                         <<phase, Ascending(FacetValues(b, phase))[i]>>]
  IN CASE b.kind = "spans"   -> [i \in 1..Len(Wanted(b)) |-> Wanted(b)[i].id]
       [] b.kind = "traces"  -> [i \in 1..Len(traces) |->
                                   [trace |-> traces[i], spans |-> spans(traces[i])]]
       [] b.kind = "facets"  -> facet("session") \o facet("turn")
       [] b.kind = "summary" -> <<<<Len(Wanted(b)), Cardinality(FacetValues(b, "session")),
                                    Cardinality(FacetValues(b, "turn"))>>>>

\* However a query is cut into pages, wherever its scans stop, whichever
\* pages are asked for again, and whatever leases other queries push out:
\* the pages that lead to an answer show a prefix of what the query means on
\* its one view, the whole of it when there is no further page, and the
\* cursor handed out goes on exactly where they end.
PagesTileTheView ==
  answer # NoAnswer =>
    /\ IsPrefix(answer.heard, Reference(answer.binding))
    /\ answer.done => answer.heard = Reference(answer.binding)
    /\ ~answer.done =>
         /\ answer.next \in DOMAIN leases
         /\ leases[answer.next].heard = answer.heard
         /\ leases[answer.next].binding = answer.binding
=============================================================================
