------------------------------- MODULE Domain -------------------------------
(***************************************************************************)
(* The domain core (crates/domain): what a span's state is, how two        *)
(* observations of one span merge, and which parent links are legal.       *)
(* Every operator is pure; Reducer.tla and LocalStore.tla run them.        *)
(* The optional correlation identifiers and token counters all merge by    *)
(* the one rule merge_optional and are folded into the map "fields".       *)
(***************************************************************************)
EXTENDS Integers, FiniteSets

CONSTANTS Traces, Spans, Fields, Values,
          NoSpan,    \* parent_span_id: None
          NoTime,    \* timing.end_unix_ms: None
          NoValue,   \* an absent correlation identifier or token counter
          NoState    \* no row for this span

ASSUME SentinelAssumption ==
  /\ IsFiniteSet(Spans)
  /\ NoSpan \notin Spans
  /\ NoTime \notin Nat
  /\ NoValue \notin Values

Kinds == {"workstream", "agent_session", "turn", "llm_request",
          "tool_execution", "permission", "compaction"}

Lifecycles == {"observed", "running", "completed", "failed", "interrupted"}

Terminal == Lifecycles \ {"observed", "running"}

DomainSpanState ==
  [trace: Traces, parent: Spans \cup {NoSpan}, kind: Kinds,
   lifecycle: Lifecycles, start: Nat, end: Nat \cup {NoTime},
   fields: [Fields -> Values \cup {NoValue}]]

ASSUME StateSentinelAssumption == NoState \notin DomainSpanState

-----------------------------------------------------------------------------
(* merge_lifecycle: observed < running < terminal; two different terminal  *)
(* states do not merge.                                                    *)
LifecycleConflict(a, b) == a # b /\ a \in Terminal /\ b \in Terminal

(* Mutant: a running span never becomes terminal.                          *)
KeepRunning(a, b) == IF a = "observed" THEN b ELSE a

MergeLifecycle(a, b) ==
  IF a = "observed" \/ (a = "running" /\ b # "observed") THEN b ELSE a

(* merge_optional: two present values must agree, else the present one.    *)
OptionalConflict(a, b) == a # NoValue /\ b # NoValue /\ a # b

MergeOptional(a, b) == IF a = NoValue THEN b ELSE a

Least(a, b) == IF a <= b THEN a ELSE b

Latest(a, b) == IF a >= b THEN a ELSE b

(* Mutant: the last observation decides.                                   *)
OverwriteEnd(a, b) == b

MergeEnd(a, b) ==
  IF a = NoTime THEN b ELSE IF b = NoTime THEN a ELSE Latest(a, b)

EndBeforeStart(x) == x.end # NoTime /\ x.end < x.start

MergeConflict(x, y) ==
  \/ x.trace # y.trace
  \/ x.kind # y.kind
  \/ x.parent # y.parent
  \/ \E f \in Fields : OptionalConflict(x.fields[f], y.fields[f])
  \/ LifecycleConflict(x.lifecycle, y.lifecycle)

(* merge_state, once none of its conflicts applies.                        *)
MergeState(x, y) ==
  [x EXCEPT !.lifecycle = MergeLifecycle(x.lifecycle, y.lifecycle),
            !.start = Least(x.start, y.start),
            !.end = MergeEnd(x.end, y.end),
            !.fields = [f \in Fields |-> MergeOptional(x.fields[f], y.fields[f])]]

-----------------------------------------------------------------------------
(* Parent links. "rows" maps every span to its state or NoState.           *)

ValidParentKind(child, parent) ==
  \/ child = "agent_session" /\ parent = "workstream"
  \/ child \in {"turn", "llm_request", "tool_execution", "permission", "compaction"}
       /\ parent = "agent_session"
  \/ child \in {"llm_request", "tool_execution", "permission", "compaction"}
       /\ parent = "turn"
  \/ child \in {"tool_execution", "permission"} /\ parent = "llm_request"

ParentIn(rows, s) == IF rows[s] = NoState THEN NoSpan ELSE rows[s].parent

(* The n-th id of the walk from s to its parents; the walk ends at a root   *)
(* or behind the first id without a row.                                   *)
Ancestor(rows, s) ==
  LET up[n \in 0 .. Cardinality(Spans)] ==
        IF n = 0 THEN s
        ELSE IF up[n - 1] = NoSpan THEN NoSpan ELSE ParentIn(rows, up[n - 1])
  IN up

(* detect_cycle: a walk longer than the number of spans repeats one.       *)
WalkRepeats(rows, s) == Ancestor(rows, s)[Cardinality(Spans)] # NoSpan

BadLink(rows, s) ==
  LET p == ParentIn(rows, s)
  IN /\ p # NoSpan
     /\ \/ p = s
        \/ /\ rows[p] # NoState
           /\ \/ rows[p].trace # rows[s].trace
              \/ ~ValidParentKind(rows[s].kind, rows[p].kind)

(* validate_topology over every row: TRUE when it returns Ok.              *)
ValidTopology(rows) ==
  \A s \in Spans : rows[s] # NoState =>
    /\ ~BadLink(rows, s)
    /\ ParentIn(rows, s) # NoSpan /\ rows[ParentIn(rows, s)] # NoState
         => ~WalkRepeats(rows, s)

UnresolvedParents(rows) ==
  {p \in Spans : rows[p] = NoState /\ \E s \in Spans : ParentIn(rows, s) = p}
=============================================================================
