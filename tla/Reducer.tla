------------------------------- MODULE Reducer -------------------------------
(***************************************************************************)
(* LifecycleReducer (crates/domain): a batch of observations is folded     *)
(* into one state per span, in whatever order it arrives. The environment  *)
(* picks the batch and the order; the first error ends the reduction, as   *)
(* the ? operator does in LifecycleReducer::reduce.                        *)
(***************************************************************************)
EXTENDS Domain

CONSTANTS Observations,  \* set of [span, state]: what a batch may hold
          MaxBatch       \* bound on the size of a batch

(* What the theorems ask of the constants.                                 *)
WellFormedBatch ==
  /\ MaxBatch \in Nat
  /\ \A o \in Observations : o.span \in Spans /\ o.state \in DomainSpanState

VARIABLES batch,    \* the observations the iterator has yielded so far
          states,   \* the reducer's map: span -> state
          result    \* "reducing", "ok", "error"

reducerVars == <<batch, states, result>>

ReducerTypeOK ==
  /\ batch \subseteq Observations
  /\ states \in [Spans -> DomainSpanState \cup {NoState}]
  /\ result \in {"reducing", "ok", "error"}

ReducerInit ==
  /\ batch = {}
  /\ states = [s \in Spans |-> NoState]
  /\ result = "reducing"

(* The iterator may yield an observation it has yielded before.            *)
Yields(o) ==
  /\ result = "reducing"
  /\ Cardinality(batch \cup {o}) <= MaxBatch
  /\ batch' = batch \cup {o}

ObserveFails(o) ==
  \/ EndBeforeStart(o.state)
  \/ states[o.span] # NoState /\ MergeConflict(states[o.span], o.state)

(* observe fails: reduce returns the error and the reducer is dropped.     *)
Reject(o) ==
  /\ Yields(o)
  /\ ObserveFails(o)
  /\ result' = "error"
  /\ UNCHANGED states

Observe(o) ==
  /\ Yields(o)
  /\ ~ObserveFails(o)
  /\ states' = [states EXCEPT ![o.span] =
                  IF @ = NoState THEN o.state ELSE MergeState(@, o.state)]
  /\ UNCHANGED result

Finish ==
  /\ result = "reducing"
  /\ result' = "ok"
  /\ UNCHANGED <<batch, states>>

ReducerNext == (\E o \in Observations : Reject(o) \/ Observe(o)) \/ Finish

ReducerSpec == ReducerInit /\ [][ReducerNext]_reducerVars

-----------------------------------------------------------------------------
(* The reference: the batch's meaning, stated without an order.            *)

Of(s) == {o.state : o \in {b \in batch : b.span = s}}

Incompatible ==
  \/ \E o \in batch : EndBeforeStart(o.state)
  \/ \E a, b \in batch : a.span = b.span /\ MergeConflict(a.state, b.state)

IsReduct(x, S) ==
  /\ \A y \in S : x.trace = y.trace /\ x.parent = y.parent /\ x.kind = y.kind
  /\ IF \E y \in S : y.lifecycle \in Terminal
     THEN x.lifecycle \in Terminal /\ \E y \in S : x.lifecycle = y.lifecycle
     ELSE x.lifecycle = IF \E y \in S : y.lifecycle = "running"
                        THEN "running" ELSE "observed"
  /\ \E y \in S : y.start = x.start
  /\ \A y \in S : x.start <= y.start
  /\ IF \A y \in S : y.end = NoTime
     THEN x.end = NoTime
     ELSE /\ x.end # NoTime
          /\ \E y \in S : y.end = x.end
          /\ \A y \in S : y.end # NoTime => y.end <= x.end
  /\ \A f \in Fields :
       IF \A y \in S : y.fields[f] = NoValue
       THEN x.fields[f] = NoValue
       ELSE x.fields[f] # NoValue /\ \E y \in S : x.fields[f] = y.fields[f]

(* "Reduces lifecycle observations without depending on arrival order"     *)
(* (domain/src/lib.rs:234): whatever order the batch arrives in, reduce    *)
(* fails exactly when two of its observations are incompatible, and        *)
(* otherwise holds the order-free meaning of the batch for every span.     *)
OrderIndependent ==
  /\ result = "error" => Incompatible
  /\ result = "ok" =>
       /\ ~Incompatible
       /\ \A s \in Spans : IF Of(s) = {} THEN states[s] = NoState
                           ELSE states[s] # NoState /\ IsReduct(states[s], Of(s))

=============================================================================
