---------------------------- MODULE ReducerProofs ----------------------------
(***************************************************************************)
(* Order independence of the lifecycle reducer, for every set of           *)
(* observations, spans and fields and for batches of every size.           *)
(***************************************************************************)
EXTENDS Reducer, DomainProofs

-----------------------------------------------------------------------------
(* IsReduct survives one more compatible observation.                      *)

Consistent(S) == \A a, b \in S : ~MergeConflict(a, b)

(* One observation is its own meaning.                                     *)
LEMMA SingletonReduct ==
  ASSUME NEW x \in DomainSpanState
  PROVE  IsReduct(x, {x})
<1>1. x.lifecycle \in Terminal \/ x.lifecycle = "running" \/ x.lifecycle = "observed"
  BY DEF DomainSpanState, Lifecycles, Terminal
<1>2. x.lifecycle = "running" => x.lifecycle \notin Terminal
  BY DEF Terminal, Lifecycles
<1>3. x.lifecycle = "observed" => x.lifecycle \notin Terminal
  BY DEF Terminal, Lifecycles
<1>4. x.start \in Nat /\ x.end \in Nat \cup {NoTime}
  BY DEF DomainSpanState
<1> QED
  BY <1>1, <1>2, <1>3, <1>4, SentinelAssumption DEF IsReduct

(* The merged state of an order-free meaning and one more observation that *)
(* does not conflict with it is the meaning of both.                       *)
LEMMA ExtendReduct ==
  ASSUME NEW S \in SUBSET DomainSpanState, S # {},
         NEW x \in DomainSpanState, NEW y \in DomainSpanState,
         IsReduct(x, S), ~MergeConflict(x, y)
  PROVE  IsReduct(MergeState(x, y), S \cup {y})
<1> DEFINE z == MergeState(x, y)
           T == S \cup {y}
<1>z. /\ z.trace = x.trace /\ z.parent = x.parent /\ z.kind = x.kind
      /\ z.lifecycle = MergeLifecycle(x.lifecycle, y.lifecycle)
      /\ z.start = Least(x.start, y.start)
      /\ z.end = MergeEnd(x.end, y.end)
      /\ \A f \in Fields : z.fields[f] = MergeOptional(x.fields[f], y.fields[f])
  BY MergeStateFields
<1>t. /\ \A a \in T : a \in DomainSpanState
      /\ \A a \in T : /\ a.start \in Nat /\ a.end \in Nat \cup {NoTime}
                      /\ a.lifecycle \in Lifecycles
      /\ x.start \in Nat /\ x.end \in Nat \cup {NoTime} /\ x.lifecycle \in Lifecycles
  BY DEF DomainSpanState
<1> HIDE DEF z
<1>1. \A a \in T : z.trace = a.trace /\ z.parent = a.parent /\ z.kind = a.kind
  BY <1>z DEF IsReduct, MergeConflict
<1>2. IF \E a \in T : a.lifecycle \in Terminal
      THEN z.lifecycle \in Terminal /\ \E a \in T : z.lifecycle = a.lifecycle
      ELSE z.lifecycle = IF \E a \in T : a.lifecycle = "running"
                         THEN "running" ELSE "observed"
  <2>1. ~LifecycleConflict(x.lifecycle, y.lifecycle)
    BY DEF MergeConflict
  <2>2. Terminal = {"completed", "failed", "interrupted"}
    BY DEF Terminal, Lifecycles
  <2>3. IF \E a \in S : a.lifecycle \in Terminal
        THEN x.lifecycle \in Terminal /\ \E a \in S : x.lifecycle = a.lifecycle
        ELSE x.lifecycle = IF \E a \in S : a.lifecycle = "running"
                           THEN "running" ELSE "observed"
    BY DEF IsReduct
  <2>4. CASE \E a \in S : a.lifecycle \in Terminal
    <3>1. x.lifecycle \in Terminal /\ \E a \in S : x.lifecycle = a.lifecycle
      BY <2>3, <2>4
    <3>2. z.lifecycle = x.lifecycle
      BY <3>1, <2>2, <1>z DEF MergeLifecycle
    <3> QED BY <3>1, <3>2, <2>4
  <2>5. CASE ~(\E a \in S : a.lifecycle \in Terminal) /\ y.lifecycle \in Terminal
    <3>1. x.lifecycle \in {"running", "observed"}
      BY <2>3, <2>5
    <3>2. z.lifecycle = y.lifecycle
      BY <3>1, <2>2, <2>5, <1>z DEF MergeLifecycle
    <3> QED BY <3>2, <2>5
  <2>6. CASE ~(\E a \in S : a.lifecycle \in Terminal) /\ y.lifecycle \notin Terminal
    <3>1. x.lifecycle = IF \E a \in S : a.lifecycle = "running"
                        THEN "running" ELSE "observed"
      BY <2>3, <2>6
    <3>2. y.lifecycle \in {"running", "observed"}
      BY <2>6, <2>2, <1>t DEF Lifecycles
    <3>3. z.lifecycle = IF x.lifecycle = "running" \/ y.lifecycle = "running"
                        THEN "running" ELSE "observed"
      BY <3>1, <3>2, <1>z DEF MergeLifecycle
    <3>4. ~ \E a \in T : a.lifecycle \in Terminal
      BY <2>6
    <3>5. (\E a \in T : a.lifecycle = "running")
             <=> (x.lifecycle = "running" \/ y.lifecycle = "running")
      BY <3>1
    <3> QED BY <3>3, <3>4, <3>5
  <2> QED BY <2>4, <2>5, <2>6
<1>3. /\ \E a \in T : a.start = z.start
      /\ \A a \in T : z.start <= a.start
  BY <1>z, <1>t DEF IsReduct, Least
<1>4. IF \A a \in T : a.end = NoTime
      THEN z.end = NoTime
      ELSE /\ z.end # NoTime
           /\ \E a \in T : a.end = z.end
           /\ \A a \in T : a.end # NoTime => a.end <= z.end
  <2>1. IF \A a \in S : a.end = NoTime
        THEN x.end = NoTime
        ELSE /\ x.end # NoTime
             /\ \E a \in S : a.end = x.end
             /\ \A a \in S : a.end # NoTime => a.end <= x.end
    BY DEF IsReduct
  <2>2. (\E a \in S : a.end # NoTime) => x.end # NoTime
    BY <2>1
  <2>3. CASE y.end = NoTime
    BY <2>1, <2>2, <2>3, <1>z, <1>t DEF MergeEnd
  <2>4. CASE y.end # NoTime /\ x.end = NoTime
    BY <2>1, <2>2, <2>4, <1>z, <1>t DEF MergeEnd
  <2>5. CASE y.end # NoTime /\ x.end # NoTime
    BY <2>1, <2>5, <1>z, <1>t DEF MergeEnd, Latest
  <2> QED BY <2>3, <2>4, <2>5
<1>5. \A f \in Fields :
        IF \A a \in T : a.fields[f] = NoValue
        THEN z.fields[f] = NoValue
        ELSE z.fields[f] # NoValue /\ \E a \in T : z.fields[f] = a.fields[f]
  <2> SUFFICES ASSUME NEW f \in Fields
               PROVE  IF \A a \in T : a.fields[f] = NoValue
                      THEN z.fields[f] = NoValue
                      ELSE z.fields[f] # NoValue /\ \E a \in T : z.fields[f] = a.fields[f]
    OBVIOUS
  <2>1. IF \A a \in S : a.fields[f] = NoValue
        THEN x.fields[f] = NoValue
        ELSE x.fields[f] # NoValue /\ \E a \in S : x.fields[f] = a.fields[f]
    BY DEF IsReduct
  <2>2. z.fields[f] = IF x.fields[f] = NoValue THEN y.fields[f] ELSE x.fields[f]
    BY <1>z DEF MergeOptional
  <2> QED BY <2>1, <2>2
<1> QED
  BY <1>1, <1>2, <1>3, <1>4, <1>5 DEF IsReduct, z

(* An observation conflicts with the meaning of a consistent set exactly   *)
(* when it conflicts with one of its members.                              *)
LEMMA ConflictsAgree ==
  ASSUME NEW S \in SUBSET DomainSpanState, S # {}, Consistent(S),
         NEW x \in DomainSpanState, NEW y \in DomainSpanState, IsReduct(x, S)
  PROVE  MergeConflict(x, y) <=> \E a \in S : MergeConflict(a, y)
<1>1. \A a \in S : x.trace = a.trace /\ x.parent = a.parent /\ x.kind = a.kind
  BY DEF IsReduct
<1>2. \A a, b \in S : ~LifecycleConflict(a.lifecycle, b.lifecycle)
  BY DEF Consistent, MergeConflict
<1>3. \A a, b \in S : \A f \in Fields : ~OptionalConflict(a.fields[f], b.fields[f])
  BY DEF Consistent, MergeConflict
<1>4. LifecycleConflict(x.lifecycle, y.lifecycle)
        <=> \E a \in S : LifecycleConflict(a.lifecycle, y.lifecycle)
  <2>1. IF \E a \in S : a.lifecycle \in Terminal
        THEN x.lifecycle \in Terminal /\ \E a \in S : x.lifecycle = a.lifecycle
        ELSE x.lifecycle \in {"running", "observed"}
    BY DEF IsReduct
  <2>2. "running" \notin Terminal /\ "observed" \notin Terminal
    BY DEF Terminal, Lifecycles
  <2> QED BY <2>1, <2>2, <1>2 DEF LifecycleConflict
<1>5. \A f \in Fields : OptionalConflict(x.fields[f], y.fields[f])
        <=> \E a \in S : OptionalConflict(a.fields[f], y.fields[f])
  <2> SUFFICES ASSUME NEW f \in Fields
               PROVE  OptionalConflict(x.fields[f], y.fields[f])
                        <=> \E a \in S : OptionalConflict(a.fields[f], y.fields[f])
    OBVIOUS
  <2>1. IF \A a \in S : a.fields[f] = NoValue
        THEN x.fields[f] = NoValue
        ELSE x.fields[f] # NoValue /\ \E a \in S : x.fields[f] = a.fields[f]
    BY DEF IsReduct
  <2> QED BY <2>1, <1>3 DEF OptionalConflict
<1> QED
  BY <1>1, <1>4, <1>5 DEF MergeConflict

(* Two states conflict in either order, and none with itself.              *)
LEMMA ConflictSymmetric ==
  ASSUME NEW x, NEW y
  PROVE  /\ MergeConflict(x, y) <=> MergeConflict(y, x)
         /\ ~MergeConflict(x, x)
BY DEF MergeConflict, OptionalConflict, LifecycleConflict

-----------------------------------------------------------------------------
(* The reducer.                                                            *)

(* LifecycleReducer only ever holds states of its spans.                   *)
THEOREM TypeCorrect == ASSUME WellFormedBatch PROVE ReducerSpec => []ReducerTypeOK
<1>1. ReducerInit => ReducerTypeOK
  BY DEF ReducerInit, ReducerTypeOK
<1>2. ReducerTypeOK /\ [ReducerNext]_reducerVars => ReducerTypeOK'
  <2> SUFFICES ASSUME ReducerTypeOK, [ReducerNext]_reducerVars PROVE ReducerTypeOK'
    OBVIOUS
  <2>1. ASSUME NEW o \in Observations, Reject(o) PROVE ReducerTypeOK'
    BY <2>1 DEF ReducerTypeOK, Reject, Yields
  <2>2. ASSUME NEW o \in Observations, Observe(o) PROVE ReducerTypeOK'
    <3>1. o.span \in Spans /\ o.state \in DomainSpanState
      BY DEF WellFormedBatch
    <3>2. states[o.span] # NoState => MergeState(states[o.span], o.state) \in DomainSpanState
      BY <3>1, MergeStateType DEF ReducerTypeOK
    <3>3. states' \in [Spans -> DomainSpanState \cup {NoState}]
      BY <2>2, <3>1, <3>2 DEF Observe, ReducerTypeOK
    <3> QED BY <2>2, <3>3 DEF ReducerTypeOK, Observe, Yields
  <2>3. CASE Finish
    BY <2>3 DEF ReducerTypeOK, Finish
  <2>4. CASE UNCHANGED reducerVars
    BY <2>4 DEF ReducerTypeOK, reducerVars
  <2> QED BY <2>1, <2>2, <2>3, <2>4 DEF ReducerNext
<1> QED BY <1>1, <1>2, PTL DEF ReducerSpec

(* OrderIndependent speaks of a finished reduction only; while it runs the *)
(* batch so far must be consistent and every span hold its meaning.        *)
Reduces ==
  /\ ~Incompatible
  /\ \A s \in Spans : IF Of(s) = {} THEN states[s] = NoState
                      ELSE states[s] # NoState /\ IsReduct(states[s], Of(s))

ReducerInv ==
  /\ ReducerTypeOK
  /\ result = "error" => Incompatible
  /\ result # "error" => Reduces

(* A consistent batch gives every span consistent observations.            *)
LEMMA BatchConsistent ==
  ASSUME WellFormedBatch, ReducerTypeOK, ~Incompatible, NEW s \in Spans
  PROVE  Of(s) \in SUBSET DomainSpanState /\ Consistent(Of(s))
<1>1. Of(s) \in SUBSET DomainSpanState
  BY DEF WellFormedBatch, Of, ReducerTypeOK
<1>2. ASSUME NEW a \in Of(s), NEW b \in Of(s) PROVE ~MergeConflict(a, b)
  <2>1. PICK p \in batch : p.span = s /\ p.state = a
    BY DEF Of
  <2>2. PICK q \in batch : q.span = s /\ q.state = b
    BY DEF Of
  <2> QED BY <2>1, <2>2 DEF Incompatible
<1> QED BY <1>1, <1>2 DEF Consistent

(* Rejecting an observation that observe refuses is right: the batch holds *)
(* two observations of one span that conflict, or a malformed one.         *)
LEMMA RejectStep ==
  ASSUME WellFormedBatch, ReducerInv, NEW o \in Observations, Reject(o)
  PROVE  ReducerInv'
<1> USE DEF Reject, Yields
<1>1. ReducerTypeOK'
  BY DEF ReducerInv, ReducerTypeOK
<1>2. Incompatible'
  <2>1. CASE EndBeforeStart(o.state)
    BY <2>1 DEF Incompatible
  <2>2. CASE states[o.span] # NoState /\ MergeConflict(states[o.span], o.state)
    <3>1. o.span \in Spans /\ o.state \in DomainSpanState
      BY DEF WellFormedBatch
    <3>2. Reduces
      BY DEF ReducerInv
    <3>3. Of(o.span) # {} /\ IsReduct(states[o.span], Of(o.span))
      BY <2>2, <3>1, <3>2 DEF Reduces
    <3>4. Of(o.span) \in SUBSET DomainSpanState /\ Consistent(Of(o.span))
      BY <3>1, <3>2, BatchConsistent DEF Reduces, ReducerInv
    <3>5. states[o.span] \in DomainSpanState
      BY <2>2, <3>1 DEF ReducerInv, ReducerTypeOK
    <3>6. \E a \in Of(o.span) : MergeConflict(a, o.state)
      BY <2>2, <3>1, <3>3, <3>4, <3>5, ConflictsAgree
    <3>7. PICK p \in batch : p.span = o.span /\ MergeConflict(p.state, o.state)
      BY <3>6 DEF Of
    <3> QED BY <3>7 DEF Incompatible
  <2> QED BY <2>1, <2>2 DEF ObserveFails
<1> QED BY <1>1, <1>2 DEF ReducerInv

(* Observing extends the meaning of the one span it is about.              *)
LEMMA ObserveStep ==
  ASSUME WellFormedBatch, ReducerInv, NEW o \in Observations, Observe(o)
  PROVE  ReducerInv'
<1> USE DEF Observe, Yields
<1>o. o.span \in Spans /\ o.state \in DomainSpanState
  BY DEF WellFormedBatch
<1>n. NoState \notin DomainSpanState
  BY StateSentinelAssumption
<1>r. Reduces /\ ReducerTypeOK
  BY DEF ReducerInv
<1>c. Of(o.span) \in SUBSET DomainSpanState /\ Consistent(Of(o.span))
  BY <1>o, <1>r, BatchConsistent DEF Reduces
<1>1. ReducerTypeOK'
  <2>1. states[o.span] # NoState => MergeState(states[o.span], o.state) \in DomainSpanState
    BY <1>o, <1>r, MergeStateType DEF ReducerTypeOK
  <2>2. states' \in [Spans -> DomainSpanState \cup {NoState}]
    BY <1>o, <1>r, <2>1 DEF ReducerTypeOK
  <2> QED BY <1>r, <2>2 DEF ReducerTypeOK
<1>2. \A a \in Of(o.span) : ~MergeConflict(a, o.state)
  <2>1. CASE Of(o.span) = {}
    BY <2>1
  <2>2. CASE Of(o.span) # {}
    <3>1. states[o.span] # NoState /\ IsReduct(states[o.span], Of(o.span))
      BY <2>2, <1>o, <1>r DEF Reduces
    <3>2. states[o.span] \in DomainSpanState
      BY <3>1, <1>o, <1>r DEF ReducerTypeOK
    <3>3. ~MergeConflict(states[o.span], o.state)
      BY <3>1 DEF ObserveFails
    <3> QED BY <1>c, <1>o, <2>2, <3>1, <3>2, <3>3, ConflictsAgree
  <2> QED BY <2>1, <2>2
<1>3. ~Incompatible'
  <2>1. \A p \in batch' : ~EndBeforeStart(p.state)
    BY <1>r DEF Reduces, Incompatible, ObserveFails
  <2>2. ASSUME NEW p \in batch', NEW q \in batch', p.span = q.span
        PROVE  ~MergeConflict(p.state, q.state)
    <3>1. CASE p \in batch /\ q \in batch
      BY <3>1, <2>2, <1>r DEF Reduces, Incompatible
    <3>2. CASE p \in batch /\ q = o
      BY <3>2, <2>2, <1>2 DEF Of
    <3>3. CASE p = o /\ q \in batch
      BY <3>3, <2>2, <1>2, ConflictSymmetric DEF Of
    <3>4. CASE p = o /\ q = o
      BY <3>4, ConflictSymmetric
    <3> QED BY <3>1, <3>2, <3>3, <3>4
  <2> QED BY <2>1, <2>2 DEF Incompatible
<1>4. ASSUME NEW s \in Spans
      PROVE  IF Of(s)' = {} THEN states'[s] = NoState
             ELSE states'[s] # NoState /\ IsReduct(states'[s], Of(s)')
  <2>1. CASE s # o.span
    <3>1. Of(s)' = Of(s)
      BY <2>1 DEF Of
    <3>2. states'[s] = states[s]
      BY <2>1, <1>r DEF ReducerTypeOK
    <3> QED BY <3>1, <3>2, <1>r DEF Reduces
  <2>2. CASE s = o.span
    <3>1. Of(s)' = Of(s) \cup {o.state}
      BY <2>2 DEF Of
    <3>2. states'[s] = IF states[s] = NoState THEN o.state ELSE MergeState(states[s], o.state)
      BY <2>2, <1>o, <1>r DEF ReducerTypeOK
    <3>3. CASE states[s] = NoState
      <4>1. Of(s) = {}
        BY <3>3, <1>r DEF Reduces
      <4>2. IsReduct(o.state, {o.state})
        BY <1>o, SingletonReduct
      <4> QED BY <4>1, <4>2, <3>1, <3>2, <3>3, <1>o, <1>n
    <3>4. CASE states[s] # NoState
      <4>1. Of(s) # {} /\ IsReduct(states[s], Of(s)) /\ states[s] \in DomainSpanState
        BY <3>4, <1>r DEF Reduces, ReducerTypeOK
      <4>2. ~MergeConflict(states[s], o.state)
        BY <2>2, <3>4 DEF ObserveFails
      <4>3. IsReduct(MergeState(states[s], o.state), Of(s) \cup {o.state})
        BY <4>1, <4>2, <1>o, <1>c, <2>2, ExtendReduct
      <4>4. MergeState(states[s], o.state) \in DomainSpanState
        BY <4>1, <1>o, MergeStateType
      <4> QED BY <4>3, <4>4, <3>1, <3>2, <3>4, <1>n
    <3> QED BY <3>3, <3>4
  <2> QED BY <2>1, <2>2
<1>5. Reduces'
  BY <1>3, <1>4 DEF Reduces
<1> QED BY <1>1, <1>5 DEF ReducerInv

(* The inductive invariant of the reduction.                               *)
THEOREM ReducerInvariant == ASSUME WellFormedBatch PROVE ReducerSpec => []ReducerInv
<1>1. ReducerInit => ReducerInv
  <2> SUFFICES ASSUME ReducerInit PROVE ReducerInv
    OBVIOUS
  <2>1. ReducerTypeOK /\ result # "error"
    BY DEF ReducerInit, ReducerTypeOK
  <2>2. ~Incompatible /\ \A s \in Spans : Of(s) = {} /\ states[s] = NoState
    BY DEF ReducerInit, Incompatible, Of
  <2> QED BY <2>1, <2>2 DEF ReducerInv, Reduces
<1>2. ReducerInv /\ [ReducerNext]_reducerVars => ReducerInv'
  <2> SUFFICES ASSUME ReducerInv, [ReducerNext]_reducerVars PROVE ReducerInv'
    OBVIOUS
  <2>1. CASE Finish
    BY <2>1 DEF Finish, ReducerInv, ReducerTypeOK, Reduces, Incompatible, Of
  <2>2. CASE UNCHANGED reducerVars
    BY <2>2 DEF reducerVars, ReducerInv, ReducerTypeOK, Reduces, Incompatible, Of
  <2> QED BY <2>1, <2>2, RejectStep, ObserveStep DEF ReducerNext
<1> QED BY <1>1, <1>2, PTL DEF ReducerSpec

(* LifecycleReducer::reduce does not depend on arrival order: for every    *)
(* batch and every order it fails exactly on incompatible observations and *)
(* otherwise returns the order-free meaning of the batch.                  *)
THEOREM ReduceIsOrderIndependent == ASSUME WellFormedBatch PROVE ReducerSpec => []OrderIndependent
<1>1. ReducerInv => OrderIndependent
  BY DEF ReducerInv, Reduces, OrderIndependent
<1> QED BY <1>1, ReducerInvariant, PTL

=============================================================================
