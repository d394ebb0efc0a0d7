---------------------------- MODULE DomainProofs ----------------------------
(***************************************************************************)
(* What merge_state returns and where the walk of validate_topology goes,  *)
(* for the proofs of the reducer and the store.                            *)
(***************************************************************************)
EXTENDS Domain, FunctionTheorems, FiniteSetTheorems, WellFoundedInduction, TLAPS

(* The parts of merge_state.                                               *)

(* Merging lifecycles stays inside the enumeration.                        *)
LEMMA MergeLifecycleType ==
  ASSUME NEW a \in Lifecycles, NEW b \in Lifecycles
  PROVE  MergeLifecycle(a, b) \in Lifecycles
BY DEF MergeLifecycle, Lifecycles

(* Merging end times gives a time when one of them is present.             *)
LEMMA MergeEndType ==
  ASSUME NEW a \in Nat \cup {NoTime}, NEW b \in Nat \cup {NoTime}
  PROVE  MergeEnd(a, b) \in Nat \cup {NoTime}
BY DEF MergeEnd, Latest

(* A merged state is a state of the same span.                             *)
LEMMA MergeStateType ==
  ASSUME NEW x \in DomainSpanState, NEW y \in DomainSpanState
  PROVE  MergeState(x, y) \in DomainSpanState
<1>1. MergeLifecycle(x.lifecycle, y.lifecycle) \in Lifecycles
  BY MergeLifecycleType DEF DomainSpanState
<1>2. Least(x.start, y.start) \in Nat
  BY DEF DomainSpanState, Least
<1>3. MergeEnd(x.end, y.end) \in Nat \cup {NoTime}
  BY MergeEndType DEF DomainSpanState
<1>4. [f \in Fields |-> MergeOptional(x.fields[f], y.fields[f])]
        \in [Fields -> Values \cup {NoValue}]
  BY DEF DomainSpanState, MergeOptional
<1> QED
  BY <1>1, <1>2, <1>3, <1>4 DEF MergeState, DomainSpanState

(* The fields of a merged state.                                           *)
LEMMA MergeStateFields ==
  ASSUME NEW x \in DomainSpanState, NEW y \in DomainSpanState
  PROVE  LET z == MergeState(x, y)
         IN /\ z.trace = x.trace /\ z.parent = x.parent /\ z.kind = x.kind
            /\ z.lifecycle = MergeLifecycle(x.lifecycle, y.lifecycle)
            /\ z.start = Least(x.start, y.start)
            /\ z.end = MergeEnd(x.end, y.end)
            /\ \A f \in Fields : z.fields[f] = MergeOptional(x.fields[f], y.fields[f])
BY DEF MergeState, DomainSpanState

-----------------------------------------------------------------------------
(* The walk of detect_cycle.                                               *)

(* Every set of naturals with a member has a least one.                    *)
LEMMA LeastNatural ==
  ASSUME NEW T \in SUBSET Nat, T # {}
  PROVE  \E m \in T : \A k \in T : m <= k
<1> DEFINE R == OpToRel(<, Nat)
<1>1. \A x, y \in Nat : <<x, y>> \in R <=> x < y
  BY DEF OpToRel
<1>2. IsWellFoundedOn(R, Nat)
  BY NatLessThanWellFounded, Zenon DEF R
<1> HIDE DEF R
<1>3. PICK m \in T : \A k \in T : ~(<<k, m>> \in R)
  BY <1>2, WFMin
<1>4. \A k \in T : m <= k
  <2> SUFFICES ASSUME NEW k \in T PROVE m <= k
    OBVIOUS
  <2>1. k \in Nat /\ m \in Nat
    OBVIOUS
  <2>2. ~(k < m)
    BY <1>1, <1>3, <2>1, Zenon
  <2> QED BY <2>1, <2>2
<1> QED BY <1>4

(* A walk of len steps from s to its parents.                              *)
IsWalk(f, rows, s, len) ==
  f = [n \in 0 .. len |->
         IF n = 0 THEN s
         ELSE IF f[n - 1] = NoSpan THEN NoSpan ELSE ParentIn(rows, f[n - 1])]

(* There is one for every length: there would be a least length without.   *)
LEMMA WalkExists ==
  ASSUME NEW rows, NEW s, NEW len \in Nat
  PROVE  \E f : IsWalk(f, rows, s, len)
<1> DEFINE Walk(f, k) == IsWalk(f, rows, s, k)
           missing == {k \in Nat : \A f : ~Walk(f, k)}
<1>1. ASSUME missing # {} PROVE FALSE
  <2>1. PICK m \in missing : \A k \in missing : m <= k
    <3>1. missing \in SUBSET Nat
      OBVIOUS
    <3> HIDE DEF missing
    <3> QED BY <1>1, <3>1, LeastNatural
  <2>2. m # 0
    <3> DEFINE g == [n \in 0 .. 0 |-> s]
    <3>1. Walk(g, 0)
      BY DEF IsWalk
    <3> HIDE DEF g, Walk
    <3> QED BY <3>1
  <2>3. m - 1 \in Nat /\ m - 1 \notin missing
    BY <2>1, <2>2
  <2>4. PICK f : Walk(f, m - 1)
    <3> HIDE DEF Walk
    <3> QED BY <2>3
  <2> DEFINE g == [n \in 0 .. m |->
                     IF n # m THEN f[n]
                     ELSE IF f[m - 1] = NoSpan THEN NoSpan ELSE ParentIn(rows, f[m - 1])]
  <2>5. \A n \in 0 .. m :
          g[n] = IF n = 0 THEN s
                 ELSE IF g[n - 1] = NoSpan THEN NoSpan ELSE ParentIn(rows, g[n - 1])
    <3> TAKE n \in 0 .. m
    <3>1. m \in Nat /\ n \in Nat
      OBVIOUS
    <3>2. CASE n = m
      BY <2>2, <3>1, <3>2
    <3>3. CASE n # m
      <4>1. n \in 0 .. (m - 1) /\ g[n] = f[n]
        BY <3>1, <3>3
      <4>2. n # 0 => g[n - 1] = f[n - 1]
        BY <3>1, <3>3
      <4> HIDE DEF g
      <4>3. f[n] = IF n = 0 THEN s
                   ELSE IF f[n - 1] = NoSpan THEN NoSpan ELSE ParentIn(rows, f[n - 1])
        BY <2>4, <4>1 DEF IsWalk
      <4> QED BY <4>1, <4>2, <4>3
    <3> QED BY <3>2, <3>3
  <2>6. g = [n \in 0 .. m |-> g[n]]
    OBVIOUS
  <2> HIDE DEF g
  <2>7. Walk(g, m)
    BY <2>5, <2>6 DEF IsWalk
  <2> HIDE DEF Walk
  <2> QED BY <2>1, <2>7
<1> HIDE DEF Walk
<1>2. \E f : Walk(f, len)
  BY <1>1
<1> QED BY <1>2 DEF Walk

(* Ancestor is the walk that goes as far as there are spans.               *)
LEMMA AncestorWalks ==
  ASSUME NEW rows, NEW s
  PROVE  /\ Cardinality(Spans) \in Nat
         /\ IsWalk(Ancestor(rows, s), rows, s, Cardinality(Spans))
<1> DEFINE len == Cardinality(Spans)
           up == Ancestor(rows, s)
<1>1. len \in Nat
  BY SentinelAssumption, FS_CardinalityType
<1>2. up = CHOOSE f : IsWalk(f, rows, s, len)
  BY DEF Ancestor, IsWalk
<1> HIDE DEF len, up
<1>3. IsWalk(up, rows, s, len)
  BY <1>1, <1>2, WalkExists
<1> QED BY <1>1, <1>3 DEF len, up

(* It starts at the span itself.                                           *)
LEMMA WalkStarts ==
  ASSUME NEW rows, NEW s
  PROVE  Ancestor(rows, s)[0] = s
<1> DEFINE len == Cardinality(Spans)
           up == Ancestor(rows, s)
<1>1. len \in Nat /\ IsWalk(up, rows, s, len)
  BY AncestorWalks
<1> HIDE DEF len, up
<1>2. up[0] = s
  BY <1>1 DEF IsWalk
<1> QED BY <1>2 DEF up

=============================================================================
