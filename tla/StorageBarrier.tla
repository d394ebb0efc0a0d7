--------------------------- MODULE StorageBarrier ---------------------------
(***************************************************************************)
(* How the writers of one runtime root keep apart. A short mutation holds  *)
(* the mutation lock and, once the accounting lock has been created, also  *)
(* that one: shared, or exclusively when it needs a cut in which nobody    *)
(* else writes. Long writers (the projection of a report, the start of a   *)
(* process) hold only the accounting lock, shared. A writer looks once for *)
(* the accounting lock and goes on without it when there is none; it may   *)
(* be created at any later moment by somebody who holds the mutation lock. *)
(*                                                                         *)
(* The locks are advisory and belong to open files: a process that dies    *)
(* releases them. Nothing in the program removes the accounting lock.      *)
(***************************************************************************)
CONSTANTS Writers, Nobody, NotWriting

ASSUME WritersAssumption == Nobody \notin Writers

VARIABLES
  barrier,     \* runtime/storage-accounting.lock exists
  calls,       \* writer to what it is doing: [kind, waits, seen, step], or NotWriting
  mutation,    \* who holds runtime/mutation.lock
  shared,      \* who hold the accounting lock shared
  cut          \* who holds it exclusively

barrierVars == <<barrier, calls, mutation, shared, cut>>

\* StorageMutationWriter::acquire and acquire_exclusive (and
\* try_freeze_existing_root, which asks for the same locks), a
\* ReportMutationScope, try_begin_write, and the bootstrap
WriterKinds == {"shared", "exclusive", "report", "permit", "bootstrap"}

BarrierTypes ==
  /\ barrier \in BOOLEAN
  /\ calls \in [Writers -> {NotWriting} \cup [kind : WriterKinds, waits : BOOLEAN, seen : BOOLEAN,
                  step : {"found", "checked", "owner", "permitted", "working", "leaving"}]]
  /\ mutation \in Writers \cup {Nobody}
  /\ shared \subseteq Writers
  /\ cut \in Writers \cup {Nobody}

BarrierInit ==
  /\ barrier = FALSE
  /\ calls = [w \in Writers |-> NotWriting]
  /\ mutation = Nobody /\ shared = {} /\ cut = Nobody

----------------------------------------------------------------------------
Reached(w, step) == calls[w] # NotWriting /\ calls[w].step = step
IsKind(w, kind) == calls[w].kind = kind
MovesTo(w, step) == calls' = [calls EXCEPT ![w].step = step]

\* The guards drop their locks, the accounting lock before the mutation lock.
ReleaseAccounting(w) ==
  /\ shared' = shared \ {w}
  /\ cut' = IF cut = w THEN Nobody ELSE cut
ReleaseMutation(w) == mutation' = IF mutation = w THEN Nobody ELSE mutation
GoneAway(w) ==
  /\ calls' = [calls EXCEPT ![w] = NotWriting]
  /\ ReleaseAccounting(w) /\ ReleaseMutation(w)

WantsCut(w) == IsKind(w, "exclusive") \/ IsKind(w, "report")

\* The lock appeared although the writer found none. Only a
\* StorageMutationWriter looks.
Surprised(w) == ~calls[w].seen /\ barrier /\ calls[w].kind \in {"shared", "exclusive"}

----------------------------------------------------------------------------
(* StorageBarrier::open_if_initialized, by the caller                      *)
Discover(w, kind, waits) ==
  /\ calls[w] = NotWriting
  /\ waits => kind \in {"shared", "exclusive"}
  /\ calls' = [calls EXCEPT ![w] =
       [kind |-> kind, waits |-> waits, seen |-> barrier, step |-> "found"]]
  /\ UNCHANGED <<barrier, mutation, shared, cut>>

\* The head of StorageMutationWriter::acquire_with
CheckScope(w) ==
  /\ Reached(w, "found") /\ ~IsKind(w, "permit")
  /\ IF Surprised(w)
     THEN GoneAway(w)
     ELSE MovesTo(w, "checked") /\ UNCHANGED <<mutation, shared, cut>>
  /\ UNCHANGED barrier

\* A writer that waits stays blocked in lock_exclusive.
TakeMutation(w) ==
  /\ Reached(w, "checked")
  /\ \/ /\ mutation = Nobody /\ mutation' = w /\ MovesTo(w, "owner")
        /\ UNCHANGED <<shared, cut>>
     \/ /\ mutation # Nobody /\ ~calls[w].waits /\ GoneAway(w)
  /\ UNCHANGED barrier

\* StorageBarrier::acquire tries once; a report writer without a barrier just
\* goes on.
TakeAccounting(w) ==
  /\ \/ Reached(w, "owner") /\ ~IsKind(w, "bootstrap")
     \/ Reached(w, "found") /\ IsKind(w, "permit")
  /\ \/ /\ ~calls[w].seen
        /\ MovesTo(w, IF IsKind(w, "permit") THEN "working" ELSE "permitted")
        /\ UNCHANGED <<mutation, shared, cut>>
     \/ /\ calls[w].seen /\ cut = Nobody
        /\ IF WantsCut(w)
           THEN shared = {} /\ cut' = w /\ shared' = shared
           ELSE shared' = shared \cup {w} /\ cut' = cut
        /\ MovesTo(w, "permitted") /\ UNCHANGED mutation
     \/ /\ calls[w].seen
        /\ cut # Nobody \/ (WantsCut(w) /\ shared # {})
        /\ GoneAway(w)
  /\ UNCHANGED barrier

(* Mutant: the scope is not looked at again once its locks are held.       *)
RevalidateLocksOnly(w) ==
  /\ Reached(w, "permitted") /\ MovesTo(w, "working")
  /\ UNCHANGED <<barrier, mutation, shared, cut>>
\* StorageMutationWriter::revalidate
Revalidate(w) ==
  /\ Reached(w, "permitted")
  /\ IF Surprised(w)
     THEN GoneAway(w)
     ELSE MovesTo(w, "working") /\ UNCHANGED <<mutation, shared, cut>>
  /\ UNCHANGED barrier

\* StorageBarrier::initialize: an existing lock is left as it is.
InitializeBarrier(w) ==
  /\ Reached(w, "owner") /\ IsKind(w, "bootstrap")
  /\ barrier' = TRUE
  /\ MovesTo(w, "working")
  /\ UNCHANGED <<mutation, shared, cut>>

FinishWrite(w) ==
  /\ Reached(w, "working") /\ MovesTo(w, "leaving") /\ ReleaseAccounting(w)
  /\ UNCHANGED <<barrier, mutation>>

LeaveScope(w) == Reached(w, "leaving") /\ GoneAway(w) /\ UNCHANGED barrier

\* The process dies, or the call fails for a reason of its own.
AbandonScope(w) == calls[w] # NotWriting /\ GoneAway(w) /\ UNCHANGED barrier

BarrierNext ==
  \E w \in Writers :
    \/ \E kind \in WriterKinds, waits \in BOOLEAN : Discover(w, kind, waits)
    \/ CheckScope(w) \/ TakeMutation(w) \/ TakeAccounting(w) \/ Revalidate(w)
    \/ InitializeBarrier(w) \/ FinishWrite(w) \/ LeaveScope(w) \/ AbandonScope(w)

BarrierSpec == BarrierInit /\ [][BarrierNext]_barrierVars

----------------------------------------------------------------------------
Cut(w) == Reached(w, "working") /\ (IsKind(w, "exclusive") \/ (IsKind(w, "report") /\ calls[w].seen))

\* While a writer works in a cut it asked for, nobody else writes, also when
\* the accounting lock was created in the middle of either's acquisition.
\* Excepted are long writers that found no lock: they take part in nothing,
\* before and after it is created, and a report scope that found none makes
\* no cut.
CutExcludesWriters ==
  \A w, v \in Writers :
    w # v /\ Cut(w) /\ Reached(v, "working") => IsKind(v, "permit") /\ ~calls[v].seen
=============================================================================
