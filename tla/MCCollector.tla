----------------------------- MODULE MCCollector -----------------------------
(***************************************************************************)
(* The parts of the collector that share no state while they run: the      *)
(* refreshes of the report, the correlation of requests with responses,    *)
(* the private turn details and the locks of the writers. A behaviour of   *)
(* this module is one of theirs; "part" says whose. The slots of the       *)
(* refresh tasks and the contents of turns are interchangeable.            *)
(***************************************************************************)
EXTENDS ReportRefresh, RequestCorrelation, PrivateTurns, StorageBarrier, TLC

VARIABLE part

----------------------------------------------------------------------------
(* Two conversations; a raw and a hashed id, none, a request that failed,  *)
(* requests and responses alone and in the same export.                    *)

StartOf(key, id, ok) == [kind |-> "start", key |-> key, id |-> id, ok |-> ok]
ResponseTo(key, id) == [kind |-> "response", key |-> key, id |-> id, ok |-> TRUE]

RawA == <<"raw", "a">>
HashB == <<"hash", "b">>

MCExports == {
  <<StartOf("k", RawA, TRUE)>>, <<StartOf("k", HashB, TRUE)>>, <<StartOf("k", NoId, TRUE)>>,
  <<StartOf("k", RawA, FALSE)>>, <<ResponseTo("k", NoId)>>, <<ResponseTo("k", RawA)>>,
  <<StartOf("l", NoId, TRUE), StartOf("k", RawA, TRUE)>>,
  <<StartOf("k", HashB, TRUE), ResponseTo("k", NoId)>>,
  <<StartOf("k", RawA, TRUE), ResponseTo("k", RawA)>>,
  <<ResponseTo("k", RawA), ResponseTo("l", NoId)>>,
  <<StartOf(NoKey, RawA, TRUE)>>}

----------------------------------------------------------------------------
MCInit ==
  /\ part \in {"refresh", "correlation", "turns", "barrier"}
  /\ Init /\ CorrelationInit /\ TurnsInit /\ BarrierInit

RefreshStep ==
  /\ part = "refresh" /\ Next
  /\ UNCHANGED <<part, correlationVars, turnVars, barrierVars>>
CorrelationStep ==
  /\ part = "correlation" /\ CorrelationNext
  /\ UNCHANGED <<part, vars, turnVars, barrierVars>>
TurnsStep ==
  /\ part = "turns" /\ TurnsNext
  /\ UNCHANGED <<part, vars, correlationVars, barrierVars>>
BarrierStep ==
  /\ part = "barrier" /\ BarrierNext
  /\ UNCHANGED <<part, vars, correlationVars, turnVars>>

MCNext == RefreshStep \/ CorrelationStep \/ TurnsStep \/ BarrierStep

MCSpec == MCInit /\ [][MCNext]_<<part, vars, correlationVars, turnVars, barrierVars>>

(* For every guard and invariant of the refresh, a generation is either    *)
(* the current one or an older one, which it stays: which older one it is  *)
(* makes no difference. So it is with the counts of requests a task read.  *)
Age(g) == IF g \in {store.generation, NoView} THEN g ELSE store.generation + 1

UpToAge ==
  <<part, store.generation, Pending, Age(view), files.reservation, files.staging, files.marker,
    files.html = store.generation, alive, scheduled, requested, call,
    [t \in Tasks |-> [task[t] EXCEPT !.generation = Age(@), !.seen = (@ = requested),
                                     !.epoch = (@ = requested)]], Age(observed), degraded,
    faults, crashes, tried, Age(rendering), correlationVars, turnVars, barrierVars>>

Interchangeable == Permutations(Tasks) \cup Permutations(Contents)
=============================================================================
