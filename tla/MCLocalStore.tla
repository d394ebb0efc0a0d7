---------------------------- MODULE MCLocalStore ----------------------------
(***************************************************************************)
(* Small instances of the local store. Trace t1 has a session "a" that is  *)
(* seen running and then completed and a turn "b" below it; trace t2 has   *)
(* the session "c". The remaining observations are the ones that must not  *)
(* get in: an event id reused with other content, another terminal state,  *)
(* a child that claims a parent in another trace.                          *)
(***************************************************************************)
EXTENDS LocalStore, TLC

MCTraces == {"t1", "t2"}
MCSpans == {"a", "b", "c"}

Event(id, span, trace, parent, kind, lifecycle, start, end) ==
  [id |-> id, span |-> span,
   state |-> [trace |-> trace, parent |-> parent, kind |-> kind,
              lifecycle |-> lifecycle, start |-> start, end |-> end,
              fields |-> [f \in {} |-> NoValue]]]

ARunning   == Event("e1", "a", "t1", NoSpan, "agent_session", "running", 1, NoTime)
ACompleted == Event("e2", "a", "t1", NoSpan, "agent_session", "completed", 1, 2)
AFailed    == Event("e3", "a", "t1", NoSpan, "agent_session", "failed", 1, 2)
AReused    == Event("e1", "a", "t1", NoSpan, "agent_session", "completed", 1, 1)
BRunning   == Event("e4", "b", "t1", "a", "turn", "running", 1, NoTime)
BForeign   == Event("e5", "b", "t2", "a", "turn", "running", 1, NoTime)
CRunning   == Event("e6", "c", "t2", NoSpan, "agent_session", "running", 1, NoTime)

AElsewhere == Event("e8", "a", "t2", NoSpan, "agent_session", "running", 1, NoTime)
BSession   == Event("e7", "b", "t1", NoSpan, "agent_session", "running", 1, NoTime)

IngestObservations == {ARunning, ACompleted, AFailed, AReused, BRunning, BForeign}
LifecycleObservations == {ARunning, ACompleted, BRunning, CRunning}
RetentionObservations == {ARunning, ACompleted, BRunning, CRunning}
ReplayObservations == {ARunning, BSession}
LateObservations == {ACompleted, BRunning}
ReuseObservations == {ARunning, AElsewhere, BRunning}

MCDiagnostics == {[kind |-> "diagnostic", code |-> "unsupported_event", hash |-> "h"]}
=============================================================================
