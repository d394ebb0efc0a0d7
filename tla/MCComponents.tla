---------------------------- MODULE MCComponents ----------------------------
(***************************************************************************)
(* The components that share no state while they run: the directory of     *)
(* report views, the dashboard query service, the owner of the Codex       *)
(* configuration, the integration's transactions and the reducer. What     *)
(* they need of one another is what the module that stands for it says     *)
(* (PublishedView for the views, ConfigStatus for the configuration), so a *)
(* behaviour of this module is one of theirs; "part" says whose.           *)
(***************************************************************************)
EXTENDS ViewCatalog, CodexConfig, CodexIntegration, Reducer, Sequences, TLC

CONSTANTS
  ScanLimit, PageRows, MaxLeases, IdleTtl, HardTtl, MaxNow, MaxSequence,
  NoCursor, NoAnswer, NoTrace,
  Foreign

VARIABLES
  part,
  shown, published, leases, sequence, now, answer

----------------------------------------------------------------------------
(* Two views of up to four rows in three traces, and one query of each     *)
(* kind.                                                                   *)

Row(id, trace, session, turn, matches) ==
  [id |-> id, trace |-> trace, session |-> session, turn |-> turn, matches |-> matches]

Content == LET rows == <<Row(1, 1, 2, 0, {"all"}), Row(2, 1, 1, 1, {"all", "some"}),
                         Row(3, 2, 1, 1, {"all", "some"}), Row(4, 3, 2, 2, {"all"})>>
           IN <<rows, Tail(rows)>>

Bindings == {
  [view |-> 1, kind |-> "traces", filter |-> "all"],
  [view |-> 2, kind |-> "spans", filter |-> "all"],
  [view |-> 2, kind |-> "summary", filter |-> "some"],
  [view |-> 1, kind |-> "facets", filter |-> "all"]}

Query == INSTANCE DashboardQuery
queryVars == <<shown, published, leases, sequence, now, answer>>

----------------------------------------------------------------------------
(* No file; one with a notify command and an otel table of the user's; one *)
(* that holds a managed exporter already.                                  *)

Document(notify, exporter, otel, extra) ==
  [notify |-> notify, exporter |-> exporter, otel |-> otel, extra |-> extra]
MCOriginals == {NoFile, Document(Theirs, NoItem, "more", 1), Document(NoItem, <<1, 1>>, "bare", 2)}

----------------------------------------------------------------------------
(* No LaunchAgent, or one of the user's that runs.                         *)

MCPriorServices == {[plist |-> NoPlist, loaded |-> FALSE], [plist |-> Foreign, loaded |-> TRUE]}

----------------------------------------------------------------------------
(* A batch about one tool span in every lifecycle, three timings and a     *)
(* present or absent token counter, mixed with parents of legal, illegal   *)
(* and foreign kinds.                                                      *)

MCTraces == {"t1", "t2"}
MCSpans == {"turn", "tool", "perm"}
MCFields == {"tokens"}
MCValues == {1, 2}

Observed(span, trace, parent, kind, lifecycle, start, end, value) ==
  [span |-> span,
   state |-> [trace |-> trace, parent |-> parent, kind |-> kind,
              lifecycle |-> lifecycle, start |-> start, end |-> end,
              fields |-> [f \in MCFields |-> value]]]

MCObservations ==
  {Observed("tool", "t1", "turn", "tool_execution", l, t[1], t[2], v) :
     l \in {"observed", "running", "completed", "failed"},
     t \in {<<2, NoTime>>, <<1, 4>>, <<3, 3>>},
     v \in {NoValue, 1}}
  \cup {Observed("tool", "t1", "turn", "tool_execution", "running", 2, NoTime, 2),
        Observed("tool", "t1", "turn", "tool_execution", "running", 2, 1, NoValue),
        Observed("tool", "t2", "turn", "tool_execution", "running", 2, NoTime, NoValue),
        Observed("tool", "t1", NoSpan, "tool_execution", "running", 2, NoTime, NoValue),
        Observed("turn", "t1", NoSpan, "turn", "running", 1, NoTime, NoValue),
        Observed("turn", "t2", NoSpan, "turn", "running", 1, NoTime, NoValue),
        Observed("turn", "t1", "tool", "turn", "running", 1, NoTime, NoValue),
        Observed("perm", "t1", "turn", "permission", "running", 1, NoTime, NoValue),
        Observed("perm", "t1", "tool", "permission", "running", 1, NoTime, NoValue),
        Observed("perm", "t1", "perm", "permission", "running", 1, NoTime, NoValue)}

ASSUME BatchAssumption == WellFormedBatch

----------------------------------------------------------------------------
MCInit ==
  /\ part \in {"directory", "query", "config", "integration", "reducer"}
  /\ Init /\ Query!Init /\ ConfigInit /\ IntegrationInit /\ ReducerInit
  /\ part # "config" => config = NoFile
  /\ part # "integration" => txn = NoTxn /\ settings = NoSettings /\ original.plist = NoPlist

DirectoryStep ==
  /\ part = "directory" /\ Next
  /\ UNCHANGED <<part, queryVars, configVars, integrationVars, reducerVars>>
QueryStep ==
  /\ part = "query" /\ Query!Next
  /\ UNCHANGED <<part, vars, configVars, integrationVars, reducerVars>>
ConfigStep ==
  /\ part = "config" /\ ConfigNext
  /\ UNCHANGED <<part, vars, queryVars, integrationVars, reducerVars>>
IntegrationStep ==
  /\ part = "integration" /\ IntegrationNext
  /\ UNCHANGED <<part, vars, queryVars, configVars, reducerVars>>
\* Every batch has a reducer of its own.
ReducerStep ==
  /\ part = "reducer"
  /\ \/ ReducerNext
     \/ result # "reducing" /\ batch' = {} /\ result' = "reducing"
        /\ states' = [s \in Spans |-> NoState]
  /\ UNCHANGED <<part, vars, queryVars, configVars, integrationVars>>

MCNext ==
  \/ DirectoryStep \/ QueryStep \/ ConfigStep \/ IntegrationStep \/ ReducerStep

MCSpec ==
  MCInit /\ [][MCNext]_<<part, vars, queryVars, configVars, integrationVars, reducerVars>>

----------------------------------------------------------------------------
\* The pages of one dashboard query, however they are cut, repeated and
\* pushed out, show exactly what the query means on its one view.
PagesTileTheView == Query!PagesTileTheView
=============================================================================
