--------------------------- MODULE MCIntegration ----------------------------
(***************************************************************************)
(* The integration alone, for the runs that show where the documents and   *)
(* the code disagree: one executable, one port, and a LaunchAgent of the   *)
(* user's or none.                                                         *)
(***************************************************************************)
EXTENDS CodexIntegration

CONSTANT Foreign

MCPriorServices == {[plist |-> NoPlist, loaded |-> FALSE], [plist |-> Foreign, loaded |-> TRUE]}
=============================================================================
