--------------------------- MODULE PublishedView ---------------------------
(***************************************************************************)
(* What the report view catalog promises its readers. A reader sees the    *)
(* current view or the one before it, or none; a view shows records the    *)
(* store still holds, each publication shows at least what the one before  *)
(* it showed, and records only disappear while nothing is shown and nobody *)
(* reads. ViewCatalog implements this with files that may be left behind   *)
(* anywhere; DashboardQuery relies on it.                                  *)
(***************************************************************************)
EXTENDS Naturals, Sequences

CONSTANTS Records, NoView

VARIABLES
  content,   \* the records a report may show
  shown,     \* the readable views, newest first
  reading    \* the view an open query reads

pvars == <<content, shown, reading>>

ShownViews == {shown[i] : i \in 1..Len(shown)}

Init ==
  /\ content = {}
  /\ shown = <<>>
  /\ reading = NoView

Ingest ==
  /\ \E r \in Records : content' = content \cup {r}
  /\ UNCHANGED <<shown, reading>>

\* The new view moves the current one to the second place; the third goes.
Publish ==
  /\ reading = NoView
  /\ \E rows \in SUBSET content :
       /\ shown # <<>> => shown[1] \subseteq rows
       /\ shown' = IF shown = <<>> THEN <<rows>> ELSE <<rows, shown[1]>>
  /\ UNCHANGED <<content, reading>>

Hide ==
  /\ reading = NoView
  /\ shown' = <<>>
  /\ UNCHANGED <<content, reading>>

Delete ==
  /\ reading = NoView
  /\ shown = <<>>
  /\ \E gone \in SUBSET content : content' = content \ gone
  /\ UNCHANGED <<shown, reading>>

Open ==
  /\ reading = NoView
  /\ reading' \in ShownViews
  /\ UNCHANGED <<content, shown>>

Close ==
  /\ reading' = NoView
  /\ UNCHANGED <<content, shown>>

Next == Ingest \/ Publish \/ Hide \/ Delete \/ Open \/ Close

Spec == Init /\ [][Next]_pvars
=============================================================================
