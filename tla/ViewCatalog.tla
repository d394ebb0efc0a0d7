---------------------------- MODULE ViewCatalog ----------------------------
(***************************************************************************)
(* The managed report view directory: report_view.rs builds a staging file *)
(* and report_view_catalog.rs publishes it, retires all views before a     *)
(* deletion, sweeps what interrupted calls left behind and opens views for *)
(* queries. Builders, deleters, recoverers and queries exclude each other  *)
(* by the render guard, a file lock that a dying process lets go; ingest   *)
(* takes no guard, and only waits for a deleting transaction. "step" is    *)
(* what the owner of the guard does next, "work" what it works on. Any     *)
(* call may break off before any of its steps, by an error or a crash.     *)
(***************************************************************************)
EXTENDS Integers, FiniteSets

CONSTANTS
  Records,
  Names,           \* staging file names: process id and a sequence number
  MaxEntries,      \* MAX_MANAGED_DIRECTORY_ENTRIES
  MaxGeneration,
  NoCatalog, NoView

View == [generation : Nat, epoch : Nat, name : Names, rows : SUBSET Records]
Catalog == [epoch : Nat, current : View, retired : View \cup {NoView}]

ASSUME CatalogAssumption ==
  /\ NoView \notin View
  /\ NoCatalog \notin Catalog

\* Two named views, a third being published, an unfinished catalog file and
\* the catalog itself: the code's limit of 16 leaves room for that.
ASSUME BoundAssumption ==
  MaxEntries \in Nat /\ MaxEntries >= 5 /\ MaxGeneration \in Nat

VARIABLES
  content,      \* the records a report shows
  generation,   \* the report generation
  epoch,        \* the visibility epoch
  catalog,      \* the catalog file
  views,        \* the immutable view files
  staged,       \* the names of the staging files
  temps,        \* unfinished catalog files
  step, work    \* the owner of the render guard

store == <<content, generation, epoch>>
directory == <<catalog, views, staged, temps>>
vars == <<store, directory, step, work>>

Steps == {"free", "clear", "create", "visit", "complete", "fence", "rename", "record",
          "sweep", "purge", "delete", "deleted", "recover", "query"}

Retained(c) == IF c = NoCatalog THEN {} ELSE {c.current, c.retired} \ {NoView}

\* Two files have one name when generation, epoch and staging name agree.
SameFile(v, w) ==
  v.generation = w.generation /\ v.epoch = w.epoch /\ v.name = w.name

Entries ==
  Cardinality(views) + Cardinality(staged) + temps
    + (IF catalog = NoCatalog THEN 0 ELSE 1)

\* A catalog of another epoch is removed before anything else is touched.
Authoritative(c) == IF c # NoCatalog /\ c.epoch = epoch THEN c ELSE NoCatalog

Init ==
  /\ content = {} /\ generation = 0 /\ epoch = 0
  /\ catalog = NoCatalog /\ views = {} /\ staged = {} /\ temps = 0
  /\ step = "free" /\ work = NoView

Release == step' = "free" /\ work' = NoView

Ingest ==
  /\ step \notin {"purge", "delete"}
  /\ generation < MaxGeneration
  /\ \E r \in Records \ content : content' = content \cup {r}
  /\ generation' = generation + 1
  /\ UNCHANGED <<epoch, directory, step, work>>

BuildBegin ==
  /\ step = "free"
  /\ step' = "clear"
  /\ catalog' = Authoritative(catalog)
  /\ UNCHANGED <<store, views, staged, temps, work>>

(* Mutant: only the current view is kept.                                  *)
CleanupRetired(preserved) ==
  /\ Entries <= MaxEntries
  /\ Retained(catalog) \subseteq views
  /\ views' = IF catalog = NoCatalog THEN {} ELSE {catalog.current}
  /\ staged' = staged \cap preserved
  /\ temps' = 0
(* Mutant: one unfinished catalog file is removed without looking for it.  *)
CleanupOneTemp(preserved) ==
  /\ Entries <= MaxEntries
  /\ Retained(catalog) \subseteq views
  /\ views' = views \cap Retained(catalog)
  /\ staged' = staged \cap preserved
  /\ temps' = temps - 1
\* cleanup_orphans: everything goes that the catalog does not name and the
\* caller does not preserve.
CleanupOrphans(preserved) ==
  /\ Entries <= MaxEntries
  /\ Retained(catalog) \subseteq views
  /\ views' = views \cap Retained(catalog)
  /\ staged' = staged \cap preserved
  /\ temps' = 0

(* Mutant: a build does not clean up after earlier ones.                   *)
BuildOnTop ==
  /\ step = "clear"
  /\ step' = "create"
  /\ UNCHANGED <<store, directory, work>>
BuildClear ==
  /\ step = "clear"
  /\ CleanupOrphans({})
  /\ step' = "create"
  /\ UNCHANGED <<store, catalog, work>>

BuildStage ==
  /\ step = "create"
  /\ \E n \in Names \ staged :
       /\ staged' = staged \cup {n}
       /\ work' = [generation |-> 0, epoch |-> epoch, name |-> n, rows |-> {}]
  /\ step' = "visit"
  /\ UNCHANGED <<store, catalog, views, temps>>

\* The projection reads one snapshot of the records and its generation.
BuildVisit ==
  /\ step = "visit"
  /\ work' = [work EXCEPT !.generation = generation, !.rows = content]
  /\ step' = "complete"
  /\ UNCHANGED <<store, directory>>

SourceSnapshotIsCurrent == work.generation = generation /\ work.epoch = epoch

BuildComplete ==
  /\ step = "complete"
  /\ SourceSnapshotIsCurrent
  /\ step' = "fence"
  /\ UNCHANGED <<store, directory, work>>

PublishFence ==
  /\ step = "fence"
  /\ SourceSnapshotIsCurrent
  /\ catalog # NoCatalog => catalog.epoch = epoch
  /\ CleanupOrphans({work.name})
  /\ step' = "rename"
  /\ UNCHANGED <<store, catalog, work>>

PublishRename ==
  /\ step = "rename"
  /\ ~ \E v \in views : SameFile(v, work)
  /\ views' = views \cup {work}
  /\ staged' = staged \ {work.name}
  /\ step' = "record"
  /\ UNCHANGED <<store, catalog, temps, work>>

(* Mutant: the view that was current is forgotten.                         *)
PublishForgets ==
  /\ step = "record"
  /\ catalog' = [epoch |-> work.epoch, current |-> work, retired |-> NoView]
  /\ step' = "sweep"
  /\ UNCHANGED <<store, views, staged, temps, work>>
PublishCatalog ==
  /\ step = "record"
  /\ catalog' = [epoch |-> work.epoch, current |-> work,
                 retired |-> IF catalog = NoCatalog THEN NoView ELSE catalog.current]
  /\ step' = "sweep"
  /\ UNCHANGED <<store, views, staged, temps, work>>

PublishSweep ==
  /\ step = "sweep"
  /\ CleanupOrphans({})
  /\ Release
  /\ UNCHANGED <<store, catalog>>

\* A retention call or a maintenance pass that hides a trace: the views go
\* before the transaction commits. A pass keeps the guard and may hide more.
RetireCatalog ==
  /\ step = "free"
  /\ content # {}
  /\ generation < MaxGeneration
  /\ catalog' = NoCatalog
  /\ step' = "purge"
  /\ UNCHANGED <<store, views, staged, temps, work>>

RetireSweep ==
  /\ step = "purge"
  /\ CleanupOrphans({})
  /\ step' = "delete"
  /\ UNCHANGED <<store, catalog, work>>

DeleteCommit ==
  /\ step \in {"delete", "deleted"}
  /\ generation < MaxGeneration
  /\ \E gone \in (SUBSET content) \ {{}} : content' = content \ gone
  /\ generation' = generation + 1
  /\ epoch' = epoch + 1
  /\ step' = "deleted"
  /\ UNCHANGED <<directory, work>>

RetireDone ==
  /\ step = "deleted"
  /\ Release
  /\ UNCHANGED <<store, directory>>

RecoverBegin ==
  /\ step = "free"
  /\ catalog' = Authoritative(catalog)
  /\ step' = "recover"
  /\ UNCHANGED <<store, views, staged, temps, work>>

RecoverSweep ==
  /\ step = "recover"
  /\ CleanupOrphans({})
  /\ Release
  /\ UNCHANGED <<store, catalog>>

\* with_report_view_snapshot: the guard is held while the view is open.
QueryOpen ==
  /\ step = "free"
  /\ catalog # NoCatalog
  /\ catalog.epoch = epoch
  /\ Retained(catalog) \subseteq views
  /\ work' \in Retained(catalog)
  /\ step' = "query"
  /\ UNCHANGED <<store, directory>>

QueryClose ==
  /\ step = "query"
  /\ Release
  /\ UNCHANGED <<store, directory>>

\* An error or a crash: a sweep may have removed a part, a staging file may
\* stay or have been dropped, a catalog file may be left half written.
BrokenOff ==
  /\ step # "free"
  /\ CASE step \in {"clear", "sweep", "purge", "recover"} ->
            /\ \E kept \in SUBSET (views \ Retained(catalog)) :
                 views' = (views \cap Retained(catalog)) \cup kept
            /\ staged' \in SUBSET staged
            /\ temps' \in 0..temps
       [] step \in {"visit", "complete", "fence", "rename"} ->
            /\ staged' \in {staged, staged \ {work.name}}
            /\ UNCHANGED <<views, temps>>
       [] step = "record" ->
            /\ temps' \in {temps, temps + 1}
            /\ UNCHANGED <<views, staged>>
       [] OTHER -> UNCHANGED <<views, staged, temps>>
  /\ Release
  /\ UNCHANGED <<store, catalog>>

Next ==
  \/ Ingest
  \/ BuildBegin \/ BuildClear \/ BuildStage \/ BuildVisit \/ BuildComplete
  \/ PublishFence \/ PublishRename \/ PublishCatalog \/ PublishSweep
  \/ RetireCatalog \/ RetireSweep \/ DeleteCommit \/ RetireDone
  \/ RecoverBegin \/ RecoverSweep
  \/ QueryOpen \/ QueryClose
  \/ BrokenOff

Spec == Init /\ [][Next]_vars

----------------------------------------------------------------------------
(* Properties *)

TypeOK ==
  /\ content \in SUBSET Records /\ generation \in Nat /\ epoch \in Nat
  /\ catalog \in Catalog \cup {NoCatalog}
  /\ views \in SUBSET View /\ staged \in SUBSET Names /\ temps \in Nat
  /\ step \in Steps /\ work \in View \cup {NoView}

\* A catalog is either absent or of the store's epoch, and every view it
\* names is a complete file on disk: no interruption of publish, retire or
\* recover leaves a catalog that points at nothing or at revoked data.
CatalogIsReadable ==
  catalog # NoCatalog =>
    /\ catalog.epoch = epoch
    /\ Retained(catalog) \subseteq views
    /\ \A v \in Retained(catalog) : v.epoch = epoch

\* However often calls break off, the managed directory never holds more
\* entries than cleanup_orphans accepts; one more and every later build,
\* retirement and recovery would refuse to run.
DirectoryBounded == Entries <= MaxEntries

\* The readable views as PublishedView knows them.
Shown ==
  IF Authoritative(catalog) = NoCatalog THEN <<>>
  ELSE IF catalog.retired = NoView THEN <<catalog.current.rows>>
  ELSE <<catalog.current.rows, catalog.retired.rows>>

Abstract == INSTANCE PublishedView WITH
  shown <- Shown,
  reading <- IF step = "query" THEN work.rows ELSE NoView

\* The directory implements the promise to readers: a query never reads a
\* record that was deleted, the view before the current one stays readable
\* over one publication, and no publication shows less than the one before.
ImplementsPublishedView == Abstract!Spec
=============================================================================
