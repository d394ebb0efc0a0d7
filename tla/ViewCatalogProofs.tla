------------------------- MODULE ViewCatalogProofs -------------------------
(***************************************************************************)
(* The report view directory implements PublishedView, for any records,    *)
(* any staging names and any number of interruptions. CatalogInv adds to   *)
(* the type invariant what each owner of the render guard may rely on at   *)
(* its next step; Few bounds what interrupted calls leave behind.          *)
(***************************************************************************)
EXTENDS ViewCatalog, Sequences, FiniteSetTheorems, TLAPS

Working == {"visit", "complete", "fence", "rename", "record", "sweep"}
Visited == {"complete", "fence", "rename", "record"}

\* The work of a builder, the absence of a catalog while records are being
\* deleted, and the rows of the named views.
WorkInv ==
  /\ step \in Working \cup {"query"} => work \in View
  /\ step \in Working => work.epoch = epoch
  /\ step \in Visited =>
       /\ work.rows \subseteq content
       /\ catalog # NoCatalog => catalog.current.rows \subseteq work.rows
  /\ step \in {"record", "sweep"} => work \in views
  /\ step \in {"purge", "delete", "deleted"} => catalog = NoCatalog

NamedAreKept ==
  catalog # NoCatalog => \A v \in Retained(catalog) : v.rows \subseteq content

CatalogInv == TypeOK /\ CatalogIsReadable /\ WorkInv /\ NamedAreKept

\* What a catalog retains are views.
LEMMA RetainedTypes ==
  ASSUME NEW c \in Catalog
  PROVE  /\ c # NoCatalog
         /\ c.current \in Retained(c) /\ c.current \in View
         /\ Retained(c) \subseteq View
         /\ Retained(c) = IF c.retired = NoView THEN {c.current}
                          ELSE {c.current, c.retired}
BY CatalogAssumption DEF Retained, Catalog

\* The first directory is empty.
LEMMA InitCatalogInv == Init => CatalogInv
BY DEF Init, CatalogInv, TypeOK, CatalogIsReadable, WorkInv, NamedAreKept, Steps, Working, Visited

\* Every step leaves its owner what the next one relies on.
LEMMA StepCatalogInv == CatalogInv /\ [Next]_vars => CatalogInv'
<1> SUFFICES ASSUME CatalogInv, [Next]_vars PROVE CatalogInv'
  OBVIOUS
<1> USE CatalogAssumption DEF CatalogInv
<1>1. CASE BuildBegin
  BY <1>1 DEF BuildBegin, Authoritative, TypeOK, CatalogIsReadable, WorkInv, NamedAreKept, Steps, Working, Visited, Retained, vars, store, directory
<1>2. CASE BuildClear
  BY <1>2 DEF BuildClear, CleanupOrphans, TypeOK, CatalogIsReadable, WorkInv, NamedAreKept, Steps, Working, Visited, Retained, vars, store, directory
<1>3. CASE BuildStage
  <2>1. TypeOK'
    BY <1>3 DEF BuildStage, TypeOK, CatalogIsReadable, WorkInv, NamedAreKept, Steps, Working, Visited, Retained, vars, store, directory, View, Catalog
  <2>2. CatalogIsReadable'
    BY <1>3 DEF BuildStage, TypeOK, CatalogIsReadable, WorkInv, NamedAreKept, Steps, Working, Visited, Retained, vars, store, directory, View, Catalog
  <2>3. WorkInv'
    BY <1>3 DEF BuildStage, TypeOK, CatalogIsReadable, WorkInv, NamedAreKept, Steps, Working, Visited, Retained, vars, store, directory, View, Catalog
  <2>4. NamedAreKept'
    BY <1>3 DEF BuildStage, TypeOK, CatalogIsReadable, WorkInv, NamedAreKept, Steps, Working, Visited, Retained, vars, store, directory, View, Catalog
  <2>5. QED
    BY <2>1, <2>2, <2>3, <2>4
<1>4. CASE BuildVisit
  <2>1. TypeOK'
    BY <1>4 DEF BuildVisit, TypeOK, CatalogIsReadable, WorkInv, NamedAreKept, Steps, Working, Visited, Retained, vars, store, directory, View, Catalog
  <2>2. CatalogIsReadable'
    BY <1>4 DEF BuildVisit, TypeOK, CatalogIsReadable, WorkInv, NamedAreKept, Steps, Working, Visited, Retained, vars, store, directory, View, Catalog
  <2>3. WorkInv'
    BY <1>4 DEF BuildVisit, TypeOK, CatalogIsReadable, WorkInv, NamedAreKept, Steps, Working, Visited, Retained, vars, store, directory, View, Catalog
  <2>4. NamedAreKept'
    BY <1>4 DEF BuildVisit, TypeOK, CatalogIsReadable, WorkInv, NamedAreKept, Steps, Working, Visited, Retained, vars, store, directory, View, Catalog
  <2>5. QED
    BY <2>1, <2>2, <2>3, <2>4
<1>5. CASE BuildComplete
  BY <1>5 DEF BuildComplete, TypeOK, CatalogIsReadable, WorkInv, NamedAreKept, Steps, Working, Visited, Retained, vars, store, directory
<1>6. CASE PublishFence
  BY <1>6 DEF PublishFence, CleanupOrphans, SourceSnapshotIsCurrent, TypeOK, CatalogIsReadable, WorkInv, NamedAreKept, Steps, Working, Visited, Retained, vars, store, directory
<1>7. CASE PublishRename
  BY <1>7 DEF PublishRename, TypeOK, CatalogIsReadable, WorkInv, NamedAreKept, Steps, Working, Visited, Retained, vars, store, directory
<1>8. CASE PublishCatalog
  <2>1. TypeOK'
    BY <1>8 DEF PublishCatalog, TypeOK, CatalogIsReadable, WorkInv, NamedAreKept, Steps, Working, Visited, Retained, vars, store, directory, View, Catalog
  <2>2. CatalogIsReadable'
    BY <1>8 DEF PublishCatalog, TypeOK, CatalogIsReadable, WorkInv, NamedAreKept, Steps, Working, Visited, Retained, vars, store, directory, View, Catalog
  <2>3. WorkInv'
    BY <1>8 DEF PublishCatalog, TypeOK, CatalogIsReadable, WorkInv, NamedAreKept, Steps, Working, Visited, Retained, vars, store, directory, View, Catalog
  <2>4. NamedAreKept'
    BY <1>8 DEF PublishCatalog, TypeOK, CatalogIsReadable, WorkInv, NamedAreKept, Steps, Working, Visited, Retained, vars, store, directory, View, Catalog
  <2>5. QED
    BY <2>1, <2>2, <2>3, <2>4
<1>9. CASE PublishSweep
  BY <1>9 DEF PublishSweep, CleanupOrphans, Release, TypeOK, CatalogIsReadable, WorkInv, NamedAreKept, Steps, Working, Visited, Retained, vars, store, directory
<1>10. CASE RetireCatalog
  BY <1>10 DEF RetireCatalog, TypeOK, CatalogIsReadable, WorkInv, NamedAreKept, Steps, Working, Visited, Retained, vars, store, directory
<1>11. CASE RetireSweep
  BY <1>11 DEF RetireSweep, CleanupOrphans, TypeOK, CatalogIsReadable, WorkInv, NamedAreKept, Steps, Working, Visited, Retained, vars, store, directory
<1>12. CASE DeleteCommit
  BY <1>12 DEF DeleteCommit, TypeOK, CatalogIsReadable, WorkInv, NamedAreKept, Steps, Working, Visited, Retained, vars, store, directory
<1>13. CASE RetireDone
  BY <1>13 DEF RetireDone, Release, TypeOK, CatalogIsReadable, WorkInv, NamedAreKept, Steps, Working, Visited, Retained, vars, store, directory
<1>14. CASE RecoverBegin
  BY <1>14 DEF RecoverBegin, Authoritative, TypeOK, CatalogIsReadable, WorkInv, NamedAreKept, Steps, Working, Visited, Retained, vars, store, directory
<1>15. CASE RecoverSweep
  BY <1>15 DEF RecoverSweep, CleanupOrphans, Release, TypeOK, CatalogIsReadable, WorkInv, NamedAreKept, Steps, Working, Visited, Retained, vars, store, directory
<1>16. CASE QueryOpen
  BY <1>16 DEF QueryOpen, TypeOK, CatalogIsReadable, WorkInv, NamedAreKept, Steps, Working, Visited, Retained, vars, store, directory
<1>17. CASE QueryClose
  BY <1>17 DEF QueryClose, Release, TypeOK, CatalogIsReadable, WorkInv, NamedAreKept, Steps, Working, Visited, Retained, vars, store, directory
<1>18. CASE BrokenOff
  BY <1>18 DEF BrokenOff, Release, TypeOK, CatalogIsReadable, WorkInv, NamedAreKept, Steps, Working, Visited, Retained, vars, store, directory
<1>19. CASE Ingest
  BY <1>19 DEF Ingest, TypeOK, CatalogIsReadable, WorkInv, NamedAreKept, Steps, Working, Visited, Retained, vars, store, directory
<1>20. CASE UNCHANGED vars
  BY <1>20 DEF TypeOK, CatalogIsReadable, WorkInv, NamedAreKept, Steps, Working, Visited, Retained, vars, store, directory
<1>21. QED
  BY <1>1, <1>2, <1>3, <1>4, <1>5, <1>6, <1>7, <1>8, <1>9, <1>10, <1>11, <1>12, <1>13, <1>14, <1>15, <1>16, <1>17, <1>18, <1>19, <1>20 DEF Next

\* The catalog names views, the staging file and the work of every call keep
\* their types, whichever step of a build, a retirement or a recovery fails.
THEOREM CatalogTypeCorrect == Spec => []TypeOK
<1>1. CatalogInv => TypeOK
  BY DEF CatalogInv
<1>2. QED
  BY <1>1, InitCatalogInv, StepCatalogInv, PTL DEF Spec

\* The catalog file, the view files and the builder's work are always of
\* their types and the catalog always names complete views of the store's
\* epoch, whatever publish_report_view, a retirement or a recovery left.
THEOREM CatalogAlwaysReadable == Spec => [](TypeOK /\ CatalogIsReadable)
<1>1. CatalogInv => TypeOK /\ CatalogIsReadable
  BY DEF CatalogInv
<1>2. QED
  BY <1>1, InitCatalogInv, StepCatalogInv, PTL DEF Spec

----------------------------------------------------------------------------
(* The size of the directory. *)

AtMostTwo(S) == \E a, b : S \subseteq {a, b}
AtMostThree(S) == \E a, b, c : S \subseteq {a, b, c}

\* A staging file is left with at most two views, an unfinished catalog file
\* or a third view only without one.
Few ==
  \/ AtMostTwo(views) /\ temps = 0 /\ (\E n : staged \subseteq {n})
  \/ AtMostThree(views) /\ temps \in 0..1 /\ staged = {}

\* What the owner of the guard has already swept.
Swept ==
  /\ step \in {"create", "visit", "complete", "fence", "rename"} =>
       /\ AtMostTwo(views)
       /\ temps = 0
  /\ step = "create" => staged = {}
  /\ step \in {"visit", "complete", "fence", "rename"} => staged \subseteq {work.name}
  /\ step \in {"record", "sweep"} => AtMostThree(views) /\ staged = {} /\ temps = 0

\* A catalog retains two views at most.
LEMMA RetainedIsFew == ASSUME NEW c PROVE AtMostTwo(Retained(c))
<1>1. Retained(c) \subseteq {c.current, c.retired}
  BY DEF Retained
<1>2. QED
  BY <1>1 DEF AtMostTwo

\* Parts of small sets are small.
LEMMA SmallSets ==
  ASSUME NEW S, NEW T, T \subseteq S
  PROVE  /\ AtMostTwo(S) => AtMostTwo(T) /\ AtMostThree(T)
         /\ AtMostThree(S) => AtMostThree(T)
         /\ \A x : AtMostTwo(S) => AtMostThree(S \cup {x})
<1>1. AtMostTwo(S) => AtMostTwo(T) /\ AtMostThree(T)
  BY DEF AtMostTwo, AtMostThree
<1>2. AtMostThree(S) => AtMostThree(T)
  BY DEF AtMostThree
<1>3. ASSUME NEW x, AtMostTwo(S) PROVE AtMostThree(S \cup {x})
  BY <1>3 DEF AtMostTwo, AtMostThree
<1>4. QED
  BY <1>1, <1>2, <1>3

\* What the small sets are in numbers.
LEMMA SmallCardinalities ==
  ASSUME NEW S
  PROVE  /\ AtMostTwo(S) => Cardinality(S) \in 0..2
         /\ AtMostThree(S) => Cardinality(S) \in 0..3
         /\ \A n : S \subseteq {n} => Cardinality(S) \in 0..1
<1>1. ASSUME NEW a, NEW b, NEW c
      PROVE  /\ IsFiniteSet({a}) /\ Cardinality({a}) \in 0..1
             /\ IsFiniteSet({a, b}) /\ Cardinality({a, b}) \in 0..2
             /\ IsFiniteSet({a, b, c}) /\ Cardinality({a, b, c}) \in 0..3
  <2>1. IsFiniteSet({a}) /\ Cardinality({a}) = 1
    BY FS_Singleton
  <2>2. IsFiniteSet({a} \cup {b})
        /\ Cardinality({a} \cup {b}) \in {Cardinality({a}), Cardinality({a}) + 1}
    BY <2>1, FS_AddElement
  <2>3. IsFiniteSet({a, b} \cup {c})
        /\ Cardinality({a, b} \cup {c}) \in {Cardinality({a, b}), Cardinality({a, b}) + 1}
    <3>1. {a} \cup {b} = {a, b}
      OBVIOUS
    <3>2. QED
      BY <2>2, <3>1, FS_AddElement
  <2>4. {a} \cup {b} = {a, b} /\ {a, b} \cup {c} = {a, b, c}
    OBVIOUS
  <2>5. QED
    BY <2>1, <2>2, <2>3, <2>4
<1>2. ASSUME NEW T, IsFiniteSet(T), NEW k \in Nat, Cardinality(T) \in 0..k, S \subseteq T
      PROVE  Cardinality(S) \in 0..k
  BY <1>2, FS_Subset, FS_CardinalityType
<1>3. ASSUME AtMostTwo(S) PROVE Cardinality(S) \in 0..2
  <2>1. PICK a, b : S \subseteq {a, b}
    BY <1>3 DEF AtMostTwo
  <2>2. QED
    BY <1>1, <1>2, <2>1
<1>4. ASSUME AtMostThree(S) PROVE Cardinality(S) \in 0..3
  <2>1. PICK a, b, c : S \subseteq {a, b, c}
    BY <1>4 DEF AtMostThree
  <2>2. QED
    BY <1>1, <1>2, <2>1
<1>5. ASSUME NEW n, S \subseteq {n} PROVE Cardinality(S) \in 0..1
  BY <1>1, <1>2, <1>5
<1>6. QED
  BY <1>3, <1>4, <1>5

\* Every step leaves few entries behind.
LEMMA StepFew == CatalogInv /\ Few /\ Swept /\ [Next]_vars => Few' /\ Swept'
<1> SUFFICES ASSUME CatalogInv, Few, Swept, [Next]_vars PROVE Few' /\ Swept'
  OBVIOUS
<1> USE DEF CatalogInv, TypeOK
<1>a. /\ AtMostTwo(Retained(catalog))
      /\ AtMostTwo(views \cap Retained(catalog))
  BY RetainedIsFew, SmallSets
<1>1. CASE BuildBegin
  BY <1>1, <1>a, SmallSets DEF BuildBegin, Few, Swept, Steps, store, directory
<1>2. CASE BuildClear
  BY <1>2, <1>a, SmallSets DEF BuildClear, CleanupOrphans, Few, Swept, Steps, store, directory
<1>3. CASE BuildStage
  BY <1>3, <1>a, SmallSets DEF BuildStage, Few, Swept, Steps, store, directory
<1>4. CASE BuildVisit
  BY <1>4, <1>a, SmallSets DEF BuildVisit, Few, Swept, Steps, store, directory
<1>5. CASE BuildComplete
  BY <1>5, <1>a, SmallSets DEF BuildComplete, Few, Swept, Steps, store, directory
<1>6. CASE PublishFence
  BY <1>6, <1>a, SmallSets DEF PublishFence, CleanupOrphans, Few, Swept, Steps, store, directory
<1>7. CASE PublishRename
  <2>1. AtMostTwo(views) /\ temps = 0 /\ staged \subseteq {work.name}
    BY <1>7 DEF PublishRename, Swept
  <2>2. AtMostThree(views') /\ temps' = 0 /\ staged' = {} /\ step' = "record"
    BY <1>7, <2>1, SmallSets DEF PublishRename
  <2>3. QED
    BY <2>2 DEF Few, Swept
<1>8. CASE PublishCatalog
  BY <1>8, <1>a, SmallSets DEF PublishCatalog, Few, Swept, Steps, store, directory
<1>9. CASE PublishSweep
  BY <1>9, <1>a, SmallSets DEF PublishSweep, CleanupOrphans, Release, Few, Swept, Steps, store, directory
<1>10. CASE RetireCatalog
  BY <1>10, <1>a, SmallSets DEF RetireCatalog, Few, Swept, Steps, store, directory
<1>11. CASE RetireSweep
  BY <1>11, <1>a, SmallSets DEF RetireSweep, CleanupOrphans, Few, Swept, Steps, store, directory
<1>12. CASE DeleteCommit
  BY <1>12, <1>a, SmallSets DEF DeleteCommit, Few, Swept, Steps, store, directory
<1>13. CASE RetireDone
  BY <1>13, <1>a, SmallSets DEF RetireDone, Release, Few, Swept, Steps, store, directory
<1>14. CASE RecoverBegin
  BY <1>14, <1>a, SmallSets DEF RecoverBegin, Few, Swept, Steps, store, directory
<1>15. CASE RecoverSweep
  BY <1>15, <1>a, SmallSets DEF RecoverSweep, CleanupOrphans, Release, Few, Swept, Steps, store, directory
<1>16. CASE QueryOpen
  BY <1>16, <1>a, SmallSets DEF QueryOpen, Few, Swept, Steps, store, directory
<1>17. CASE QueryClose
  BY <1>17, <1>a, SmallSets DEF QueryClose, Release, Few, Swept, Steps, store, directory
<1>18. CASE BrokenOff
  BY <1>18, <1>a, SmallSets DEF BrokenOff, Release, Few, Swept, Steps, store, directory
<1>19. CASE Ingest
  BY <1>19, <1>a, SmallSets DEF Ingest, Few, Swept, Steps, store, directory
<1>20. CASE UNCHANGED vars
  BY <1>20 DEF Few, Swept, vars, store, directory
<1>21. QED
  BY <1>1, <1>2, <1>3, <1>4, <1>5, <1>6, <1>7, <1>8, <1>9, <1>10, <1>11, <1>12, <1>13, <1>14, <1>15, <1>16, <1>17, <1>18, <1>19, <1>20 DEF Next

\* cleanup_orphans never meets more entries than it accepts, however often
\* builds, retirements and recoveries break off: the directory cannot grow
\* into a state that every later call refuses.
THEOREM DirectoryStaysBounded == Spec => []DirectoryBounded
<1>1. Init => Few /\ Swept
  BY DEF Init, Few, Swept, AtMostTwo
<1>2. CatalogInv /\ Few => DirectoryBounded
  <2> SUFFICES ASSUME CatalogInv, Few PROVE DirectoryBounded
    OBVIOUS
  <2>1. /\ AtMostTwo(views) => Cardinality(views) \in 0..2
        /\ AtMostThree(views) => Cardinality(views) \in 0..3
        /\ \A n : staged \subseteq {n} => Cardinality(staged) \in 0..1
        /\ staged = {} => Cardinality(staged) = 0
    BY SmallCardinalities, FS_EmptySet
  <2>2. CASE AtMostTwo(views) /\ temps = 0 /\ \E n : staged \subseteq {n}
    BY <2>1, <2>2, BoundAssumption DEF DirectoryBounded, Entries
  <2>3. CASE AtMostThree(views) /\ temps \in 0..1 /\ staged = {}
    BY <2>1, <2>3, BoundAssumption DEF DirectoryBounded, Entries
  <2>4. QED
    BY <2>2, <2>3 DEF Few
<1>3. QED
  BY <1>1, <1>2, InitCatalogInv, StepCatalogInv, StepFew, PTL DEF Spec

----------------------------------------------------------------------------
(* The refinement. *)

\* What a reader sees is decided by the catalog alone.
LEMMA ShownByCatalog ==
  ASSUME TypeOK, CatalogIsReadable
  PROVE  /\ catalog = NoCatalog => Shown = <<>>
         /\ catalog # NoCatalog =>
              Shown = IF catalog.retired = NoView THEN <<catalog.current.rows>>
                      ELSE <<catalog.current.rows, catalog.retired.rows>>
BY DEF TypeOK, CatalogIsReadable, Shown, Authoritative

\* A readable catalog is taken as it is.
LEMMA AuthorityUnchanged ==
  ASSUME CatalogIsReadable PROVE Authoritative(catalog) = catalog
BY DEF CatalogIsReadable, Authoritative

\* The mapped steps: what leaves catalog, epoch, records and query alone is
\* a stutter of PublishedView.
Reading == IF step = "query" THEN work.rows ELSE NoView

\* A step beside the catalog is nothing to a reader.
LEMMA SilentSteps ==
  ASSUME UNCHANGED <<content, catalog, epoch>>, step # "query", step' # "query"
  PROVE  UNCHANGED <<content, Shown, Reading>>
BY DEF Shown, Authoritative, Reading

\* Every step is one of PublishedView, or nothing to a reader.
LEMMA StepRefines == CatalogInv /\ CatalogInv' /\ [Next]_vars => [Abstract!Next]_(Abstract!pvars)
<1> SUFFICES ASSUME CatalogInv, CatalogInv', [Next]_vars
             PROVE  Abstract!Next \/ UNCHANGED <<content, Shown, Reading>>
  BY DEF Abstract!pvars, Reading
<1> USE DEF CatalogInv
<1>a. Authoritative(catalog) = catalog
  BY AuthorityUnchanged
<1>1. CASE Ingest
  <2>1. UNCHANGED <<Shown, Reading>>
    BY <1>1 DEF Ingest, Shown, Authoritative, Reading, directory
  <2>2. QED
    BY <1>1, <2>1 DEF Ingest, Abstract!Next, Abstract!Ingest, Reading
<1>2. CASE BuildBegin \/ RecoverBegin
  BY <1>2, <1>a, SilentSteps DEF BuildBegin, RecoverBegin, store
<1>3. CASE BuildClear \/ BuildStage \/ BuildVisit \/ BuildComplete
  BY <1>3, SilentSteps DEF BuildClear, BuildStage, BuildVisit, BuildComplete, store, directory
<1>4. CASE PublishFence \/ PublishRename \/ PublishSweep
  BY <1>4, SilentSteps DEF PublishFence, PublishRename, PublishSweep, Release, store
<1>5. CASE RetireSweep \/ RetireDone \/ RecoverSweep
  BY <1>5, SilentSteps DEF RetireSweep, RetireDone, RecoverSweep, Release, store, directory
<1>6. CASE PublishCatalog
  <2>1. /\ Reading = NoView /\ Reading' = NoView /\ content' = content
        /\ step = "record" /\ work \in View
        /\ work.rows \subseteq content
        /\ catalog' = [epoch |-> work.epoch, current |-> work,
                       retired |-> IF catalog = NoCatalog THEN NoView ELSE catalog.current]
    BY <1>6 DEF PublishCatalog, Reading, store, WorkInv, Working, Visited
  <2>a. catalog' \in Catalog /\ catalog' # NoCatalog
    <3>1. work.epoch \in Nat
      BY <2>1 DEF View
    <3>2. (IF catalog = NoCatalog THEN NoView ELSE catalog.current) \in View \cup {NoView}
      BY DEF TypeOK, Catalog
    <3>3. catalog' \in Catalog
      BY <2>1, <3>1, <3>2 DEF Catalog
    <3>4. QED
      BY <3>3, CatalogAssumption
  <2>2. CASE catalog = NoCatalog
    <3>1. Shown = <<>>
      BY <2>2, ShownByCatalog
    <3>2. Shown' = <<work.rows>>
      BY <2>1, <2>2, <2>a DEF Shown, Authoritative, CatalogIsReadable
    <3>3. QED
      BY <2>1, <3>1, <3>2 DEF Abstract!Next, Abstract!Publish, Reading
  <2>3. CASE catalog # NoCatalog
    <3>1. catalog \in Catalog
      BY <2>3 DEF TypeOK
    <3>2. catalog.current \in View /\ catalog.current # NoView
      BY <3>1, CatalogAssumption DEF Catalog
    <3>3. Shown # <<>> /\ Shown[1] = catalog.current.rows
      BY <2>3, ShownByCatalog
    <3>4. Shown' = <<work.rows, catalog.current.rows>>
      BY <2>1, <2>3, <2>a, <3>2 DEF Shown, Authoritative, CatalogIsReadable
    <3>5. catalog.current.rows \subseteq work.rows
      BY <2>1, <2>3 DEF WorkInv, Visited
    <3>6. QED
      BY <2>1, <3>3, <3>4, <3>5 DEF Abstract!Next, Abstract!Publish, Reading
  <2>4. QED
    BY <2>2, <2>3
<1>7. CASE RetireCatalog
  <2>1. Shown' = <<>> /\ Reading = NoView /\ Reading' = NoView /\ content' = content
    BY <1>7 DEF RetireCatalog, Shown, Authoritative, Reading, store
  <2>2. QED
    BY <2>1 DEF Abstract!Next, Abstract!Hide, Reading
<1>8. CASE DeleteCommit
  <2>1. /\ Shown = <<>> /\ Shown' = <<>> /\ Reading = NoView /\ Reading' = NoView
        /\ \E gone \in SUBSET content : content' = content \ gone
    BY <1>8 DEF DeleteCommit, Shown, Authoritative, Reading, directory, WorkInv
  <2>2. QED
    BY <2>1 DEF Abstract!Next, Abstract!Delete, Reading
<1>9. CASE QueryOpen
  <2>1. /\ catalog \in Catalog /\ catalog # NoCatalog /\ Reading = NoView
        /\ work' \in Retained(catalog) /\ Reading' = work'.rows
        /\ UNCHANGED <<content, Shown>>
    BY <1>9 DEF QueryOpen, TypeOK, Reading, Shown, Authoritative, store, directory
  <2>2. \E i \in 1..Len(Shown) : Shown[i] = work'.rows
    <3>1. CASE catalog.retired = NoView
      BY <2>1, <3>1, ShownByCatalog, RetainedTypes
    <3>2. CASE catalog.retired # NoView
      BY <2>1, <3>2, ShownByCatalog, RetainedTypes
    <3>3. QED
      BY <3>1, <3>2
  <2>3. QED
    BY <2>1, <2>2 DEF Abstract!Next, Abstract!Open, Abstract!ShownViews, Reading
<1>10. CASE QueryClose
  <2>1. Reading' = NoView /\ UNCHANGED <<content, Shown>>
    BY <1>10 DEF QueryClose, Release, Reading, Shown, Authoritative, store, directory
  <2>2. QED
    BY <2>1 DEF Abstract!Next, Abstract!Close, Reading
<1>11. CASE BrokenOff
  <2>1. Reading' = NoView /\ UNCHANGED <<content, Shown>>
    BY <1>11 DEF BrokenOff, Release, Reading, Shown, Authoritative, store
  <2>2. QED
    BY <2>1 DEF Abstract!Next, Abstract!Close, Reading
<1>12. CASE UNCHANGED vars
  BY <1>12 DEF vars, store, directory, Shown, Authoritative, Reading
<1>13. QED
  BY <1>1, <1>2, <1>3, <1>4, <1>5, <1>6, <1>7, <1>8, <1>9, <1>10, <1>11, <1>12 DEF Next

\* Whatever files and catalogs interrupted calls leave, a reader of the
\* directory sees a published view of the store: queries never show deleted
\* records and publications within an epoch only add.
THEOREM DirectoryImplementsPublishedView == Spec => ImplementsPublishedView
<1>1. Init => Abstract!Init
  BY DEF Init, Abstract!Init, Shown, Authoritative
<1>2. QED
  BY <1>1, InitCatalogInv, StepCatalogInv, StepRefines, PTL
     DEF Spec, ImplementsPublishedView, Abstract!Spec
=============================================================================
