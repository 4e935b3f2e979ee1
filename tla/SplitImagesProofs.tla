--------------------------- MODULE SplitImagesProofs ---------------------------
(***************************************************************************)
(* Proofs about SplitImages, for any number of variants, any command lines *)
(* and any bounds.                                                         *)
(***************************************************************************)
EXTENDS SplitImages, TLAPS

\* The inductive invariant.  What lies below runs/ once it has been cleared is
\* of this command line.  In the loop, the packages of the variants to come are
\* as package_case has left them; a variant that is behind, and none of whose
\* steps has failed, has been exported whole, and the one at hand has what the
\* step before has made.
Loop == {"transform", "pack", "assemble", "export"}

Types ==
    /\ pc \in {"over", "clear", "package", "list", "stamp"} \cup Loop
    /\ setting \in Settings
    /\ at \in Variants
    /\ package \in [Variants -> Package \cup {Nothing}]
    /\ rootfs \in [Variants -> Product \cup {Nothing}]
    /\ image \in [Variants -> Product \cup {Nothing}]
    /\ exported \in [Variants -> Product \cup {Nothing}]
    /\ stamped \in BOOLEAN
    /\ spoilt \subseteq Variants

\* The form of a package that is ready to be packed.
Form == IF setting \in Multihart THEN "multihart" ELSE "single"
Single == [of |-> setting, tree |-> "single"]
Ready == [of |-> setting, tree |-> Form]
Whole == [of |-> setting, tree |-> Form, whole |-> TRUE]

BelowRunsOfThisRun ==
    pc \notin {"over", "clear"} =>
        \A i \in Variants :
            /\ package[i] # Nothing => package[i].of = setting
            /\ rootfs[i] # Nothing => rootfs[i].of = setting
            /\ image[i] # Nothing => image[i].of = setting

PackagedSoFar ==
    /\ pc = "package" => \A i \in Variants : i < at => package[i] = Single
    /\ pc = "list" => at = 1 /\ \A i \in Variants : package[i] = Single
    /\ pc \in Loop => package[at] # Nothing
    /\ pc \in Loop => \A i \in Variants : i > at \/ (i = at /\ pc = "transform") => package[i] = Single

BehindExported == pc \in Loop => \A i \in Variants \ spoilt : i < at => exported[i] = Whole

AtHandWell ==
    at \notin spoilt =>
        /\ pc \in {"pack", "assemble", "export"} => package[at] = Ready
        /\ pc \in {"assemble", "export"} => rootfs[at] = Whole
        /\ pc = "export" => image[at] = Whole

StampDeserved ==
    /\ stamped => pc = "over"
    /\ stamped \/ pc = "stamp" =>
           /\ \A i \in Variants \ spoilt : exported[i] = Whole
           /\ spoilt # Variants => exported[Last] # Nothing

IInv ==
    /\ Types
    /\ BelowRunsOfThisRun
    /\ ExportIsOfThisRun
    /\ PackagedSoFar
    /\ BehindExported
    /\ AtHandWell
    /\ StampDeserved


-----------------------------------------------------------------------------
(* Lemmas about the files *)

\* transform changes the tree of the package at hand, and nothing else.
LEMMA TreeRewritten ==
    ASSUME Types, package[at] # Nothing, NEW t \in Trees,
           package' = [package EXCEPT ![at].tree = t]
    PROVE  /\ package' \in [Variants -> Package \cup {Nothing}]
           /\ package'[at] # Nothing
           /\ package'[at] = [of |-> package[at].of, tree |-> t]
           /\ \A i \in Variants \ {at} : package'[i] = package[i]
<1>1. package[at] \in Package
  BY DEF Types
<1>2. package'[at] = [package[at] EXCEPT !.tree = t]
  BY DEF Types
<1>3. package'[at] = [of |-> package[at].of, tree |-> t]
  BY <1>1, <1>2 DEF Package
<1>4. package'[at] \in Package
  BY <1>1, <1>3 DEF Package
<1>. QED  BY <1>3, <1>4, NothingAssumption DEF Types

\* A rootfs is of the command line that its package is of.
LEMMA OfPackage ==
    ASSUME NEW p \in Package, NEW w \in BOOLEAN
    PROVE  Of(p, w) \in Product /\ Of(p, w).of = p.of
BY DEF Of, Package, Product

\* A file that is cut is still of its command line.
LEMMA TornProduct ==
    ASSUME NEW p \in Product
    PROVE  /\ [p EXCEPT !.whole = FALSE] \in Product
           /\ [p EXCEPT !.whole = FALSE].of = p.of
BY DEF Product

\* Where no step has failed, the export finds what it looks for.
LEMMA WellExportable ==
    ASSUME Types, AtHandWell, pc = "export", at \notin spoilt
    PROVE  Exportable
<1>1. Whole \in Product
  BY DEF Types, Whole, Form, Product, Trees
<1>. QED  BY <1>1, NothingAssumption DEF AtHandWell, Exportable, Ready, Form

-----------------------------------------------------------------------------
(* One lemma per part: every step preserves it *)

\* Every step preserves the types.
LEMMA TypesStep ==
    ASSUME Types, PackagedSoFar, [Next]_vars
    PROVE  Types'
<1>. USE LastAssumption, SettingsAssumption, NothingAssumption
<1>1. ASSUME NEW s \in Settings, Start(s) PROVE Types'
  BY <1>1 DEF Types, Loop, Variants, products, Package, Product, Trees, Start, None
<1>2. ASSUME Clear PROVE Types'
  BY <1>2 DEF Types, Loop, Variants, products, Package, Product, Trees, Clear, None
<1>3. ASSUME PackageVariant PROVE Types'
  BY <1>3 DEF Types, Loop, Variants, products, Package, Product, Trees, PackageVariant
<1>4. ASSUME WriteList PROVE Types'
  BY <1>4 DEF Types, Loop, Variants, products, Package, Product, Trees, WriteList
<1>5. ASSUME Transform PROVE Types'
  <2>1. package' \in [Variants -> Package \cup {Nothing}]
    BY <1>5, TreeRewritten DEF Types, PackagedSoFar, Loop, Transform, Trees
  <2>. QED  BY <1>5, <2>1 DEF Types, Loop, Transform, Well, Goto
<1>6. ASSUME FailTransform PROVE Types'
  <2>1. package' \in [Variants -> Package \cup {Nothing}]
    BY <1>6, TreeRewritten DEF Types, PackagedSoFar, Loop, FailTransform
  <2>. QED  BY <1>6, <2>1 DEF Types, Loop, FailTransform, Badly, Goto
<1>7. ASSUME Pack PROVE Types'
  <2>1. Of(package[at], TRUE) \in Product
    BY <1>7, OfPackage DEF Types, PackagedSoFar, Loop, Pack
  <2>. QED  BY <1>7, <2>1 DEF Types, Loop, Pack, Well, Goto
<1>8. ASSUME FailPack PROVE Types'
  <2>1. Of(package[at], FALSE) \in Product
    BY <1>8, OfPackage DEF Types, PackagedSoFar, Loop, FailPack
  <2>2. rootfs' \in [Variants -> Product \cup {Nothing}]
    BY <1>8, <2>1 DEF Types, FailPack
  <2>. QED  BY <1>8, <2>2 DEF Types, Loop, FailPack, Badly, Goto
<1>9. ASSUME Assemble PROVE Types'
  BY <1>9 DEF Types, Loop, Variants, products, Package, Product, Trees, Assemble, Well, Goto
<1>10. ASSUME FailAssemble PROVE Types'
  <2>1. image' \in [Variants -> Product \cup {Nothing}]
    BY <1>10, TornProduct DEF Types, FailAssemble, Badly, Well
  <2>. QED  BY <1>10, <2>1 DEF Types, Loop, FailAssemble, Badly, Well, Goto
<1>11. ASSUME Export PROVE Types'
  BY <1>11 DEF Types, Loop, Variants, products, Package, Product, Trees, Export, Well, AfterExport,
       Exportable
<1>12. ASSUME FailExport PROVE Types'
  <2>1. exported' \in [Variants -> Product \cup {Nothing}]
    BY <1>12, TornProduct DEF Types, FailExport, Badly, Well, Exportable
  <2>. QED  BY <1>12, <2>1 DEF Types, Loop, Variants, products, FailExport, Badly, Well, AfterExport
<1>13. ASSUME Stamp PROVE Types'
  BY <1>13 DEF Types, Loop, Variants, products, Package, Product, Trees, Stamp
<1>14. ASSUME FailList PROVE Types'
  BY <1>14 DEF Types, Loop, Variants, products, Package, Product, Trees, FailList
<1>15. ASSUME Abort PROVE Types'
  BY <1>15 DEF Types, Loop, Variants, products, Package, Product, Trees, Abort
<1>16. ASSUME Stop \/ UNCHANGED vars PROVE Types'
  BY <1>16 DEF Types, Loop, Variants, products, Package, Product, Trees, Stop, vars
<1>. QED  BY <1>1, <1>2, <1>3, <1>4, <1>5, <1>6, <1>7, <1>8, <1>9, <1>10, <1>11, <1>12, <1>13,
      <1>14, <1>15, <1>16 DEF Next

\* Every step preserves that what is below runs/ is of this run.
LEMMA BelowStep ==
    ASSUME Types, PackagedSoFar, BelowRunsOfThisRun, [Next]_vars
    PROVE  BelowRunsOfThisRun'
<1>. USE LastAssumption, SettingsAssumption, NothingAssumption
<1>1. ASSUME NEW s \in Settings, Start(s) PROVE BelowRunsOfThisRun'
  BY <1>1 DEF Types, Loop, Variants, products, BelowRunsOfThisRun, Single, Package, Product, Start,
       None
<1>2. ASSUME Clear PROVE BelowRunsOfThisRun'
  BY <1>2 DEF Types, Loop, Variants, products, BelowRunsOfThisRun, Single, Package, Product, Clear,
       None
<1>3. ASSUME PackageVariant PROVE BelowRunsOfThisRun'
  BY <1>3 DEF Types, Loop, Variants, products, BelowRunsOfThisRun, Single, Package, Product,
       PackageVariant
<1>4. ASSUME WriteList PROVE BelowRunsOfThisRun'
  BY <1>4
       DEF Types, Loop, Variants, products, BelowRunsOfThisRun, Single, Package, Product, WriteList
<1>5. ASSUME Transform PROVE BelowRunsOfThisRun'
  <2>1. \A i \in Variants : package'[i] # Nothing => package[i] # Nothing /\ package'[i].of = package[i].of
    BY <1>5, TreeRewritten DEF Types, PackagedSoFar, Loop, Transform, Trees
  <2>. QED  BY <1>5, <2>1 DEF BelowRunsOfThisRun, Transform, Goto
<1>6. ASSUME FailTransform PROVE BelowRunsOfThisRun'
  <2>1. \A i \in Variants : package'[i] # Nothing => package[i] # Nothing /\ package'[i].of = package[i].of
    BY <1>6, TreeRewritten DEF Types, PackagedSoFar, Loop, FailTransform
  <2>. QED  BY <1>6, <2>1 DEF BelowRunsOfThisRun, FailTransform, Goto
<1>7. ASSUME Pack PROVE BelowRunsOfThisRun'
  <2>1. package[at] \in Package /\ Of(package[at], TRUE).of = setting
    BY <1>7, OfPackage DEF Types, PackagedSoFar, BelowRunsOfThisRun, Loop, Pack
  <2>. QED  BY <1>7, <2>1 DEF Types, BelowRunsOfThisRun, Pack, Goto
<1>8. ASSUME FailPack PROVE BelowRunsOfThisRun'
  <2>1. package[at] \in Package /\ Of(package[at], FALSE).of = setting
    BY <1>8, OfPackage DEF Types, PackagedSoFar, BelowRunsOfThisRun, Loop, FailPack
  <2>. QED  BY <1>8, <2>1 DEF Types, BelowRunsOfThisRun, FailPack, Goto
<1>9. ASSUME Assemble PROVE BelowRunsOfThisRun'
  BY <1>9 DEF Types, Loop, Variants, products, BelowRunsOfThisRun, Single, Package, Product,
       Assemble, Well, Goto
<1>10. ASSUME FailAssemble PROVE BelowRunsOfThisRun'
  BY <1>10 DEF Types, Loop, Variants, products, BelowRunsOfThisRun, Single, Package, Product,
       FailAssemble, Well, Badly, Goto
<1>11. ASSUME Export PROVE BelowRunsOfThisRun'
  BY <1>11 DEF Types, Loop, Variants, products, BelowRunsOfThisRun, Single, Package, Product,
       Export, Well, AfterExport, Exportable
<1>12. ASSUME FailExport PROVE BelowRunsOfThisRun'
  BY <1>12 DEF Types, Loop, Variants, products, BelowRunsOfThisRun, Single, Package, Product,
       FailExport, Well, Badly, AfterExport, Exportable
<1>13. ASSUME Stamp PROVE BelowRunsOfThisRun'
  BY <1>13 DEF Types, Loop, Variants, products, BelowRunsOfThisRun, Single, Package, Product, Stamp
<1>14. ASSUME FailList PROVE BelowRunsOfThisRun'
  BY <1>14
       DEF Types, Loop, Variants, products, BelowRunsOfThisRun, Single, Package, Product, FailList
<1>15. ASSUME Abort PROVE BelowRunsOfThisRun'
  BY <1>15 DEF Types, Loop, Variants, products, BelowRunsOfThisRun, Single, Package, Product, Abort
<1>16. ASSUME Stop \/ UNCHANGED vars PROVE BelowRunsOfThisRun'
  BY <1>16
       DEF Types, Loop, Variants, products, BelowRunsOfThisRun, Single, Package, Product, Stop, vars
<1>. QED  BY <1>1, <1>2, <1>3, <1>4, <1>5, <1>6, <1>7, <1>8, <1>9, <1>10, <1>11, <1>12, <1>13,
      <1>14, <1>15, <1>16 DEF Next

\* Every step preserves that what is exported is.
LEMMA ExportedStep ==
    ASSUME Types, BelowRunsOfThisRun, ExportIsOfThisRun, [Next]_vars
    PROVE  ExportIsOfThisRun'
<1>. USE LastAssumption, SettingsAssumption, NothingAssumption
<1>1. ASSUME NEW s \in Settings, Start(s) PROVE ExportIsOfThisRun'
  BY <1>1 DEF Types, Loop, Variants, products, ExportIsOfThisRun, BelowRunsOfThisRun, Package,
       Product, Start, None
<1>2. ASSUME Clear PROVE ExportIsOfThisRun'
  BY <1>2 DEF Types, Loop, Variants, products, ExportIsOfThisRun, BelowRunsOfThisRun, Package,
       Product, Clear, None
<1>3. ASSUME PackageVariant PROVE ExportIsOfThisRun'
  BY <1>3 DEF Types, Loop, Variants, products, ExportIsOfThisRun, BelowRunsOfThisRun, Package,
       Product, PackageVariant
<1>4. ASSUME WriteList PROVE ExportIsOfThisRun'
  BY <1>4 DEF Types, Loop, Variants, products, ExportIsOfThisRun, BelowRunsOfThisRun, Package,
       Product, WriteList
<1>5. ASSUME Transform PROVE ExportIsOfThisRun'
  BY <1>5 DEF Types, Loop, Variants, products, ExportIsOfThisRun, BelowRunsOfThisRun, Package,
       Product, Transform, Well, Goto
<1>6. ASSUME FailTransform PROVE ExportIsOfThisRun'
  BY <1>6 DEF Types, Loop, Variants, products, ExportIsOfThisRun, BelowRunsOfThisRun, Package,
       Product, FailTransform, Badly, Goto
<1>7. ASSUME Pack PROVE ExportIsOfThisRun'
  BY <1>7 DEF Types, Loop, Variants, products, ExportIsOfThisRun, BelowRunsOfThisRun, Package,
       Product, Pack, Well, Goto, Of
<1>8. ASSUME FailPack PROVE ExportIsOfThisRun'
  BY <1>8 DEF Types, Loop, Variants, products, ExportIsOfThisRun, BelowRunsOfThisRun, Package,
       Product, FailPack, Badly, Goto, Of
<1>9. ASSUME Assemble PROVE ExportIsOfThisRun'
  BY <1>9 DEF Types, Loop, Variants, products, ExportIsOfThisRun, BelowRunsOfThisRun, Package,
       Product, Assemble, Well, Goto
<1>10. ASSUME FailAssemble PROVE ExportIsOfThisRun'
  BY <1>10 DEF Types, Loop, Variants, products, ExportIsOfThisRun, BelowRunsOfThisRun, Package,
       Product, FailAssemble, Well, Badly, Goto
<1>11. ASSUME Export PROVE ExportIsOfThisRun'
  BY <1>11 DEF Types, Loop, Variants, products, ExportIsOfThisRun, BelowRunsOfThisRun, Package,
       Product, Export, Well, AfterExport, Exportable
<1>12. ASSUME FailExport PROVE ExportIsOfThisRun'
  BY <1>12 DEF Types, Loop, Variants, products, ExportIsOfThisRun, BelowRunsOfThisRun, Package,
       Product, FailExport, Well, Badly, AfterExport, Exportable
<1>13. ASSUME Stamp PROVE ExportIsOfThisRun'
  BY <1>13 DEF Types, Loop, Variants, products, ExportIsOfThisRun, BelowRunsOfThisRun, Package,
       Product, Stamp
<1>14. ASSUME FailList PROVE ExportIsOfThisRun'
  BY <1>14 DEF Types, Loop, Variants, products, ExportIsOfThisRun, BelowRunsOfThisRun, Package,
       Product, FailList
<1>15. ASSUME Abort PROVE ExportIsOfThisRun'
  BY <1>15 DEF Types, Loop, Variants, products, ExportIsOfThisRun, BelowRunsOfThisRun, Package,
       Product, Abort
<1>16. ASSUME Stop \/ UNCHANGED vars PROVE ExportIsOfThisRun'
  BY <1>16 DEF Types, Loop, Variants, products, ExportIsOfThisRun, BelowRunsOfThisRun, Package,
       Product, Stop, vars
<1>. QED  BY <1>1, <1>2, <1>3, <1>4, <1>5, <1>6, <1>7, <1>8, <1>9, <1>10, <1>11, <1>12, <1>13,
      <1>14, <1>15, <1>16 DEF Next

\* Every step preserves what is packaged.
LEMMA PackagedStep ==
    ASSUME Types, PackagedSoFar, [Next]_vars
    PROVE  PackagedSoFar'
<1>. USE LastAssumption, SettingsAssumption, NothingAssumption
<1>1. ASSUME NEW s \in Settings, Start(s) PROVE PackagedSoFar'
  BY <1>1 DEF Types, Loop, Variants, products, PackagedSoFar, Single, Package, Trees, Start, None
<1>2. ASSUME Clear PROVE PackagedSoFar'
  BY <1>2 DEF Types, Loop, Variants, products, PackagedSoFar, Single, Package, Trees, Clear, None
<1>3. ASSUME PackageVariant PROVE PackagedSoFar'
  BY <1>3 DEF Types, Loop, Variants, products, PackagedSoFar, Single, Package, Trees, PackageVariant
<1>4. ASSUME WriteList PROVE PackagedSoFar'
  BY <1>4 DEF Types, Loop, Variants, products, PackagedSoFar, Single, Package, Trees, WriteList
<1>5. ASSUME Transform PROVE PackagedSoFar'
  <2>1. package'[at] # Nothing /\ \A i \in Variants \ {at} : package'[i] = package[i]
    BY <1>5, TreeRewritten DEF Types, PackagedSoFar, Loop, Transform, Trees
  <2>. QED  BY <1>5, <2>1 DEF Types, Variants, PackagedSoFar, Single, Loop, Transform, Goto
<1>6. ASSUME FailTransform PROVE PackagedSoFar'
  <2>1. package'[at] # Nothing /\ \A i \in Variants \ {at} : package'[i] = package[i]
    BY <1>6, TreeRewritten DEF Types, PackagedSoFar, Loop, FailTransform, Trees
  <2>. QED  BY <1>6, <2>1 DEF Types, Variants, PackagedSoFar, Single, Loop, FailTransform, Goto
<1>7. ASSUME Pack PROVE PackagedSoFar'
  BY <1>7 DEF Types, Loop, Variants, products, PackagedSoFar, Single, Package, Trees, Pack, Well,
       Goto, Of
<1>8. ASSUME FailPack PROVE PackagedSoFar'
  BY <1>8 DEF Types, Loop, Variants, products, PackagedSoFar, Single, Package, Trees, FailPack,
       Badly, Goto, Of
<1>9. ASSUME Assemble PROVE PackagedSoFar'
  BY <1>9 DEF Types, Loop, Variants, products, PackagedSoFar, Single, Package, Trees, Assemble,
       Well, Goto
<1>10. ASSUME FailAssemble PROVE PackagedSoFar'
  BY <1>10 DEF Types, Loop, Variants, products, PackagedSoFar, Single, Package, Trees,
       FailAssemble, Well, Badly, Goto
<1>11. ASSUME Export PROVE PackagedSoFar'
  BY <1>11 DEF Types, Loop, Variants, products, PackagedSoFar, Single, Package, Trees, Export,
       Well, AfterExport, Exportable
<1>12. ASSUME FailExport PROVE PackagedSoFar'
  BY <1>12 DEF Types, Loop, Variants, products, PackagedSoFar, Single, Package, Trees, FailExport,
       Well, Badly, AfterExport, Exportable
<1>13. ASSUME Stamp PROVE PackagedSoFar'
  BY <1>13 DEF Types, Loop, Variants, products, PackagedSoFar, Single, Package, Trees, Stamp
<1>14. ASSUME FailList PROVE PackagedSoFar'
  BY <1>14 DEF Types, Loop, Variants, products, PackagedSoFar, Single, Package, Trees, FailList
<1>15. ASSUME Abort PROVE PackagedSoFar'
  BY <1>15 DEF Types, Loop, Variants, products, PackagedSoFar, Single, Package, Trees, Abort
<1>16. ASSUME Stop \/ UNCHANGED vars PROVE PackagedSoFar'
  BY <1>16 DEF Types, Loop, Variants, products, PackagedSoFar, Single, Package, Trees, Stop, vars
<1>. QED  BY <1>1, <1>2, <1>3, <1>4, <1>5, <1>6, <1>7, <1>8, <1>9, <1>10, <1>11, <1>12, <1>13,
      <1>14, <1>15, <1>16 DEF Next

\* Every step preserves that the variants behind are exported.
LEMMA BehindStep ==
    ASSUME Types, PackagedSoFar, AtHandWell, BehindExported, [Next]_vars
    PROVE  BehindExported'
<1>. USE LastAssumption, SettingsAssumption, NothingAssumption
<1>1. ASSUME NEW s \in Settings, Start(s) PROVE BehindExported'
  BY <1>1 DEF Types, Loop, Variants, products, BehindExported, PackagedSoFar, AtHandWell, Whole,
       Ready, Form, Start, None
<1>2. ASSUME Clear PROVE BehindExported'
  BY <1>2 DEF Types, Loop, Variants, products, BehindExported, PackagedSoFar, AtHandWell, Whole,
       Ready, Form, Clear, None
<1>3. ASSUME PackageVariant PROVE BehindExported'
  BY <1>3 DEF Types, Loop, Variants, products, BehindExported, PackagedSoFar, AtHandWell, Whole,
       Ready, Form, PackageVariant
<1>4. ASSUME WriteList PROVE BehindExported'
  BY <1>4 DEF Types, Loop, Variants, products, BehindExported, PackagedSoFar, AtHandWell, Whole,
       Ready, Form, WriteList
<1>5. ASSUME Transform PROVE BehindExported'
  BY <1>5 DEF Types, Loop, Variants, products, BehindExported, PackagedSoFar, AtHandWell, Whole,
       Ready, Form, Transform, Well, Goto
<1>6. ASSUME FailTransform PROVE BehindExported'
  BY <1>6 DEF Types, Loop, Variants, products, BehindExported, PackagedSoFar, AtHandWell, Whole,
       Ready, Form, FailTransform, Badly, Goto
<1>7. ASSUME Pack PROVE BehindExported'
  BY <1>7 DEF Types, Loop, Variants, products, BehindExported, PackagedSoFar, AtHandWell, Whole,
       Ready, Form, Pack, Well, Goto, Of
<1>8. ASSUME FailPack PROVE BehindExported'
  BY <1>8 DEF Types, Loop, Variants, products, BehindExported, PackagedSoFar, AtHandWell, Whole,
       Ready, Form, FailPack, Badly, Goto, Of
<1>9. ASSUME Assemble PROVE BehindExported'
  BY <1>9 DEF Types, Loop, Variants, products, BehindExported, PackagedSoFar, AtHandWell, Whole,
       Ready, Form, Assemble, Well, Goto
<1>10. ASSUME FailAssemble PROVE BehindExported'
  BY <1>10 DEF Types, Loop, Variants, products, BehindExported, PackagedSoFar, AtHandWell, Whole,
       Ready, Form, FailAssemble, Well, Badly, Goto
<1>11. ASSUME Export PROVE BehindExported'
  <2>1. at \notin spoilt => exported'[at] = Whole
    BY <1>11 DEF Types, AtHandWell, Export
  <2>2. \A i \in Variants \ {at} : exported'[i] = exported[i]
    BY <1>11 DEF Types, Export
  <2>3. Whole' = Whole /\ spoilt' = spoilt
    BY <1>11 DEF Whole, Form, Export, Well
  <2>4. CASE at < Last
    <3>1. at' = at + 1 /\ pc \in Loop
      BY <1>11, <2>4 DEF Export, AfterExport, Loop
    <3>. QED  BY <3>1, <2>1, <2>2, <2>3 DEF Types, Variants, BehindExported
  <2>5. CASE ~(at < Last)
    BY <1>11, <2>5 DEF BehindExported, Loop, Export, AfterExport
  <2>. QED  BY <2>4, <2>5
<1>12. ASSUME FailExport PROVE BehindExported'
  <2>1. at \in spoilt'
    BY <1>12, WellExportable DEF FailExport, Badly, Well
  <2>2. \A i \in Variants \ {at} : exported'[i] = exported[i]
    BY <1>12 DEF Types, FailExport
  <2>3. spoilt \subseteq spoilt'
    BY <1>12 DEF FailExport, Badly, Well
  <2>4. Whole' = Whole
    BY <1>12 DEF Whole, Form, FailExport
  <2>5. CASE at < Last
    <3>1. at' = at + 1 /\ pc \in Loop
      BY <1>12, <2>5 DEF FailExport, AfterExport, Loop
    <3>. QED  BY <3>1, <2>1, <2>2, <2>3, <2>4 DEF Types, Variants, BehindExported
  <2>6. CASE ~(at < Last)
    BY <1>12, <2>6 DEF BehindExported, Loop, FailExport, AfterExport
  <2>. QED  BY <2>5, <2>6
<1>13. ASSUME Stamp PROVE BehindExported'
  BY <1>13 DEF Types, Loop, Variants, products, BehindExported, PackagedSoFar, AtHandWell, Whole,
       Ready, Form, Stamp
<1>14. ASSUME FailList PROVE BehindExported'
  BY <1>14 DEF Types, Loop, Variants, products, BehindExported, PackagedSoFar, AtHandWell, Whole,
       Ready, Form, FailList
<1>15. ASSUME Abort PROVE BehindExported'
  BY <1>15 DEF Types, Loop, Variants, products, BehindExported, PackagedSoFar, AtHandWell, Whole,
       Ready, Form, Abort
<1>16. ASSUME Stop \/ UNCHANGED vars PROVE BehindExported'
  BY <1>16 DEF Types, Loop, Variants, products, BehindExported, PackagedSoFar, AtHandWell, Whole,
       Ready, Form, Stop, vars
<1>. QED  BY <1>1, <1>2, <1>3, <1>4, <1>5, <1>6, <1>7, <1>8, <1>9, <1>10, <1>11, <1>12, <1>13,
      <1>14, <1>15, <1>16 DEF Next

\* Every step preserves that the one at hand is well.
LEMMA AtHandStep ==
    ASSUME Types, PackagedSoFar, AtHandWell, [Next]_vars
    PROVE  AtHandWell'
<1>. USE LastAssumption, SettingsAssumption, NothingAssumption
<1>1. ASSUME NEW s \in Settings, Start(s) PROVE AtHandWell'
  BY <1>1 DEF Types, Loop, Variants, products, AtHandWell, PackagedSoFar, Whole, Ready, Form,
       Single, Start, None
<1>2. ASSUME Clear PROVE AtHandWell'
  BY <1>2 DEF Types, Loop, Variants, products, AtHandWell, PackagedSoFar, Whole, Ready, Form,
       Single, Clear, None
<1>3. ASSUME PackageVariant PROVE AtHandWell'
  BY <1>3 DEF Types, Loop, Variants, products, AtHandWell, PackagedSoFar, Whole, Ready, Form,
       Single, PackageVariant
<1>4. ASSUME WriteList PROVE AtHandWell'
  BY <1>4 DEF Types, Loop, Variants, products, AtHandWell, PackagedSoFar, Whole, Ready, Form,
       Single, WriteList
<1>5. ASSUME Transform PROVE AtHandWell'
  <2>1. package[at] = Single
    BY <1>5 DEF Types, PackagedSoFar, Loop, Transform
  <2>2. package'[at] = Ready
    BY <1>5, <2>1, TreeRewritten
         DEF Types, PackagedSoFar, Loop, Transform, Trees, Single, Ready, Form
  <2>. QED  BY <1>5, <2>2 DEF AtHandWell, Ready, Form, Transform, Well, Goto
<1>6. ASSUME FailTransform PROVE AtHandWell'
  BY <1>6 DEF Types, Loop, Variants, products, AtHandWell, PackagedSoFar, Whole, Ready, Form,
       Single, FailTransform, Badly, Goto
<1>7. ASSUME Pack PROVE AtHandWell'
  <2>1. at \notin spoilt => rootfs'[at] = Whole
    <3>1. at \notin spoilt => package[at] = Ready
      BY <1>7 DEF AtHandWell, Pack
    <3>2. Of(Ready, TRUE) = Whole
      BY DEF Of, Ready, Whole
    <3>. QED  BY <1>7, <3>1, <3>2 DEF Types, Pack
  <2>. QED  BY <1>7, <2>1 DEF AtHandWell, Ready, Whole, Form, Pack, Well, Goto
<1>8. ASSUME FailPack PROVE AtHandWell'
  BY <1>8 DEF Types, Loop, Variants, products, AtHandWell, PackagedSoFar, Whole, Ready, Form,
       Single, FailPack, Badly, Goto, Of
<1>9. ASSUME Assemble PROVE AtHandWell'
  BY <1>9 DEF Types, Loop, Variants, products, AtHandWell, PackagedSoFar, Whole, Ready, Form,
       Single, Assemble, Well, Goto
<1>10. ASSUME FailAssemble PROVE AtHandWell'
  <2>1. at \notin spoilt => rootfs[at] # Nothing
    <3>1. Whole \in Product
      BY DEF Types, Whole, Form, Product, Trees
    <3>. QED  BY <1>10, <3>1 DEF AtHandWell, FailAssemble
  <2>. QED  BY <1>10, <2>1 DEF Types, AtHandWell, FailAssemble, Well, Badly, Goto
<1>11. ASSUME Export PROVE AtHandWell'
  BY <1>11 DEF Types, Loop, Variants, products, AtHandWell, PackagedSoFar, Whole, Ready, Form,
       Single, Export, Well, AfterExport, Exportable
<1>12. ASSUME FailExport PROVE AtHandWell'
  BY <1>12 DEF Types, Loop, Variants, products, AtHandWell, PackagedSoFar, Whole, Ready, Form,
       Single, FailExport, Well, Badly, AfterExport, Exportable
<1>13. ASSUME Stamp PROVE AtHandWell'
  BY <1>13 DEF Types, Loop, Variants, products, AtHandWell, PackagedSoFar, Whole, Ready, Form,
       Single, Stamp
<1>14. ASSUME FailList PROVE AtHandWell'
  BY <1>14 DEF Types, Loop, Variants, products, AtHandWell, PackagedSoFar, Whole, Ready, Form,
       Single, FailList
<1>15. ASSUME Abort PROVE AtHandWell'
  BY <1>15 DEF Types, Loop, Variants, products, AtHandWell, PackagedSoFar, Whole, Ready, Form,
       Single, Abort
<1>16. ASSUME Stop \/ UNCHANGED vars PROVE AtHandWell'
  <2>1. /\ pc' = pc /\ at' = at /\ spoilt' = spoilt
        /\ package' = package /\ rootfs' = rootfs /\ image' = image
        /\ Ready' = Ready /\ Whole' = Whole
    BY <1>16 DEF Stop, vars, Ready, Whole, Form
  <2>. QED  BY <2>1 DEF AtHandWell
<1>. QED  BY <1>1, <1>2, <1>3, <1>4, <1>5, <1>6, <1>7, <1>8, <1>9, <1>10, <1>11, <1>12, <1>13,
      <1>14, <1>15, <1>16 DEF Next

\* Every step preserves that the stamp is deserved.
LEMMA StampStep ==
    ASSUME Types, AtHandWell, BehindExported, StampDeserved, [Next]_vars
    PROVE  StampDeserved'
<1>. USE LastAssumption, SettingsAssumption, NothingAssumption
<1>1. ASSUME NEW s \in Settings, Start(s) PROVE StampDeserved'
  BY <1>1 DEF Types, Loop, Variants, products, StampDeserved, AtHandWell, BehindExported, Whole,
       Ready, Form, Start, None
<1>2. ASSUME Clear PROVE StampDeserved'
  BY <1>2 DEF Types, Loop, Variants, products, StampDeserved, AtHandWell, BehindExported, Whole,
       Ready, Form, Clear, None
<1>3. ASSUME PackageVariant PROVE StampDeserved'
  BY <1>3 DEF Types, Loop, Variants, products, StampDeserved, AtHandWell, BehindExported, Whole,
       Ready, Form, PackageVariant
<1>4. ASSUME WriteList PROVE StampDeserved'
  BY <1>4 DEF Types, Loop, Variants, products, StampDeserved, AtHandWell, BehindExported, Whole,
       Ready, Form, WriteList
<1>5. ASSUME Transform PROVE StampDeserved'
  BY <1>5 DEF Types, Loop, Variants, products, StampDeserved, AtHandWell, BehindExported, Whole,
       Ready, Form, Transform, Well, Goto
<1>6. ASSUME FailTransform PROVE StampDeserved'
  BY <1>6 DEF Types, Loop, Variants, products, StampDeserved, AtHandWell, BehindExported, Whole,
       Ready, Form, FailTransform, Badly, Goto
<1>7. ASSUME Pack PROVE StampDeserved'
  BY <1>7 DEF Types, Loop, Variants, products, StampDeserved, AtHandWell, BehindExported, Whole,
       Ready, Form, Pack, Well, Goto, Of
<1>8. ASSUME FailPack PROVE StampDeserved'
  BY <1>8 DEF Types, Loop, Variants, products, StampDeserved, AtHandWell, BehindExported, Whole,
       Ready, Form, FailPack, Badly, Goto, Of
<1>9. ASSUME Assemble PROVE StampDeserved'
  BY <1>9 DEF Types, Loop, Variants, products, StampDeserved, AtHandWell, BehindExported, Whole,
       Ready, Form, Assemble, Well, Goto
<1>10. ASSUME FailAssemble PROVE StampDeserved'
  BY <1>10 DEF Types, Loop, Variants, products, StampDeserved, AtHandWell, BehindExported, Whole,
       Ready, Form, FailAssemble, Well, Badly, Goto
<1>11. ASSUME Export PROVE StampDeserved'
  <2>1. exported'[at] # Nothing /\ (at \notin spoilt => exported'[at] = Whole)
    BY <1>11 DEF Types, AtHandWell, Export, Exportable
  <2>2. \A i \in Variants \ {at} : exported'[i] = exported[i]
    BY <1>11 DEF Types, Export
  <2>3. at < Last \/ at = Last
    BY DEF Types, Variants
  <2>4. CASE at < Last
    BY <1>11, <2>4 DEF StampDeserved, Export, AfterExport
  <2>5. CASE at = Last
    <3>1. \A i \in Variants \ spoilt : exported'[i] = Whole
      BY <1>11, <2>1, <2>2, <2>5 DEF Types, Variants, Loop, BehindExported, Export
    <3>. QED
      BY <1>11, <2>1, <2>5, <3>1 DEF StampDeserved, Export, AfterExport, Well, Whole, Form
  <2>. QED  BY <2>3, <2>4, <2>5
<1>12. ASSUME FailExport PROVE StampDeserved'
  BY <1>12 DEF Types, Loop, Variants, products, StampDeserved, AtHandWell, BehindExported, Whole,
       Ready, Form, FailExport, Well, Badly, AfterExport, Exportable
<1>13. ASSUME Stamp PROVE StampDeserved'
  BY <1>13 DEF Types, Loop, Variants, products, StampDeserved, AtHandWell, BehindExported, Whole,
       Ready, Form, Stamp
<1>14. ASSUME FailList PROVE StampDeserved'
  BY <1>14 DEF Types, Loop, Variants, products, StampDeserved, AtHandWell, BehindExported, Whole,
       Ready, Form, FailList
<1>15. ASSUME Abort PROVE StampDeserved'
  BY <1>15 DEF Types, Loop, Variants, products, StampDeserved, AtHandWell, BehindExported, Whole,
       Ready, Form, Abort
<1>16. ASSUME Stop \/ UNCHANGED vars PROVE StampDeserved'
  <2>1. /\ pc' = pc /\ stamped' = stamped /\ spoilt' = spoilt /\ exported' = exported
        /\ Whole' = Whole
    BY <1>16 DEF Stop, vars, Whole, Form
  <2>. QED  BY <2>1 DEF StampDeserved
<1>. QED  BY <1>1, <1>2, <1>3, <1>4, <1>5, <1>6, <1>7, <1>8, <1>9, <1>10, <1>11, <1>12, <1>13,
      <1>14, <1>15, <1>16 DEF Next

\* The initial states.
LEMMA InitInvariant == Init => IInv
<1>. SUFFICES ASSUME Init PROVE IInv
  OBVIOUS
<1>1. Types
  <2>1. 1 \in Variants
    BY LastAssumption DEF Variants
  <2>2. None \in [Variants -> Package \cup {Nothing}] /\ None \in [Variants -> Product \cup {Nothing}]
    BY DEF None
  <2>. QED  BY <2>1, <2>2 DEF Init, Types
<1>2. BelowRunsOfThisRun /\ PackagedSoFar /\ BehindExported /\ AtHandWell /\ StampDeserved
  BY DEF Init, Loop, BelowRunsOfThisRun, PackagedSoFar, BehindExported, AtHandWell, StampDeserved
<1>3. ExportIsOfThisRun
  BY DEF Init, None, ExportIsOfThisRun
<1>. QED  BY <1>1, <1>2, <1>3 DEF IInv

LEMMA StepInvariant == IInv /\ [Next]_vars => IInv'
  BY TypesStep, BelowStep, ExportedStep, PackagedStep, BehindStep, AtHandStep, StampStep DEF IInv

LEMMA Invariance == Spec => []IInv
  BY InitInvariant, StepInvariant, PTL DEF Spec

\* No image of an earlier command line is exported, whatever fails in the loop
\* and whatever it leaves below runs/.
THEOREM ExportedImagesAreOfThisRun == Spec => []ExportIsOfThisRun
  BY Invariance, PTL DEF IInv

\* Once the stamp is there, every variant none of whose steps failed has been
\* exported whole and in the right form, for any number of variants.
THEOREM StampedVariantsExported == Spec => []StampMeansExported
<1>1. IInv => StampMeansExported
  BY DEF IInv, StampDeserved, StampMeansExported, Good, Whole, Form
<1>. QED  BY <1>1, Invariance, PTL

=============================================================================
