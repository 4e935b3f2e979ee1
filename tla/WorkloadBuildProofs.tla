-------------------------- MODULE WorkloadBuildProofs --------------------------
(***************************************************************************)
(* Proofs about WorkloadBuild, for any files, versions and command lines   *)
(* and any bounds.                                                         *)
(***************************************************************************)
EXTENDS WorkloadBuild, FiniteSetTheorems, TLAPS

Downloading == {"list", "line", "wget"}
Building == {"clear", "build", "pack", "packing"}

Types ==
    /\ kind \in Kinds /\ list \in Lists /\ own \in Nat
    /\ pc \in {"idle", "target"} \cup Downloading \cup Building
    /\ arch \in Archs
    /\ todo \in Seq(Files \X Versions)
    /\ disk \in Trees
    /\ sentinel \in BOOLEAN /\ listNewer \in BOOLEAN
    /\ source \in Sources \cup {None}
    /\ package \in Packages \cup {None} /\ cpio \in Packages \cup {None}
    /\ amSentinel \in BOOLEAN /\ stale \in BOOLEAN
    /\ ran \in BOOLEAN /\ hit \in BOOLEAN /\ misled \in BOOLEAN /\ cut \in BOOLEAN
    /\ before \in Nat

\* Of the workload as it is, but for an edit that was missed.
Owned(o) == "own" \in missed \/ o = own
Listed(files) == "list" \in missed \/ \A f \in Files : list[f] \in {None, files[f]}

\* While the list is worked off, what is not on the disk is still to do; the
\* downloads are as listed whenever the sentinel is newer than the list.
DownloadsSoFar ==
    /\ pc \in Downloading => ~sentinel \/ listNewer
    /\ pc \in {"line", "wget"} =>
           "list" \in missed \/ \A f \in Files : list[f] \in {None, disk[f]}
                                     \/ \E k \in 1..Len(todo) : todo[k] = <<f, list[f]>>
    /\ pc = "wget" => todo # <<>> /\ disk[File] = "part"
    /\ sentinel /\ ~listNewer => Listed(disk)
    /\ pc \in {"target"} \cup Building => sentinel /\ (listNewer => "list" \in missed)

\* What the recipe has made so far is of the workload, and make had a reason
\* to run it.
BuiltSoFar ==
    /\ pc \in {"clear", "build"} => source # None /\ Owned(source.own) /\ Listed(source.files)
    /\ pc \in {"pack", "packing"} =>
           /\ package # None /\ package.whole /\ package.arch = arch
           /\ Owned(package.own) /\ Listed(package.files)
    /\ pc \in {"clear", "build", "pack"} => ~Target \/ stale
    /\ pc = "packing" => kind = "linux" /\ cpio # None

\* A target that make takes for new is of the workload, unless the list is newer.
TargetCurrent ==
    Target /\ ~stale /\ ~cut /\ pc # "packing" =>
        /\ Product # None /\ Product.whole
        /\ Owned(Product.own)
        /\ sentinel /\ ~listNewer => Listed(Product.files)

EndedWell ==
    /\ pc \in {"target"} \cup Downloading => ~ran
    /\ exit = "ok" =>
           /\ pc = "idle" /\ Target /\ ~stale
           /\ sentinel /\ (listNewer => "list" \in missed)
           /\ ran /\ ~cut => Product.arch = arch

IInv ==
    /\ Types
    /\ DownloadsSoFar
    /\ BuiltSoFar
    /\ TargetCurrent
    /\ EndedWell

\* As long as there is no accident, what is to do is as listed, and the
\* downloads lack no more than when make began, but for the file being fetched
\* or one that was just fetched and is not what is listed.
Nearer ==
    pc \in Downloading /\ ~hit =>
        /\ pc # "list" => \A k \in 1..Len(todo) : list[todo[k][1]] = todo[k][2]
        /\ misled => pc = "line" /\ todo # <<>> /\ disk[File] \notin {None, Sum}
        /\ Distance(disk, list) <= before + (IF pc = "wget" \/ misled THEN 1 ELSE 0)

-----------------------------------------------------------------------------
(* Lemmas about the list and the distance *)

\* SetToSeq lists every element of a finite set.
LEMMA SetToSeqElements ==
    ASSUME NEW S, IsFiniteSet(S)
    PROVE  /\ SetToSeq(S) \in Seq(S)
           /\ \A x \in S : \E k \in 1..Len(SetToSeq(S)) : SetToSeq(S)[k] = x
<1>. DEFINE n == Cardinality(S)
            s == SetToSeq(S)
<1>1. n \in Nat /\ ExistsBijection(1..n, S)
  BY FS_CardinalityType
<1>2. \E f \in [1..n -> S] : IsInjective(f)
  BY <1>1 DEF ExistsBijection, Bijection, Injection, IsInjective
<1>3. s \in [1..n -> S] /\ IsInjective(s)
  BY <1>2 DEF SetToSeq
<1>4. s \in Injection(1..n, S)
  BY <1>3 DEF Injection, IsInjective
<1>5. Cardinality(1..n) = n
  BY <1>1, FS_Interval
<1>6. s \in Surjection(1..n, S)
  BY <1>4, <1>5, FS_Injection
<1>7. s \in Seq(S) /\ Len(s) = n
  BY <1>1, <1>3
<1>. QED  BY <1>6, <1>7 DEF Surjection

\* The list that download-files.sh works off.
ToDo(l) == {<<f, l[f]>> : f \in {g \in Files : l[g] # None}}

LEMMA ToDoFinite == ASSUME NEW l \in Lists PROVE IsFiniteSet(ToDo(l))
<1>. DEFINE G == {g \in Files : l[g] # None}
            h == [g \in G |-> <<g, l[g]>>]
<1>1. IsFiniteSet(G)
  BY FilesAssumption, FS_Subset
<1>2. h \in Surjection(G, ToDo(l))
  BY DEF Surjection, ToDo
<1>. QED  BY <1>1, <1>2, FS_Surjection

Lacking(d, l) == {f \in Files : l[f] \notin {None, d[f]}}
Wrong(d, l) == {f \in Lacking(d, l) : d[f] # None}

LEMMA DistanceSplit ==
    ASSUME NEW d, NEW l
    PROVE  /\ IsFiniteSet(Lacking(d, l)) /\ IsFiniteSet(Wrong(d, l))
           /\ Cardinality(Lacking(d, l)) \in Nat /\ Cardinality(Wrong(d, l)) \in Nat
           /\ Distance(d, l) \in Nat
           /\ Distance(d, l) = Cardinality(Lacking(d, l)) + Cardinality(Wrong(d, l))
<1>1. IsFiniteSet(Lacking(d, l))
  BY FilesAssumption, FS_Subset DEF Lacking
<1>2. IsFiniteSet(Wrong(d, l))
  BY <1>1, FS_Subset DEF Wrong
<1>. QED  BY <1>1, <1>2, FS_CardinalityType DEF Distance, Lacking, Wrong

\* Removing a file that is not as listed is one step.
LEMMA RemovingHelps ==
    ASSUME NEW d \in Trees, NEW l \in Lists, NEW f \in Files, l[f] # None, d[f] \notin {None, l[f]}
    PROVE  Distance([d EXCEPT ![f] = None], l) = Distance(d, l) - 1
<1>. DEFINE e == [d EXCEPT ![f] = None]
<1>1. Lacking(e, l) = Lacking(d, l)
  BY DEF Lacking, Trees
<1>2. Wrong(e, l) = Wrong(d, l) \ {f} /\ f \in Wrong(d, l)
  BY DEF Wrong, Lacking, Trees
<1>3. Cardinality(Wrong(e, l)) = Cardinality(Wrong(d, l)) - 1
  BY <1>2, DistanceSplit, FS_RemoveElement
<1>. HIDE DEF e
<1>4. Distance(e, l) = Distance(d, l) - 1
  BY <1>1, <1>3, DistanceSplit
<1>. QED  BY <1>4 DEF e

\* Fetching a file that is listed is one step.
LEMMA FetchingHelps ==
    ASSUME NEW d \in Trees, NEW l \in Lists, NEW f \in Files, l[f] # None, d[f] = None
    PROVE  Distance([d EXCEPT ![f] = l[f]], l) = Distance(d, l) - 1
<1>. DEFINE e == [d EXCEPT ![f] = l[f]]
<1>1. Lacking(e, l) = Lacking(d, l) \ {f} /\ f \in Lacking(d, l)
  BY DEF Lacking, Trees
<1>2. Wrong(e, l) = Wrong(d, l)
  BY DEF Wrong, Lacking, Trees
<1>3. Cardinality(Lacking(e, l)) = Cardinality(Lacking(d, l)) - 1
  BY <1>1, DistanceSplit, FS_RemoveElement
<1>. HIDE DEF e
<1>4. Distance(e, l) = Distance(d, l) - 1
  BY <1>2, <1>3, DistanceSplit
<1>. QED  BY <1>4 DEF e

\* A file that is not as listed may become another one that is not.
LEMMA ReplacingKeeps ==
    ASSUME NEW d \in Trees, NEW l \in Lists, NEW f \in Files, NEW v,
           l[f] # None, d[f] \notin {None, l[f]}, v \notin {None, l[f]}
    PROVE  Distance([d EXCEPT ![f] = v], l) = Distance(d, l)
<1>. DEFINE e == [d EXCEPT ![f] = v]
<1>1. Lacking(e, l) = Lacking(d, l)
  BY DEF Lacking, Trees
<1>2. Wrong(e, l) = Wrong(d, l)
  BY <1>1 DEF Wrong, Trees
<1>. HIDE DEF e
<1>3. Distance(e, l) = Distance(d, l)
  BY <1>1, <1>2, DistanceSplit
<1>. QED  BY <1>3 DEF e

\* What ReadList puts into todo.
LEMMA ToDoRead ==
    ASSUME list \in Lists, ReadList
    PROVE  /\ todo' \in Seq(Files \X Versions)
           /\ \A k \in 1..Len(todo') : list[todo'[k][1]] = todo'[k][2]
           /\ \A f \in Files : list[f] # None => \E k \in 1..Len(todo') : todo'[k] = <<f, list[f]>>
<1>1. IsFiniteSet(ToDo(list)) /\ todo' = SetToSeq(ToDo(list))
  BY ToDoFinite DEF ReadList, ToDo
<1>2. todo' \in Seq(ToDo(list)) /\ \A x \in ToDo(list) : \E k \in 1..Len(todo') : todo'[k] = x
  BY <1>1, SetToSeqElements
<1>3. ToDo(list) \subseteq Files \X Versions /\ \A x \in ToDo(list) : list[x[1]] = x[2]
  BY DEF ToDo, Lists
<1>4. \A f \in Files : list[f] # None => <<f, list[f]>> \in ToDo(list)
  BY DEF ToDo
<1>5. todo' \in Seq(Files \X Versions)
  BY <1>2, <1>3
<1>6. \A k \in 1..Len(todo') : todo'[k] \in ToDo(list)
  BY <1>2
<1>. QED  BY <1>2, <1>3, <1>4, <1>5, <1>6

LEMMA NextFile ==
    ASSUME todo \in Seq(Files \X Versions), todo # <<>>
    PROVE  File \in Files /\ Sum \in Versions /\ 1 \in 1..Len(todo)
<1>1. 1 \in 1..Len(todo)
  OBVIOUS
<1>. QED  BY <1>1 DEF File, Sum

LEMMA PartIsPackage == Part \in Packages /\ Part # None
<1>1. [f \in Files |-> None] \in Trees
  BY DEF Trees
<1>2. Part \in Packages
  BY <1>1 DEF Part, Packages
<1>. QED  BY <1>2, NoneAssumption

LEMMA BuiltIsPackage ==
    ASSUME NEW s \in Sources, NEW a \in Archs
    PROVE  Built(s, a) \in Packages /\ Built(s, a) # None
<1>1. Built(s, a) \in Packages
  BY DEF Built, Sources, Packages
<1>. QED  BY <1>1, NoneAssumption

-----------------------------------------------------------------------------
(* One lemma per part: every step preserves it *)

\* Every step preserves the types.
LEMMA TypesStep ==
    ASSUME Types, DownloadsSoFar, BuiltSoFar, [Next]_vars
    PROVE  Types'
<1>. USE NoneAssumption
<1>1. ASSUME NEW a \in Archs, Start(a) PROVE Types'
  <2>1. before' \in Nat
    BY <1>1, DistanceSplit DEF Start
  <2>. QED  BY <1>1, <2>1 DEF workload, download, product, Types, Downloading, Start
<1>2. ASSUME NEW l \in Lists, EditList(l) PROVE Types'
  BY <1>2 DEF workload, download, product, history, bounds, Types, Lists, Trees, Sources, Packages,
       Downloading, Building, EditList
<1>3. ASSUME EditOwn PROVE Types'
  BY <1>3 DEF workload, download, product, history, bounds, Types, Lists, Trees, Sources, Packages,
       Downloading, Building, EditOwn
<1>4. ASSUME ReadList PROVE Types'
  <2>1. todo' \in Seq(Files \X Versions)
    BY <1>4, ToDoRead DEF Types
  <2>. QED  BY <1>4, <2>1 DEF workload, product, Types, Downloading, ReadList, Then
<1>5. ASSUME StartWget PROVE Types'
  BY <1>5 DEF workload, download, product, history, bounds, Types, Lists, Trees, Sources, Packages,
       Downloading, Building, StartWget, Then, File, Sum
<1>6. ASSUME FinishWget PROVE Types'
  <2>1. disk' \in Trees
    BY <1>6, NextFile DEF Types, DownloadsSoFar, Trees, FinishWget
  <2>. QED  BY <1>6, <2>1 DEF workload, product, history, Types, Downloading, FinishWget, Then
<1>7. ASSUME FailWget PROVE Types'
  <2>1. disk' \in Trees
    BY <1>7, NextFile DEF Types, DownloadsSoFar, Trees, FailWget
  <2>. QED  BY <1>7, <2>1 DEF workload, product, Types, FailWget
<1>8. ASSUME Verify PROVE Types'
  BY <1>8 DEF workload, download, product, history, bounds, Types, Lists, Trees, Sources, Packages,
       Downloading, Building, Verify, Then, File, Sum
<1>9. ASSUME Mismatch PROVE Types'
  BY <1>9 DEF workload, download, product, history, bounds, Types, Lists, Trees, Sources, Packages,
       Downloading, Building, Mismatch, Ended, File, Sum
<1>10. ASSUME TouchSentinel PROVE Types'
  BY <1>10 DEF workload, download, product, history, bounds, Types, Lists, Trees, Sources,
       Packages, Downloading, Building, TouchSentinel, Then
<1>11. ASSUME UpToDate PROVE Types'
  BY <1>11 DEF workload, download, product, history, bounds, Types, Lists, Trees, Sources,
       Packages, Downloading, Building, UpToDate, Ended
<1>12. ASSUME Populate PROVE Types'
  BY <1>12 DEF workload, download, product, history, bounds, Types, Lists, Trees, Sources,
       Packages, Downloading, Building, Populate, Then
<1>13. ASSUME ClearPackage PROVE Types'
  BY <1>13 DEF workload, download, product, history, bounds, Types, Lists, Trees, Sources,
       Packages, Downloading, Building, ClearPackage, Then
<1>14. ASSUME RunBuild PROVE Types'
  <2>1. package' \in Packages
    BY <1>14, BuiltIsPackage DEF Types, BuiltSoFar, RunBuild
  <2>. QED  BY <1>14, <2>1 DEF workload, download, history, Types, Building, RunBuild, Then
<1>15. ASSUME StartPack PROVE Types'
  BY <1>15, PartIsPackage DEF workload, download, Types, Building, StartPack, Then
<1>16. ASSUME FinishPack PROVE Types'
  BY <1>16 DEF workload, download, product, history, bounds, Types, Lists, Trees, Sources,
       Packages, Downloading, Building, FinishPack, Ended
<1>17. ASSUME TouchAm PROVE Types'
  BY <1>17 DEF workload, download, Types, TouchAm, Ended
<1>18. ASSUME Mishap PROVE Types'
  BY <1>18, PartIsPackage DEF workload, download, Types, Mishap
<1>19. ASSUME Rest \/ UNCHANGED vars PROVE Types'
  BY <1>19 DEF workload, download, product, history, bounds, Types, Lists, Trees, Sources,
       Packages, Downloading, Building, Rest, vars
<1>. QED  BY <1>1, <1>2, <1>3, <1>4, <1>5, <1>6, <1>7, <1>8, <1>9, <1>10, <1>11, <1>12, <1>13,
      <1>14, <1>15, <1>16, <1>17, <1>18, <1>19 DEF Next

\* Every step preserves what is known of the downloads.
LEMMA DownloadsStep ==
    ASSUME Types, DownloadsSoFar, [Next]_vars
    PROVE  DownloadsSoFar'
<1>. USE NoneAssumption
<1>1. ASSUME NEW a \in Archs, Start(a) PROVE DownloadsSoFar'
  BY <1>1 DEF workload, download, product, history, bounds, Types, DownloadsSoFar, Downloading,
       Building, Listed, Lists, Trees, File, Start
<1>2. ASSUME NEW l \in Lists, EditList(l) PROVE DownloadsSoFar'
  BY <1>2 DEF workload, download, product, history, bounds, Types, DownloadsSoFar, Downloading,
       Building, Listed, Lists, Trees, File, EditList
<1>3. ASSUME EditOwn PROVE DownloadsSoFar'
  BY <1>3 DEF workload, download, product, history, bounds, Types, DownloadsSoFar, Downloading,
       Building, Listed, Lists, Trees, File, EditOwn
<1>4. ASSUME ReadList PROVE DownloadsSoFar'
  <2>1. \A f \in Files : list[f] # None => \E k \in 1..Len(todo') : todo'[k] = <<f, list[f]>>
    BY <1>4, ToDoRead DEF Types
  <2>. QED  BY <1>4, <2>1
        DEF workload, DownloadsSoFar, Downloading, Building, Listed, ReadList, Then
<1>5. ASSUME StartWget PROVE DownloadsSoFar'
  <2>1. disk'[File] = "part" /\ \A f \in Files \ {File} : disk'[f] = disk[f]
    BY <1>5, NextFile DEF Types, Trees, StartWget
  <2>. QED  BY <1>5, <2>1
        DEF workload, history, DownloadsSoFar, Downloading, Building, Listed, StartWget, Then, File
<1>6. ASSUME FinishWget PROVE DownloadsSoFar'
  <2>1. todo # <<>> /\ disk[File] = "part"
    BY <1>6 DEF DownloadsSoFar, FinishWget
  <2>2. \A f \in Files \ {File} : disk'[f] = disk[f]
    BY <1>6 DEF Types, Trees, FinishWget
  <2>3. \A f \in Files : list[f] # None /\ disk[f] = list[f] => f # File
    BY <2>1 DEF Types, Lists
  <2>. QED  BY <1>6, <2>2, <2>3
        DEF workload, history, DownloadsSoFar, Downloading, Building, Listed, FinishWget, Then, File
<1>7. ASSUME FailWget PROVE DownloadsSoFar'
  BY <1>7 DEF workload, download, product, history, bounds, Types, DownloadsSoFar, Downloading,
       Building, Listed, Lists, Trees, File, FailWget, File, Sum
<1>8. ASSUME Verify PROVE DownloadsSoFar'
  <2>1. \A k \in 2..Len(todo) : k - 1 \in 1..Len(todo') /\ todo'[k - 1] = todo[k]
    BY <1>8 DEF Types, Verify
  <2>2. \A f \in Files : todo[1] = <<f, list[f]>> => disk[f] = list[f]
    BY <1>8 DEF Verify, File, Sum
  <2>3. "list" \in missed \/ \A f \in Files : list[f] \in {None, disk[f]}
                                  \/ \E k \in 1..Len(todo') : todo'[k] = <<f, list[f]>>
    <3>1. \A k \in 1..Len(todo) : k = 1 \/ k \in 2..Len(todo)
      BY DEF Types
    <3>2. ASSUME NEW f \in Files, NEW k \in 1..Len(todo), todo[k] = <<f, list[f]>>
          PROVE  disk[f] = list[f] \/ \E j \in 1..Len(todo') : todo'[j] = <<f, list[f]>>
      BY <2>1, <2>2, <3>1, <3>2
    <3>. QED  BY <1>8, <3>2 DEF DownloadsSoFar, Verify
  <2>. QED  BY <1>8, <2>3
        DEF workload, history, DownloadsSoFar, Downloading, Building, Listed, Verify, Then
<1>9. ASSUME Mismatch PROVE DownloadsSoFar'
  BY <1>9 DEF workload, download, product, history, bounds, Types, DownloadsSoFar, Downloading,
       Building, Listed, Lists, Trees, File, Mismatch, Ended, File, Sum
<1>10. ASSUME TouchSentinel PROVE DownloadsSoFar'
  BY <1>10 DEF workload, download, product, history, bounds, Types, DownloadsSoFar, Downloading,
       Building, Listed, Lists, Trees, File, TouchSentinel, Then
<1>11. ASSUME UpToDate PROVE DownloadsSoFar'
  BY <1>11 DEF workload, download, product, history, bounds, Types, DownloadsSoFar, Downloading,
       Building, Listed, Lists, Trees, File, UpToDate, Ended
<1>12. ASSUME Populate PROVE DownloadsSoFar'
  BY <1>12 DEF workload, download, product, history, bounds, Types, DownloadsSoFar, Downloading,
       Building, Listed, Lists, Trees, File, Populate, Then
<1>13. ASSUME ClearPackage PROVE DownloadsSoFar'
  BY <1>13 DEF workload, download, product, history, bounds, Types, DownloadsSoFar, Downloading,
       Building, Listed, Lists, Trees, File, ClearPackage, Then
<1>14. ASSUME RunBuild PROVE DownloadsSoFar'
  BY <1>14 DEF workload, download, product, history, bounds, Types, DownloadsSoFar, Downloading,
       Building, Listed, Lists, Trees, File, RunBuild, Then, Built
<1>15. ASSUME StartPack PROVE DownloadsSoFar'
  BY <1>15 DEF workload, download, product, history, bounds, Types, DownloadsSoFar, Downloading,
       Building, Listed, Lists, Trees, File, StartPack, Then
<1>16. ASSUME FinishPack PROVE DownloadsSoFar'
  BY <1>16 DEF workload, download, product, history, bounds, Types, DownloadsSoFar, Downloading,
       Building, Listed, Lists, Trees, File, FinishPack, Ended
<1>17. ASSUME TouchAm PROVE DownloadsSoFar'
  BY <1>17 DEF workload, download, product, history, bounds, Types, DownloadsSoFar, Downloading,
       Building, Listed, Lists, Trees, File, TouchAm, Ended
<1>18. ASSUME Mishap PROVE DownloadsSoFar'
  BY <1>18 DEF workload, download, product, history, bounds, Types, DownloadsSoFar, Downloading,
       Building, Listed, Lists, Trees, File, Mishap
<1>19. ASSUME Rest \/ UNCHANGED vars PROVE DownloadsSoFar'
  BY <1>19 DEF workload, download, product, history, bounds, Types, DownloadsSoFar, Downloading,
       Building, Listed, Lists, Trees, File, Rest, vars
<1>. QED  BY <1>1, <1>2, <1>3, <1>4, <1>5, <1>6, <1>7, <1>8, <1>9, <1>10, <1>11, <1>12, <1>13,
      <1>14, <1>15, <1>16, <1>17, <1>18, <1>19 DEF Next

\* Every step preserves what is known of the recipe.
LEMMA BuiltStep ==
    ASSUME Types, DownloadsSoFar, BuiltSoFar, [Next]_vars
    PROVE  BuiltSoFar'
<1>. USE NoneAssumption
<1>1. ASSUME NEW a \in Archs, Start(a) PROVE BuiltSoFar'
  BY <1>1 DEF workload, download, product, history, bounds, Types, DownloadsSoFar, BuiltSoFar,
       Downloading, Building, Listed, Owned, Target, Start
<1>2. ASSUME NEW l \in Lists, EditList(l) PROVE BuiltSoFar'
  BY <1>2 DEF workload, download, product, history, bounds, Types, DownloadsSoFar, BuiltSoFar,
       Downloading, Building, Listed, Owned, Target, EditList
<1>3. ASSUME EditOwn PROVE BuiltSoFar'
  BY <1>3 DEF workload, download, product, history, bounds, Types, DownloadsSoFar, BuiltSoFar,
       Downloading, Building, Listed, Owned, Target, EditOwn
<1>4. ASSUME ReadList PROVE BuiltSoFar'
  BY <1>4 DEF workload, download, product, history, bounds, Types, DownloadsSoFar, BuiltSoFar,
       Downloading, Building, Listed, Owned, Target, ReadList, Then
<1>5. ASSUME StartWget PROVE BuiltSoFar'
  BY <1>5 DEF workload, download, product, history, bounds, Types, DownloadsSoFar, BuiltSoFar,
       Downloading, Building, Listed, Owned, Target, StartWget, Then, File, Sum
<1>6. ASSUME FinishWget PROVE BuiltSoFar'
  BY <1>6 DEF workload, download, product, history, bounds, Types, DownloadsSoFar, BuiltSoFar,
       Downloading, Building, Listed, Owned, Target, FinishWget, Then, File, Sum
<1>7. ASSUME FailWget PROVE BuiltSoFar'
  BY <1>7 DEF workload, download, product, history, bounds, Types, DownloadsSoFar, BuiltSoFar,
       Downloading, Building, Listed, Owned, Target, FailWget, File, Sum
<1>8. ASSUME Verify PROVE BuiltSoFar'
  BY <1>8 DEF workload, download, product, history, bounds, Types, DownloadsSoFar, BuiltSoFar,
       Downloading, Building, Listed, Owned, Target, Verify, Then, File, Sum
<1>9. ASSUME Mismatch PROVE BuiltSoFar'
  BY <1>9 DEF workload, download, product, history, bounds, Types, DownloadsSoFar, BuiltSoFar,
       Downloading, Building, Listed, Owned, Target, Mismatch, Ended, File, Sum
<1>10. ASSUME TouchSentinel PROVE BuiltSoFar'
  BY <1>10 DEF workload, download, product, history, bounds, Types, DownloadsSoFar, BuiltSoFar,
       Downloading, Building, Listed, Owned, Target, TouchSentinel, Then
<1>11. ASSUME UpToDate PROVE BuiltSoFar'
  BY <1>11 DEF workload, download, product, history, bounds, Types, DownloadsSoFar, BuiltSoFar,
       Downloading, Building, Listed, Owned, Target, UpToDate, Ended
<1>12. ASSUME Populate PROVE BuiltSoFar'
  <2>1. source' \in Sources
    BY <1>12 DEF Types, Sources, Populate
  <2>. QED  BY <1>12, <2>1 DEF workload, download, DownloadsSoFar, BuiltSoFar, Downloading,
        Building, Listed, Owned, Target, Populate, Then
<1>13. ASSUME ClearPackage PROVE BuiltSoFar'
  BY <1>13 DEF workload, download, product, history, bounds, Types, DownloadsSoFar, BuiltSoFar,
       Downloading, Building, Listed, Owned, Target, ClearPackage, Then
<1>14. ASSUME RunBuild PROVE BuiltSoFar'
  <2>1. source \in Sources /\ package' = Built(source, arch)
    BY <1>14 DEF Types, BuiltSoFar, RunBuild
  <2>2. /\ package' # None /\ package'.whole /\ package'.arch = arch
        /\ package'.own = source.own /\ package'.files = source.files
    BY <2>1, BuiltIsPackage DEF Types, Built
  <2>. QED  BY <1>14, <2>2
        DEF workload, download, history, BuiltSoFar, Listed, Owned, Target, RunBuild, Then
<1>15. ASSUME StartPack PROVE BuiltSoFar'
  BY <1>15, PartIsPackage DEF workload, download, BuiltSoFar, Listed, Owned, StartPack, Then
<1>16. ASSUME FinishPack PROVE BuiltSoFar'
  BY <1>16 DEF workload, download, product, history, bounds, Types, DownloadsSoFar, BuiltSoFar,
       Downloading, Building, Listed, Owned, Target, FinishPack, Ended
<1>17. ASSUME TouchAm PROVE BuiltSoFar'
  BY <1>17 DEF workload, download, product, history, bounds, Types, DownloadsSoFar, BuiltSoFar,
       Downloading, Building, Listed, Owned, Target, TouchAm, Ended
<1>18. ASSUME Mishap PROVE BuiltSoFar'
  BY <1>18 DEF workload, download, product, history, bounds, Types, DownloadsSoFar, BuiltSoFar,
       Downloading, Building, Listed, Owned, Target, Mishap
<1>19. ASSUME Rest \/ UNCHANGED vars PROVE BuiltSoFar'
  BY <1>19 DEF workload, download, product, history, bounds, Types, DownloadsSoFar, BuiltSoFar,
       Downloading, Building, Listed, Owned, Target, Rest, vars
<1>. QED  BY <1>1, <1>2, <1>3, <1>4, <1>5, <1>6, <1>7, <1>8, <1>9, <1>10, <1>11, <1>12, <1>13,
      <1>14, <1>15, <1>16, <1>17, <1>18, <1>19 DEF Next

\* Every step preserves what is known of a target that counts as new.
LEMMA TargetStep ==
    ASSUME Types, DownloadsSoFar, BuiltSoFar, TargetCurrent, [Next]_vars
    PROVE  TargetCurrent'
<1>. USE NoneAssumption, KindsAssumption
<1>1. ASSUME NEW a \in Archs, Start(a) PROVE TargetCurrent'
  BY <1>1 DEF workload, download, product, history, bounds, Types, DownloadsSoFar, BuiltSoFar,
       TargetCurrent, Downloading, Building, Listed, Owned, Target, Product, Start
<1>2. ASSUME NEW l \in Lists, EditList(l) PROVE TargetCurrent'
  BY <1>2 DEF workload, download, product, history, bounds, Types, DownloadsSoFar, BuiltSoFar,
       TargetCurrent, Downloading, Building, Listed, Owned, Target, Product, EditList
<1>3. ASSUME EditOwn PROVE TargetCurrent'
  BY <1>3 DEF workload, download, product, history, bounds, Types, DownloadsSoFar, BuiltSoFar,
       TargetCurrent, Downloading, Building, Listed, Owned, Target, Product, EditOwn
<1>4. ASSUME ReadList PROVE TargetCurrent'
  BY <1>4 DEF workload, download, product, history, bounds, Types, DownloadsSoFar, BuiltSoFar,
       TargetCurrent, Downloading, Building, Listed, Owned, Target, Product, ReadList, Then
<1>5. ASSUME StartWget PROVE TargetCurrent'
  BY <1>5 DEF workload, download, product, history, bounds, Types, DownloadsSoFar, BuiltSoFar,
       TargetCurrent, Downloading, Building, Listed, Owned, Target, Product, StartWget, Then, File,
       Sum
<1>6. ASSUME FinishWget PROVE TargetCurrent'
  BY <1>6 DEF workload, download, product, history, bounds, Types, DownloadsSoFar, BuiltSoFar,
       TargetCurrent, Downloading, Building, Listed, Owned, Target, Product, FinishWget, Then,
       File, Sum
<1>7. ASSUME FailWget PROVE TargetCurrent'
  BY <1>7 DEF workload, download, product, history, bounds, Types, DownloadsSoFar, BuiltSoFar,
       TargetCurrent, Downloading, Building, Listed, Owned, Target, Product, FailWget, File, Sum
<1>8. ASSUME Verify PROVE TargetCurrent'
  BY <1>8 DEF workload, download, product, history, bounds, Types, DownloadsSoFar, BuiltSoFar,
       TargetCurrent, Downloading, Building, Listed, Owned, Target, Product, Verify, Then, File, Sum
<1>9. ASSUME Mismatch PROVE TargetCurrent'
  BY <1>9 DEF workload, download, product, history, bounds, Types, DownloadsSoFar, BuiltSoFar,
       TargetCurrent, Downloading, Building, Listed, Owned, Target, Product, Mismatch, Ended, File,
       Sum
<1>10. ASSUME TouchSentinel PROVE TargetCurrent'
  BY <1>10 DEF workload, download, product, history, bounds, Types, DownloadsSoFar, BuiltSoFar,
       TargetCurrent, Downloading, Building, Listed, Owned, Target, Product, TouchSentinel, Then
<1>11. ASSUME UpToDate PROVE TargetCurrent'
  BY <1>11 DEF workload, download, product, history, bounds, Types, DownloadsSoFar, BuiltSoFar,
       TargetCurrent, Downloading, Building, Listed, Owned, Target, Product, UpToDate, Ended
<1>12. ASSUME Populate PROVE TargetCurrent'
  BY <1>12 DEF workload, download, product, history, bounds, Types, DownloadsSoFar, BuiltSoFar,
       TargetCurrent, Downloading, Building, Listed, Owned, Target, Product, Populate, Then
<1>13. ASSUME ClearPackage PROVE TargetCurrent'
  BY <1>13 DEF workload, download, product, history, bounds, Types, DownloadsSoFar, BuiltSoFar,
       TargetCurrent, Downloading, Building, Listed, Owned, Target, Product, ClearPackage, Then
<1>14. ASSUME RunBuild PROVE TargetCurrent'
  BY <1>14 DEF workload, download, product, history, bounds, Types, DownloadsSoFar, BuiltSoFar,
       TargetCurrent, Downloading, Building, Listed, Owned, Target, Product, RunBuild, Then, Built
<1>15. ASSUME StartPack PROVE TargetCurrent'
  BY <1>15 DEF workload, download, product, history, bounds, Types, DownloadsSoFar, BuiltSoFar,
       TargetCurrent, Downloading, Building, Listed, Owned, Target, Product, StartPack, Then
<1>16. ASSUME FinishPack PROVE TargetCurrent'
  BY <1>16 DEF workload, download, product, history, bounds, Types, DownloadsSoFar, BuiltSoFar,
       TargetCurrent, Downloading, Building, Listed, Owned, Target, Product, FinishPack, Ended
<1>17. ASSUME TouchAm PROVE TargetCurrent'
  BY <1>17 DEF workload, download, product, history, bounds, Types, DownloadsSoFar, BuiltSoFar,
       TargetCurrent, Downloading, Building, Listed, Owned, Target, Product, TouchAm, Ended
<1>18. ASSUME Mishap PROVE TargetCurrent'
  BY <1>18 DEF workload, download, product, history, bounds, Types, DownloadsSoFar, BuiltSoFar,
       TargetCurrent, Downloading, Building, Listed, Owned, Target, Product, Mishap
<1>19. ASSUME Rest \/ UNCHANGED vars PROVE TargetCurrent'
  BY <1>19 DEF workload, download, product, history, bounds, Types, DownloadsSoFar, BuiltSoFar,
       TargetCurrent, Downloading, Building, Listed, Owned, Target, Product, Rest, vars
<1>. QED  BY <1>1, <1>2, <1>3, <1>4, <1>5, <1>6, <1>7, <1>8, <1>9, <1>10, <1>11, <1>12, <1>13,
      <1>14, <1>15, <1>16, <1>17, <1>18, <1>19 DEF Next

\* Every step preserves what is known of a make that has ended well.
LEMMA EndedStep ==
    ASSUME Types, DownloadsSoFar, BuiltSoFar, EndedWell, [Next]_vars
    PROVE  EndedWell'
<1>. USE NoneAssumption, KindsAssumption
<1>1. ASSUME NEW a \in Archs, Start(a) PROVE EndedWell'
  BY <1>1 DEF workload, download, product, history, bounds, Types, DownloadsSoFar, BuiltSoFar,
       EndedWell, Downloading, Building, Target, Product, Start
<1>2. ASSUME NEW l \in Lists, EditList(l) PROVE EndedWell'
  BY <1>2 DEF workload, download, product, history, bounds, Types, DownloadsSoFar, BuiltSoFar,
       EndedWell, Downloading, Building, Target, Product, EditList
<1>3. ASSUME EditOwn PROVE EndedWell'
  BY <1>3 DEF workload, download, product, history, bounds, Types, DownloadsSoFar, BuiltSoFar,
       EndedWell, Downloading, Building, Target, Product, EditOwn
<1>4. ASSUME ReadList PROVE EndedWell'
  BY <1>4 DEF workload, download, product, history, bounds, Types, DownloadsSoFar, BuiltSoFar,
       EndedWell, Downloading, Building, Target, Product, ReadList, Then
<1>5. ASSUME StartWget PROVE EndedWell'
  BY <1>5 DEF workload, download, product, history, bounds, Types, DownloadsSoFar, BuiltSoFar,
       EndedWell, Downloading, Building, Target, Product, StartWget, Then, File, Sum
<1>6. ASSUME FinishWget PROVE EndedWell'
  BY <1>6 DEF workload, download, product, history, bounds, Types, DownloadsSoFar, BuiltSoFar,
       EndedWell, Downloading, Building, Target, Product, FinishWget, Then, File, Sum
<1>7. ASSUME FailWget PROVE EndedWell'
  BY <1>7 DEF workload, download, product, history, bounds, Types, DownloadsSoFar, BuiltSoFar,
       EndedWell, Downloading, Building, Target, Product, FailWget, File, Sum
<1>8. ASSUME Verify PROVE EndedWell'
  BY <1>8 DEF workload, download, product, history, bounds, Types, DownloadsSoFar, BuiltSoFar,
       EndedWell, Downloading, Building, Target, Product, Verify, Then, File, Sum
<1>9. ASSUME Mismatch PROVE EndedWell'
  BY <1>9 DEF workload, download, product, history, bounds, Types, DownloadsSoFar, BuiltSoFar,
       EndedWell, Downloading, Building, Target, Product, Mismatch, Ended, File, Sum
<1>10. ASSUME TouchSentinel PROVE EndedWell'
  BY <1>10 DEF workload, download, product, history, bounds, Types, DownloadsSoFar, BuiltSoFar,
       EndedWell, Downloading, Building, Target, Product, TouchSentinel, Then
<1>11. ASSUME UpToDate PROVE EndedWell'
  BY <1>11 DEF workload, download, product, history, bounds, Types, DownloadsSoFar, BuiltSoFar,
       EndedWell, Downloading, Building, Target, Product, UpToDate, Ended
<1>12. ASSUME Populate PROVE EndedWell'
  BY <1>12 DEF workload, download, product, history, bounds, Types, DownloadsSoFar, BuiltSoFar,
       EndedWell, Downloading, Building, Target, Product, Populate, Then
<1>13. ASSUME ClearPackage PROVE EndedWell'
  BY <1>13 DEF workload, download, product, history, bounds, Types, DownloadsSoFar, BuiltSoFar,
       EndedWell, Downloading, Building, Target, Product, ClearPackage, Then
<1>14. ASSUME RunBuild PROVE EndedWell'
  BY <1>14 DEF workload, download, product, history, bounds, Types, DownloadsSoFar, BuiltSoFar,
       EndedWell, Downloading, Building, Target, Product, RunBuild, Then, Built
<1>15. ASSUME StartPack PROVE EndedWell'
  BY <1>15 DEF workload, download, product, history, bounds, Types, DownloadsSoFar, BuiltSoFar,
       EndedWell, Downloading, Building, Target, Product, StartPack, Then
<1>16. ASSUME FinishPack PROVE EndedWell'
  BY <1>16 DEF workload, download, product, history, bounds, Types, DownloadsSoFar, BuiltSoFar,
       EndedWell, Downloading, Building, Target, Product, FinishPack, Ended
<1>17. ASSUME TouchAm PROVE EndedWell'
  BY <1>17 DEF workload, download, product, history, bounds, Types, DownloadsSoFar, BuiltSoFar,
       EndedWell, Downloading, Building, Target, Product, TouchAm, Ended
<1>18. ASSUME Mishap PROVE EndedWell'
  BY <1>18 DEF workload, download, product, history, bounds, Types, DownloadsSoFar, BuiltSoFar,
       EndedWell, Downloading, Building, Target, Product, Mishap
<1>19. ASSUME Rest \/ UNCHANGED vars PROVE EndedWell'
  BY <1>19 DEF workload, download, product, history, bounds, Types, DownloadsSoFar, BuiltSoFar,
       EndedWell, Downloading, Building, Target, Product, Rest, vars
<1>. QED  BY <1>1, <1>2, <1>3, <1>4, <1>5, <1>6, <1>7, <1>8, <1>9, <1>10, <1>11, <1>12, <1>13,
      <1>14, <1>15, <1>16, <1>17, <1>18, <1>19 DEF Next

\* Every step preserves that a make without an accident comes no farther away.
LEMMA NearerStep ==
    ASSUME Types, DownloadsSoFar, Nearer, [Next]_vars
    PROVE  Nearer'
<1>. USE NoneAssumption
<1>1. ASSUME NEW a \in Archs, Start(a) PROVE Nearer'
  <2>1. before' \in Nat /\ before' = Distance(disk', list')
    BY <1>1, DistanceSplit DEF Start, download, workload
  <2>. QED  BY <1>1, <2>1 DEF Nearer, Downloading, Start
<1>2. ASSUME NEW l \in Lists, EditList(l) PROVE Nearer'
  BY <1>2 DEF workload, download, product, history, bounds, Types, Nearer, Downloading, Building,
       EditList
<1>3. ASSUME EditOwn PROVE Nearer'
  BY <1>3 DEF workload, download, product, history, bounds, Types, Nearer, Downloading, Building,
       EditOwn
<1>4. ASSUME ReadList PROVE Nearer'
  <2>1. \A k \in 1..Len(todo') : list[todo'[k][1]] = todo'[k][2]
    BY <1>4, ToDoRead DEF Types
  <2>. QED  BY <1>4, <2>1 DEF workload, Nearer, Downloading, ReadList, Then
<1>5. ASSUME StartWget PROVE Nearer'
  <2>. SUFFICES ASSUME ~hit PROVE Nearer'
    BY <1>5 DEF Nearer, StartWget, history
  <2>1. File \in Files /\ Sum \in Versions /\ list[File] = Sum
    BY <1>5, NextFile DEF Types, Nearer, Downloading, StartWget, File, Sum
  <2>2. disk' \in Trees /\ disk'[File] = "part" /\ disk = [disk' EXCEPT ![File] = None]
    BY <1>5, <2>1 DEF Types, Trees, StartWget
  <2>3. Distance(disk, list) = Distance(disk', list) - 1
    BY <2>1, <2>2, RemovingHelps DEF Types
  <2>4. ~misled /\ Distance(disk, list) <= before /\ Distance(disk', list) \in Nat
    BY <1>5, DistanceSplit DEF Types, Nearer, Downloading, StartWget
  <2>. QED  BY <1>5, <2>3, <2>4 DEF workload, history, Types, Nearer, Downloading, StartWget, Then
<1>6. ASSUME FinishWget PROVE Nearer'
  <2>. SUFFICES ASSUME ~hit PROVE Nearer'
    BY <1>6 DEF Nearer, FinishWget
  <2>1. /\ File \in Files /\ Sum \in Versions /\ list[File] = Sum
        /\ disk[File] = "part" /\ todo # <<>> /\ ~misled
    BY <1>6, NextFile DEF Types, DownloadsSoFar, Nearer, Downloading, FinishWget, File, Sum
  <2>2. /\ Distance(disk, list) <= before + 1
        /\ Distance(disk, list) \in Nat /\ Distance(disk', list) \in Nat
    BY <1>6, DistanceSplit DEF Nearer, Downloading, FinishWget
  <2>3. PICK v \in Versions : disk' = [disk EXCEPT ![File] = v] /\ misled' = (misled \/ v # Sum)
    BY <1>6 DEF FinishWget
  <2>4. CASE v = Sum
    <3>. DEFINE e == [disk EXCEPT ![File] = None]
    <3>1. Distance(e, list) = Distance(disk, list) - 1
      BY <2>1, RemovingHelps DEF Types
    <3>2. e \in Trees /\ e[File] = None /\ disk' = [e EXCEPT ![File] = list[File]]
      BY <2>1, <2>3, <2>4 DEF Types, Trees
    <3>. HIDE DEF e
    <3>3. Distance(disk', list) = Distance(e, list) - 1 /\ Distance(e, list) \in Nat
      BY <2>1, <3>2, FetchingHelps, DistanceSplit DEF Types
    <3>. QED  BY <1>6, <2>1, <2>2, <2>3, <2>4, <3>1, <3>3
          DEF workload, Types, Nearer, Downloading, FinishWget, Then
  <2>5. CASE v # Sum
    <3>1. Distance(disk', list) = Distance(disk, list)
      BY <2>1, <2>3, <2>5, ReplacingKeeps DEF Types
    <3>2. disk'[File] \notin {None, Sum}
      BY <2>1, <2>3, <2>5 DEF Types, Trees
    <3>. QED  BY <1>6, <2>1, <2>2, <2>3, <2>5, <3>1, <3>2
          DEF workload, Types, Nearer, Downloading, FinishWget, Then, File, Sum
  <2>. QED  BY <2>4, <2>5
<1>7. ASSUME FailWget PROVE Nearer'
  BY <1>7 DEF workload, download, product, history, bounds, Types, Nearer, Downloading, Building,
       FailWget, File, Sum
<1>8. ASSUME Verify PROVE Nearer'
  BY <1>8 DEF workload, download, product, history, bounds, Types, Nearer, Downloading, Building,
       Verify, Then, File, Sum
<1>9. ASSUME Mismatch PROVE Nearer'
  BY <1>9 DEF workload, download, product, history, bounds, Types, Nearer, Downloading, Building,
       Mismatch, Ended, File, Sum
<1>10. ASSUME TouchSentinel PROVE Nearer'
  BY <1>10 DEF workload, download, product, history, bounds, Types, Nearer, Downloading, Building,
       TouchSentinel, Then
<1>11. ASSUME UpToDate PROVE Nearer'
  BY <1>11 DEF workload, download, product, history, bounds, Types, Nearer, Downloading, Building,
       UpToDate, Ended
<1>12. ASSUME Populate PROVE Nearer'
  BY <1>12 DEF workload, download, product, history, bounds, Types, Nearer, Downloading, Building,
       Populate, Then
<1>13. ASSUME ClearPackage PROVE Nearer'
  BY <1>13 DEF workload, download, product, history, bounds, Types, Nearer, Downloading, Building,
       ClearPackage, Then
<1>14. ASSUME RunBuild PROVE Nearer'
  BY <1>14 DEF workload, download, product, history, bounds, Types, Nearer, Downloading, Building,
       RunBuild, Then, Built
<1>15. ASSUME StartPack PROVE Nearer'
  BY <1>15 DEF workload, download, product, history, bounds, Types, Nearer, Downloading, Building,
       StartPack, Then
<1>16. ASSUME FinishPack PROVE Nearer'
  BY <1>16 DEF workload, download, product, history, bounds, Types, Nearer, Downloading, Building,
       FinishPack, Ended
<1>17. ASSUME TouchAm PROVE Nearer'
  BY <1>17 DEF workload, download, product, history, bounds, Types, Nearer, Downloading, Building,
       TouchAm, Ended
<1>18. ASSUME Mishap PROVE Nearer'
  BY <1>18 DEF workload, download, product, history, bounds, Types, Nearer, Downloading, Building,
       Mishap
<1>19. ASSUME Rest \/ UNCHANGED vars PROVE Nearer'
  BY <1>19 DEF workload, download, product, history, bounds, Types, Nearer, Downloading, Building,
       Rest, vars, File, Sum
<1>. QED  BY <1>1, <1>2, <1>3, <1>4, <1>5, <1>6, <1>7, <1>8, <1>9, <1>10, <1>11, <1>12, <1>13,
      <1>14, <1>15, <1>16, <1>17, <1>18, <1>19 DEF Next

\* The initial states.
LEMMA InitInvariant == Init => IInv /\ Nearer
<1>. SUFFICES ASSUME Init PROVE IInv /\ Nearer
  OBVIOUS
<1>1. Types
  <2>1. disk \in Trees
    BY DEF Init, Trees
  <2>2. <<>> \in Seq(Files \X Versions)
    OBVIOUS
  <2>. QED  BY <2>1, <2>2 DEF Init, Types
<1>2. DownloadsSoFar /\ BuiltSoFar /\ TargetCurrent /\ EndedWell /\ Nearer
  BY DEF Init, DownloadsSoFar, BuiltSoFar, TargetCurrent, Target, EndedWell, Nearer, Downloading,
       Building
<1>. QED  BY <1>1, <1>2 DEF IInv

LEMMA StepInvariant == IInv /\ Nearer /\ [Next]_vars => (IInv /\ Nearer)'
  BY TypesStep, DownloadsStep, BuiltStep, TargetStep, EndedStep, NearerStep DEF IInv

LEMMA Invariance == Spec => [](IInv /\ Nearer)
  BY InitInvariant, StepInvariant, PTL DEF Spec

\* A make that ends well leaves a product of the workload as it is, with every
\* listed file in its listed version, for any number of files, versions, edits
\* and accidents (download-files.sh, build-workload-linux.sh,
\* build-workload-am.sh).
THEOREM ProductIsOfTheWorkload == Spec => []ProductIsOfWorkload
<1>1. IInv => ProductIsOfWorkload
  BY DEF IInv, TargetCurrent, EndedWell, Owned, Listed, ProductIsOfWorkload
<1>. QED  BY <1>1, Invariance, PTL

\* A make that fails without an accident leaves no more to be done by the next,
\* and less if the links led to what is listed, for any number of files:
\* download-files.sh, called again, comes to its end when they do.
THEOREM EveryFailureRepairs == Spec => FailureRepairs
<1>1. ASSUME IInv, Nearer, Next, pc # "idle", pc' = "idle", exit' = "failed", ~hit'
      PROVE  IF misled' THEN Distance(disk', list) <= before ELSE Distance(disk', list) < before
  <2>1. Mismatch
    BY <1>1
         DEF IInv, Types, Next, Start, EditList, EditOwn, ReadList, StartWget, FinishWget, FailWget,
                Verify, TouchSentinel, UpToDate, Populate, ClearPackage, RunBuild, StartPack,
                FinishPack, TouchAm, Mishap, Rest, Then, Ended
  <2>2. /\ ~hit /\ misled' = misled
        /\ pc = "line" /\ todo # <<>> /\ disk[File] \notin {None, Sum} /\ disk' = [disk EXCEPT ![File] = None]
    BY <1>1, <2>1 DEF Mismatch, Ended
  <2>3. File \in Files /\ Sum \in Versions /\ list[File] = Sum
    BY <1>1, <2>2, NextFile DEF IInv, Types, Nearer, Downloading, File, Sum
  <2>4. Distance(disk', list) = Distance(disk, list) - 1
    BY <1>1, <2>2, <2>3, RemovingHelps, NoneAssumption DEF IInv, Types
  <2>5. Distance(disk, list) <= before + (IF misled THEN 1 ELSE 0) /\ Distance(disk, list) \in Nat
    BY <1>1, <2>2, DistanceSplit DEF IInv, Types, Nearer, Downloading
  <2>. QED  BY <1>1, <2>2, <2>4, <2>5 DEF IInv, Types
<1>. QED  BY <1>1, Invariance, PTL DEF Spec, FailureRepairs

================================================================================
