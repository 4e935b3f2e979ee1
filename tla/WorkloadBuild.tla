----------------------------- MODULE WorkloadBuild -----------------------------
(***************************************************************************)
(* How the Makefile builds a workload that is not SPEC: download what its  *)
(* links.txt lists, copy that and the workload's own files to a source     *)
(* directory, run its build.sh, and pack what that installed (Linux), or   *)
(* keep it as it is (AM).  The workload may be edited at any time, and     *)
(* every step may fail or be killed; make is then called again.            *)
(*                                                                         *)
(* Make compares times: listNewer and stale say that something was written *)
(* after the sentinel of the downloads, or after the target.               *)
(***************************************************************************)
EXTENDS Naturals, Sequences, FiniteSets, SequencesExt

CONSTANTS Kinds,      \* "linux" and "am"
          Files,      \* names that may occur in links.txt
          Versions,   \* what a link may lead to, told by its checksum
          Archs,      \* ARCH and CPPFLAGS of an AM workload
          None,
          MaxMakes,   \* bound on the makes
          MaxEdits,   \* bound on the edits of the workload
          MaxMishaps  \* bound on what fails, and kills

ASSUME KindsAssumption == Kinds \subseteq {"linux", "am"}
ASSUME FilesAssumption == IsFiniteSet(Files)
ASSUME BoundsAssumption == MaxMakes \in Nat /\ MaxEdits \in Nat /\ MaxMishaps \in Nat

\* links.txt: the version that is listed of each file, if it is listed.
Lists == [Files -> Versions \cup {None}]

\* A file that is there may have been cut.
Trees == [Files -> Versions \cup {None, "part"}]
Sources == [own : Nat, files : Trees]
Packages == [own : Nat, files : Trees, arch : Archs \cup {None}, whole : BOOLEAN]

\* None is neither a version nor a tree, and no checksum is that of a cut file.
ASSUME NoneAssumption == None \notin Versions \cup Sources \cup Packages /\ "part" \notin Versions \cup {None}

\* What build.sh makes of a source directory; and what is left when it is cut.
Built(src, a) == [own |-> src.own, files |-> src.files, arch |-> a, whole |-> TRUE]
Part == [own |-> 0, files |-> [f \in Files |-> None], arch |-> None, whole |-> FALSE]

VARIABLES
    kind, list, own,    \* the workload: its links.txt, and its other files
    pc, arch,           \* the line of this make, and what it is called with
    todo,               \* lines of links.txt that are left
    disk, sentinel,     \* download/: the files, and whether it has a sentinel
    listNewer,          \* links.txt is newer than that sentinel
    source, package,    \* source/ and package/
    cpio, amSentinel,   \* rootfs.cpio, or the sentinel of an AM workload
    stale,              \* a prerequisite is newer than the target
    exit,               \* how the last make ended
    ran,                \* it ran the recipe of the target
    hit, before,        \* an accident in it; how far it began from its downloads
    misled,             \* a link led it to something that is not what is listed
    missed, cut,        \* edits after what a make reads; an archive that was cut
    makes, edits, mishaps

workload == <<kind, list, own>>
download == <<todo, disk, sentinel, listNewer>>
product == <<source, package, cpio, amSentinel, stale>>
history == <<ran, hit, before, misled, missed, cut>>
bounds == <<makes, edits, mishaps>>
vars == <<workload, pc, arch, download, product, exit, history, bounds>>

\* What the downloads lack: a file is fetched in one make, and one with the
\* wrong checksum removed in the make before.
Distance(d, l) ==
    LET lacking == {f \in Files : l[f] \notin {None, d[f]}}
    IN  Cardinality(lacking) + Cardinality({f \in lacking : d[f] # None})

Init ==
    /\ kind \in Kinds /\ list \in Lists /\ own = 0
    /\ pc = "idle" /\ arch \in Archs
    /\ todo = <<>> /\ disk = [f \in Files |-> None] /\ sentinel = FALSE /\ listNewer = FALSE
    /\ source = None /\ package = None /\ cpio = None /\ amSentinel = FALSE /\ stale = FALSE
    /\ exit = "none" /\ ran = FALSE /\ hit = FALSE /\ before = 0 /\ misled = FALSE
    /\ missed = {} /\ cut = FALSE
    /\ makes = 0 /\ edits = 0 /\ mishaps = 0

Then(line) == pc' = line /\ UNCHANGED <<workload, arch, bounds>>

Ended(how) == pc' = "idle" /\ exit' = how /\ UNCHANGED <<workload, arch, hit, before, misled, bounds>>

-----------------------------------------------------------------------------
(* make, and the files it looks at *)

Target == IF kind = "linux" THEN cpio # None ELSE amSentinel

Start(a) ==
    /\ pc = "idle" /\ makes < MaxMakes
    /\ makes' = makes + 1
    /\ arch' = a
    /\ pc' = IF ~sentinel \/ listNewer THEN "list" ELSE "target"
    /\ exit' = "none" /\ ran' = FALSE /\ hit' = FALSE
    /\ before' = Distance(disk, list) /\ misled' = FALSE
    /\ UNCHANGED <<workload, download, product, missed, cut, edits, mishaps>>

\* The list is among the files that the target depends on.
EditList(l) ==
    /\ edits < MaxEdits /\ edits' = edits + 1
    /\ l # list /\ list' = l
    /\ listNewer' = TRUE /\ stale' = TRUE
    /\ missed' = IF pc = "idle" THEN missed ELSE missed \cup {"list"}
    /\ exit' = "none" /\ hit' = TRUE
    /\ UNCHANGED <<kind, own, pc, arch, todo, disk, sentinel, source, package, cpio, amSentinel,
                   ran, before, misled, cut, makes, mishaps>>

EditOwn ==
    /\ edits < MaxEdits /\ edits' = edits + 1
    /\ own' = own + 1
    /\ stale' = TRUE
    /\ missed' = IF pc = "idle" THEN missed ELSE missed \cup {"own"}
    /\ exit' = "none" /\ hit' = TRUE
    /\ UNCHANGED <<kind, list, pc, arch, download, source, package, cpio, amSentinel,
                   ran, before, misled, cut, makes, mishaps>>

-----------------------------------------------------------------------------
(* download-files.sh *)

\* cat reads the list as it is now.
ReadList ==
    /\ pc = "list"
    /\ todo' = SetToSeq({<<f, list[f]>> : f \in {g \in Files : list[g] # None}})
    /\ missed' = missed \ {"list"}
    /\ Then("line")
    /\ UNCHANGED <<disk, sentinel, listNewer, product, exit, ran, hit, before, misled, cut>>

File == todo[1][1]
Sum == todo[1][2]

StartWget ==
    /\ pc = "line" /\ todo # <<>>
    /\ disk[File] = None
    /\ disk' = [disk EXCEPT ![File] = "part"]
    /\ Then("wget")
    /\ UNCHANGED <<todo, sentinel, listNewer, product, exit, history>>

\* External: wget, which succeeds with whatever the link leads to by now.
FinishWget ==
    /\ pc = "wget"
    /\ \E v \in Versions :
         /\ disk' = [disk EXCEPT ![File] = v]
         /\ misled' = (misled \/ v # Sum)
    /\ Then("line")
    /\ UNCHANGED <<todo, sentinel, listNewer, product, exit, ran, hit, before, missed, cut>>

\* The loop is the last command of a pipe: its exit ends the script, too.
FailWget ==
    /\ pc = "wget"
    /\ mishaps < MaxMishaps /\ mishaps' = mishaps + 1
    /\ disk' = [disk EXCEPT ![File] = None]
    /\ pc' = "idle" /\ exit' = "failed" /\ hit' = TRUE
    /\ UNCHANGED <<workload, arch, todo, sentinel, listNewer, product, ran, before, misled, missed, cut, makes, edits>>

Verify ==
    /\ pc = "line" /\ todo # <<>>
    /\ disk[File] = Sum
    /\ todo' = Tail(todo)
    /\ Then("line")
    /\ UNCHANGED <<disk, sentinel, listNewer, product, exit, history>>

\* Mutant: the file with the wrong checksum stays.
MismatchKept ==
    /\ pc = "line" /\ todo # <<>>
    /\ disk[File] \notin {None, Sum}
    /\ Ended("failed")
    /\ UNCHANGED <<download, product, ran, missed, cut>>

\* Mutant: the loop goes on after a wrong file.
MismatchSkipped ==
    /\ pc = "line" /\ todo # <<>>
    /\ disk[File] \notin {None, Sum}
    /\ disk' = [disk EXCEPT ![File] = None]
    /\ todo' = Tail(todo)
    /\ Then("line")
    /\ UNCHANGED <<sentinel, listNewer, product, exit, history>>

Mismatch ==
    /\ pc = "line" /\ todo # <<>>
    /\ disk[File] \notin {None, Sum}
    /\ disk' = [disk EXCEPT ![File] = None]
    /\ Ended("failed")
    /\ UNCHANGED <<todo, sentinel, listNewer, product, ran, missed, cut>>

TouchSentinel ==
    /\ pc = "line" /\ todo = <<>>
    /\ sentinel' = TRUE /\ listNewer' = FALSE /\ stale' = TRUE
    /\ Then("target")
    /\ UNCHANGED <<todo, disk, source, package, cpio, amSentinel, exit, history>>

-----------------------------------------------------------------------------
(* build-workload-linux.sh, build-workload-am.sh *)

UpToDate ==
    /\ pc = "target"
    /\ Target /\ ~stale
    /\ Ended("ok")
    /\ UNCHANGED <<download, product, ran, missed, cut>>

\* Whatever is in download/ is copied, listed or not.
Populate ==
    /\ pc = "target"
    /\ ~(Target /\ ~stale)
    /\ source' = [own |-> own, files |-> disk]
    /\ ran' = TRUE /\ missed' = missed \ {"own"}
    /\ Then("clear")
    /\ UNCHANGED <<download, package, cpio, amSentinel, stale, exit, hit, before, misled, cut>>

ClearPackage ==
    /\ pc = "clear"
    /\ package' = None
    /\ Then("build")
    /\ UNCHANGED <<download, source, cpio, amSentinel, stale, exit, history>>

\* build.sh of the workload, and the rewriting of what it installed for several
\* harts (SplitImages!Transform); both may also fail (Mishap).
RunBuild ==
    /\ pc = "build"
    /\ package' = Built(source, arch)
    /\ Then("pack")
    /\ UNCHANGED <<download, source, cpio, amSentinel, stale, exit, history>>

StartPack ==
    /\ pc = "pack" /\ kind = "linux"
    /\ cpio' = Part /\ cut' = FALSE
    /\ Then("packing")
    /\ UNCHANGED <<download, source, package, amSentinel, stale, exit, ran, hit, before, misled, missed>>

FinishPack ==
    /\ pc = "packing"
    /\ cpio' = package /\ stale' = FALSE
    /\ Ended("ok")
    /\ UNCHANGED <<download, source, package, amSentinel, ran, missed, cut>>

TouchAm ==
    /\ pc = "pack" /\ kind = "am"
    /\ amSentinel' = TRUE /\ stale' = FALSE
    /\ Ended("ok")
    /\ UNCHANGED <<download, source, package, cpio, ran, missed, cut>>

\* A step fails or is killed.  What it was writing stays, half written: a
\* download, a package, or the archive, which make then takes for new.
Mishap ==
    /\ pc # "idle"
    /\ mishaps < MaxMishaps /\ mishaps' = mishaps + 1
    /\ package' = IF pc = "build" THEN Part ELSE package
    /\ cut' = (cut \/ pc = "packing")
    /\ stale' = (stale /\ pc # "packing")
    /\ pc' = "idle" /\ exit' = "failed" /\ hit' = TRUE
    /\ UNCHANGED <<workload, arch, download, source, cpio, amSentinel, ran, before, misled, missed, makes, edits>>

Rest == pc = "idle" /\ makes = MaxMakes /\ edits = MaxEdits /\ UNCHANGED vars

Next ==
    \/ \E a \in Archs : Start(a)
    \/ \E l \in Lists : EditList(l)
    \/ EditOwn
    \/ ReadList \/ StartWget \/ FinishWget \/ FailWget \/ Verify \/ Mismatch \/ TouchSentinel
    \/ UpToDate \/ Populate \/ ClearPackage \/ RunBuild \/ StartPack \/ FinishPack \/ TouchAm
    \/ Mishap \/ Rest

Spec == Init /\ [][Next]_vars

-----------------------------------------------------------------------------
Product == IF kind = "linux" THEN cpio ELSE package

\* A make that ends well leaves a product made of the workload as it is, and of
\* every listed file in the version whose checksum is listed, whatever was
\* downloaded or built before and wherever earlier makes were stopped
\* (Makefile, add_workload_linux and add_workload_am; both scripts).  It may
\* have missed an edit made while make ran, and an archive that was cut counts
\* as new.  A make that ran the recipe of an AM workload built it for its ARCH.
ProductIsOfWorkload ==
    exit = "ok" =>
        cut \/ /\ Product # None /\ Product.whole
               /\ "own" \in missed \/ Product.own = own
               /\ "list" \in missed \/ \A f \in Files : list[f] \in {None, Product.files[f]}
               /\ ran => Product.arch = arch

\* A make that fails, with no accident in it, fails over a file that is not what
\* links.txt says, and removes it: it is never farther from one that succeeds
\* than when it began, and nearer if every link it followed led to the file
\* that is listed.  So calling make again, once for each such step, ends well
\* as soon as the links lead where they should; till then every make stops at
\* the wrong file and leaves no less than before (download-files.sh:19-32).
FailureRepairs ==
    [][pc # "idle" /\ pc' = "idle" /\ exit' = "failed" /\ ~hit' =>
          IF misled' THEN Distance(disk', list) <= before
                     ELSE Distance(disk', list) < before]_vars

===============================================================================
