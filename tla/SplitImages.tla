------------------------------ MODULE SplitImages ------------------------------
(***************************************************************************)
(* The recipe by which spec2017-images exports one case: one image for     *)
(* each command of the benchmark.  The case is packaged once per command,  *)
(* below runs/, and variants.json lists the result.  A shell loop then     *)
(* makes a rootfs and an image of each, and copies both to the export      *)
(* tree.  The loop is the last command of a pipe, without set -e: its exit *)
(* status is that of its last command.  A multi-hart image needs its       *)
(* package rewritten first, in place, by package-multihart-rootfs.py.      *)
(***************************************************************************)
EXTENDS Naturals

CONSTANTS Last,        \* the variants of the case are 1..Last
          Settings,    \* the command lines
          Multihart,   \* those of them with MULTIHART=1
          Nothing,     \* there is no such file
          MaxRuns,     \* bound on the invocations
          MaxMishaps   \* bound on what fails, and kills

ASSUME LastAssumption == Last \in Nat \ {0}
ASSUME SettingsAssumption == Multihart \subseteq Settings /\ Nothing \notin Settings
ASSUME BoundsAssumption == MaxRuns \in Nat /\ MaxMishaps \in Nat

Variants == 1..Last

\* How far transform has come: some harts have their copy; all have and the
\* source is gone; the launcher is there; inittab starts it.
Trees == {"single", "copying", "copied", "launcher", "multihart"}

\* A rootfs and an image are of a package as it was then.
Package == [of : Settings, tree : Trees]
Product == [of : Settings, tree : Trees, whole : BOOLEAN]

ASSUME NothingAssumption == Nothing \notin Package \cup Product

VARIABLES
    pc,          \* where the recipe is
    setting,     \* its command line
    at,          \* the variant it is at
    package, rootfs, image,   \* below runs/, for each variant
    list,        \* what variants.json was written for
    exported,    \* the images in the export tree
    stamped,     \* stamps/<case>.images.stamp is there
    spoilt,      \* the variants one of whose steps has failed in this run
    runs, mishaps

vars == <<pc, setting, at, package, rootfs, image, list, exported, stamped, spoilt,
          runs, mishaps>>

products == <<package, rootfs, image>>

None == [i \in Variants |-> Nothing]

Init ==
    /\ pc = "over" /\ setting \in Settings /\ at = 1
    /\ package = None /\ rootfs = None /\ image = None
    /\ list = Nothing
    /\ exported = None
    /\ stamped = FALSE
    /\ spoilt = {}
    /\ runs = 0 /\ mishaps = 0

\* The export tree is removed, its stamps included.
Start(s) ==
    /\ pc = "over"
    /\ runs < MaxRuns
    /\ runs' = runs + 1
    /\ setting' = s
    /\ pc' = "clear"
    /\ exported' = None
    /\ stamped' = FALSE
    /\ spoilt' = {}
    /\ UNCHANGED <<at, products, list, mishaps>>

-----------------------------------------------------------------------------
(* package_case *)

\* Mutant: what an earlier run has left is kept.
ClearNot ==
    /\ pc = "clear"
    /\ pc' = "package" /\ at' = 1
    /\ UNCHANGED <<setting, products, list, exported, stamped, spoilt, runs, mishaps>>

\* rmtree of runs/.
Clear ==
    /\ pc = "clear"
    /\ package' = None /\ rootfs' = None /\ image' = None
    /\ pc' = "package" /\ at' = 1
    /\ UNCHANGED <<setting, list, exported, stamped, spoilt, runs, mishaps>>

PackageVariant ==
    /\ pc = "package"
    /\ package' = [package EXCEPT ![at] = [of |-> setting, tree |-> "single"]]
    /\ IF at = Last THEN pc' = "list" /\ at' = 1
                    ELSE pc' = pc /\ at' = at + 1
    /\ UNCHANGED <<setting, rootfs, image, list, exported, stamped, spoilt, runs, mishaps>>

WriteList ==
    /\ pc = "list"
    /\ list' = setting
    /\ pc' = "transform"
    /\ UNCHANGED <<setting, at, products, exported, stamped, spoilt, runs, mishaps>>

-----------------------------------------------------------------------------
(* The loop.  Whatever fails in it, the next command is run. *)

Goto(step) ==
    /\ pc' = step
    /\ UNCHANGED <<setting, at, list, stamped, runs>>

Well == UNCHANGED <<spoilt, mishaps>>

Badly ==
    /\ mishaps < MaxMishaps
    /\ mishaps' = mishaps + 1
    /\ spoilt' = spoilt \cup {at}

\* transform removes what earlier attempts have left.
Transform ==
    /\ pc = "transform"
    /\ package' = IF setting \in Multihart
                  THEN [package EXCEPT ![at].tree = "multihart"] ELSE package
    /\ UNCHANGED <<rootfs, image, exported>>
    /\ Well
    /\ Goto("pack")

\* It stops on the way.
FailTransform ==
    /\ pc = "transform"
    /\ setting \in Multihart
    /\ \E t \in Trees \ {"multihart"} : package' = [package EXCEPT ![at].tree = t]
    /\ UNCHANGED <<rootfs, image, exported>>
    /\ Badly
    /\ Goto("pack")

Of(p, whole) == [of |-> p.of, tree |-> p.tree, whole |-> whole]

Pack ==
    /\ pc = "pack"
    /\ rootfs' = [rootfs EXCEPT ![at] = Of(package[at], TRUE)]
    /\ UNCHANGED <<package, image, exported>>
    /\ Well
    /\ Goto("assemble")

\* rm -f, and then there is a part of the archive, or none.
FailPack ==
    /\ pc = "pack"
    /\ \E r \in {Nothing, Of(package[at], FALSE)} : rootfs' = [rootfs EXCEPT ![at] = r]
    /\ UNCHANGED <<package, image, exported>>
    /\ Badly
    /\ Goto("assemble")

Assemble ==
    /\ pc = "assemble"
    /\ rootfs[at] # Nothing
    /\ image' = [image EXCEPT ![at] = rootfs[at]]
    /\ UNCHANGED <<package, rootfs, exported>>
    /\ Well
    /\ Goto("export")

\* There is no archive, a check refuses it, or dd fails.
FailAssemble ==
    /\ pc = "assemble"
    /\ UNCHANGED <<package, rootfs, exported>>
    /\ \/ /\ rootfs[at] = Nothing
          /\ UNCHANGED image /\ Well
       \/ /\ rootfs[at] # Nothing
          /\ \/ UNCHANGED image
             \/ image' = [image EXCEPT ![at] = [rootfs[at] EXCEPT !.whole = FALSE]]
          /\ Badly
    /\ Goto("export")

\* Mutant: the loop stops at the first variant.
AfterExportFirst(ok) ==
    /\ pc' = IF ok THEN "stamp" ELSE "over"
    /\ at' = 1

\* The status of the last export is that of the loop.
AfterExport(ok) ==
    IF at < Last THEN pc' = "transform" /\ at' = at + 1
    ELSE pc' = (IF ok THEN "stamp" ELSE "over") /\ at' = 1

\* export-linux-debug-artifacts.sh looks for the image, the rootfs and the
\* command before it copies anything.  The command is spec/run.sh, or else
\* the launcher.
Exportable ==
    /\ image[at] # Nothing
    /\ rootfs[at] # Nothing
    /\ package[at].tree # "copied"

Export ==
    /\ pc = "export"
    /\ Exportable
    /\ exported' = [exported EXCEPT ![at] = image[at]]
    /\ Well
    /\ AfterExport(TRUE)
    /\ UNCHANGED <<setting, products, list, stamped, runs>>

\* Something is missing, or cp fails.
FailExport ==
    /\ pc = "export"
    /\ \/ ~Exportable /\ UNCHANGED exported /\ Well
       \/ /\ Exportable
          /\ exported' = [exported EXCEPT ![at] = [image[at] EXCEPT !.whole = FALSE]]
          /\ Badly
    /\ AfterExport(FALSE)
    /\ UNCHANGED <<setting, products, list, stamped, runs>>

Stamp ==
    /\ pc = "stamp"
    /\ stamped' = TRUE
    /\ pc' = "over"
    /\ UNCHANGED <<setting, at, products, list, exported, spoilt, runs, mishaps>>

\* The left side of the pipe fails, and the loop has nothing to do.
FailList ==
    /\ pc = "transform" /\ at = 1
    /\ mishaps < MaxMishaps
    /\ mishaps' = mishaps + 1
    /\ spoilt' = Variants
    /\ pc' = "stamp"
    /\ UNCHANGED <<setting, at, products, list, exported, stamped, runs>>

\* build.sh fails, or make is killed.
Abort ==
    /\ pc # "over"
    /\ mishaps < MaxMishaps
    /\ mishaps' = mishaps + 1
    /\ pc' = "over"
    /\ UNCHANGED <<setting, at, products, list, exported, stamped, spoilt, runs>>

Stop == pc = "over" /\ runs = MaxRuns /\ UNCHANGED vars

Next ==
    \/ \E s \in Settings : Start(s)
    \/ Clear \/ PackageVariant \/ WriteList
    \/ Transform \/ FailTransform
    \/ Pack \/ FailPack
    \/ Assemble \/ FailAssemble
    \/ Export \/ FailExport
    \/ Stamp \/ FailList \/ Abort \/ Stop

Spec == Init /\ [][Next]_vars

-----------------------------------------------------------------------------
(* Properties *)

\* No image of an earlier command line gets into the export tree, although a
\* failed assembly is followed by an export of whatever image is there.
ExportIsOfThisRun ==
    \A i \in Variants : exported[i] # Nothing => exported[i].of = setting

Good(i) ==
    exported[i] = [of |-> setting, whole |-> TRUE,
                   tree |-> IF setting \in Multihart THEN "multihart" ELSE "single"]

\* Once there is a stamp, every variant none of whose steps failed has been
\* exported whole, in the form the command line asks for: what fails for one
\* does not reach another.  And the last one is there, unless there was no
\* list.
StampMeansExported ==
    stamped =>
        /\ \A i \in Variants \ spoilt : Good(i)
        /\ spoilt # Variants => exported[Last] # Nothing

=============================================================================
