------------------------------ MODULE BenchBuild ------------------------------
(***************************************************************************)
(* The directory _bench-builds/<benchmark>/<tune> of the SPEC packagers.   *)
(* runcpu builds a benchmark there; what it has built is used again by the *)
(* next recipe whose metadata is the same.  spec2006 and spec2017 share    *)
(* the directory between the cases of a benchmark, without a lock, and     *)
(* clear it for every build.  spec2026 has one for each case, and resumes  *)
(* a build that has not ended: build-state.json says for what it was.      *)
(* Its cases here are the input sets, one after another, that one such     *)
(* directory is set up for.                                                *)
(***************************************************************************)
EXTENDS Naturals

CONSTANTS Resuming,    \* FALSE for spec2006 and spec2017, TRUE for spec2026
          Cases,       \* the input sets of one benchmark; one recipe each
          Keys,        \* metadata, and with it the configuration it names
          Torn,        \* what a file holds that was being written when it was cut
          Nothing,     \* there is no such file
          MaxMakes,    \* bound on the invocations of make
          MaxMishaps   \* bound on what fails, and kills

ASSUME ResumingAssumption == Resuming \subseteq BOOLEAN /\ Resuming # {}
ASSUME BoundsAssumption == MaxMakes \in Nat /\ MaxMishaps \in Nat

\* An executable: the configuration it was built with; is it all there?
Elf == [of : Keys \cup {Torn}, whole : BOOLEAN]
Json == Keys \cup {Torn, Nothing}

\* A run directory: has runcpu made it in its last run, or found it there?
RunDir == [input : Cases, elf : Elf, touched : BOOLEAN]

ASSUME NamesAssumption ==
    Torn \notin Keys \cup {Nothing} /\ Nothing \notin Keys \cup Cases \cup Elf \cup RunDir

VARIABLES
    resumes,        \* the suite is spec2026
    running, key,   \* is make running, and for what
    pc,             \* where each case's package_case is
    exe,            \* below runcpu-output
    cfg,            \* what the generated configuration was copied from
    meta, state,    \* build-meta.json and build-state.json
    runs, newest,   \* spec2026: the run directory of each case; the newest one's case
    elf, package,   \* of each case: elf/<case>.elf, and the run directory it has packaged
    how,            \* how each case came by its ELF
    joined,         \* the cases that were at it while another one was building
    cut,            \* what has happened to the directory since it was cleared
    makes, mishaps

vars == <<resumes, running, key, pc, exe, cfg, meta, state, runs, newest, elf, package, how, joined,
          cut, makes, mishaps>>

dirs == <<runs, newest>>
results == <<dirs, elf, package>>
json == <<meta, state>>
counters == <<makes, mishaps>>
history == <<joined, cut>>

Init ==
    /\ resumes \in Resuming
    /\ running = FALSE /\ key \in Keys
    /\ pc = [p \in Cases |-> "waiting"]
    /\ exe = Nothing /\ cfg = Nothing
    /\ meta = Nothing /\ state = Nothing
    /\ runs = [p \in Cases |-> Nothing] /\ newest = Nothing
    /\ elf = [p \in Cases |-> Nothing] /\ package = [p \in Cases |-> Nothing]
    /\ how = [p \in Cases |-> "none"]
    /\ joined = {} /\ cut = {}
    /\ makes = 0 /\ mishaps = 0

-----------------------------------------------------------------------------
(* make, and who else is at the directory *)

Over == {"waiting", "done", "packaged", "failed"}
Building == {"clear", "clearConfig", "config", "state", "runcpu", "installing", "select", "meta"}

Others(p, steps) == {q \in Cases \ {p} : pc[q] \in steps}
Someone(steps) == \E q \in Cases : pc[q] \in steps

At(p, step) == running /\ pc[p] = step

Goto(p, step) ==
    /\ pc' = [pc EXCEPT ![p] = step]
    /\ UNCHANGED <<resumes, running, key>>

\* One command line for all the cases.
Start(k) ==
    /\ ~running
    /\ makes < MaxMakes
    /\ running' = TRUE /\ key' = k /\ makes' = makes + 1
    /\ pc' = [p \in Cases |-> "waiting"]
    /\ how' = [p \in Cases |-> "none"]
    /\ joined' = {}
    /\ UNCHANGED <<resumes, exe, cfg, json, results, cut, mishaps>>

\* Which cases are goals, and which run at a time, is up to the command line.
Begin(p) ==
    /\ At(p, "waiting")
    /\ resumes => \A q \in Cases \ {p} : pc[q] \in Over
    /\ IF Others(p, Building) = {} THEN UNCHANGED history
       ELSE joined' = joined \cup {p} \cup Others(p, Building) /\ cut' = cut \cup {"shared"}
    /\ Goto(p, "check")
    /\ UNCHANGED <<exe, cfg, json, results, how, counters>>

Finish ==
    /\ running
    /\ \A p \in Cases : pc[p] \in Over
    /\ running' = FALSE
    /\ UNCHANGED <<resumes, key, pc, exe, cfg, json, results, how, history, counters>>

Fail(p) == Goto(p, "failed") /\ UNCHANGED <<json, cfg, how, joined, makes>>

Mishap == mishaps < MaxMishaps /\ mishaps' = mishaps + 1

-----------------------------------------------------------------------------
(* build_elf: what is there *)

Unread(file) == file \in {Torn, Nothing}

\* Mutant: any metadata will do.
ReusableAny == meta # Nothing /\ exe # Nothing

\* The metadata is the same, and there is an executable.
Reusable == meta = key /\ exe # Nothing

\* There is no metadata, but a build for this key has left an executable.
Recoverable == resumes /\ Unread(meta) /\ state = key /\ exe # Nothing

\* Something of a build that has not ended is left: for whatever it was.
\* (When the log is, and there is no metadata, the configuration is too.)
Resumable == resumes /\ Unread(meta) /\ (state = key \/ exe # Nothing \/ cfg # Nothing)

Chosen(p, way, step) ==
    /\ how' = [how EXCEPT ![p] = way]
    /\ Goto(p, step)
    /\ UNCHANGED <<exe, json, results, joined, counters>>

\* spec2026 writes the configuration if it is missing.
Completed == cfg' = IF resumes /\ cfg = Nothing THEN key ELSE cfg

Reuse(p) ==
    /\ At(p, "check")
    /\ Reusable
    /\ Completed
    /\ UNCHANGED cut
    /\ Chosen(p, "reused", "export")

Recover(p) ==
    /\ At(p, "check")
    /\ ~Reusable /\ Recoverable
    /\ Completed
    /\ UNCHANGED cut
    /\ Chosen(p, "recovered", "meta")

Resume(p) ==
    /\ At(p, "check")
    /\ ~Reusable /\ ~Recoverable /\ Resumable
    /\ UNCHANGED cfg
    /\ cut' = IF cfg \in {key, Nothing} THEN cut ELSE cut \cup {"foreign"}
    /\ Chosen(p, "resumed", "config")

Rebuild(p) ==
    /\ At(p, "check")
    /\ ~Reusable /\ ~Recoverable /\ ~Resumable
    /\ UNCHANGED <<cfg, cut>>
    /\ Chosen(p, "built", "clear")

-----------------------------------------------------------------------------
(* build_elf: the build *)

\* rmtree of runcpu-output: the metadata stays.
ClearOutput(p) ==
    /\ At(p, "clear")
    /\ exe' = Nothing
    /\ runs' = [q \in Cases |-> Nothing] /\ newest' = Nothing
    /\ LET others == Others(p, Building \cup {"check", "export", "exported"})
       IN  IF others = {} THEN cut' = {} /\ UNCHANGED joined
           ELSE cut' = {"shared"} /\ joined' = joined \cup {p} \cup others
    /\ Goto(p, "clearConfig")
    /\ UNCHANGED <<cfg, json, elf, package, how, counters>>

ClearConfig(p) ==
    /\ At(p, "clearConfig")
    /\ cfg' = Nothing
    /\ Goto(p, "config")
    /\ UNCHANGED <<exe, json, results, how, history, counters>>

\* Mutant: it is written when a build is resumed too.
WriteConfigAlways(p) ==
    /\ At(p, "config")
    /\ cfg' = key
    /\ Goto(p, IF resumes THEN "state" ELSE "runcpu")
    /\ UNCHANGED <<exe, json, results, how, history, counters>>

\* A configuration that is there when spec2026 resumes is kept.
WriteConfig(p) ==
    /\ At(p, "config")
    /\ cfg' = IF resumes /\ cfg # Nothing THEN cfg ELSE key
    /\ Goto(p, IF resumes THEN "state" ELSE "runcpu")
    /\ UNCHANGED <<exe, json, results, how, history, counters>>

WriteState(p) ==
    /\ At(p, "state")
    /\ state' = key
    /\ Goto(p, "runcpu")
    /\ UNCHANGED <<exe, cfg, meta, results, how, history, counters>>

\* runcpu builds elsewhere below output_root and then copies the executable.
Install(p) ==
    /\ At(p, "runcpu")
    /\ cfg # Nothing
    /\ exe' = [of |-> cfg, whole |-> FALSE]
    /\ Goto(p, "installing")
    /\ UNCHANGED <<cfg, json, results, how, history, counters>>

Installed(p) ==
    /\ At(p, "installing")
    /\ exe' = IF exe = Nothing THEN Nothing ELSE [exe EXCEPT !.whole = TRUE]
    /\ Goto(p, "select")
    /\ UNCHANGED <<cfg, json, results, how, history, counters>>

FailRuncpu(p) ==
    /\ \/ At(p, "runcpu") /\ UNCHANGED cut
       \/ At(p, "installing") /\ cut' = cut \cup {"installing"}
    /\ Mishap
    /\ Fail(p)
    /\ UNCHANGED <<exe, results>>

\* Another case has removed the configuration, or what runcpu has built.
FailMissing(p) ==
    /\ \/ At(p, "runcpu") /\ cfg = Nothing
       \/ pc[p] \in {"select", "export"} /\ running /\ exe = Nothing
    /\ Fail(p)
    /\ UNCHANGED <<exe, results, cut, mishaps>>

Select(p) ==
    /\ At(p, "select")
    /\ exe # Nothing
    /\ Goto(p, "meta")
    /\ UNCHANGED <<exe, cfg, json, results, how, history, counters>>

\* The metadata is written, and the state of the build removed.
WriteMeta(p) ==
    /\ At(p, "meta")
    /\ meta' = key
    /\ state' = Nothing
    /\ cut' = IF p \in joined THEN cut
              ELSE cut \ ({"metadata"} \cup IF how[p] = "recovered" THEN {} ELSE {"installing"})
    /\ Goto(p, "export")
    /\ UNCHANGED <<exe, cfg, results, how, joined, counters>>

-----------------------------------------------------------------------------
(* package_case *)

\* export_elf_artifact
Export(p) ==
    /\ At(p, "export")
    /\ exe # Nothing
    /\ elf' = [elf EXCEPT ![p] = exe]
    /\ Goto(p, "exported")
    /\ UNCHANGED <<exe, cfg, json, dirs, package, how, history, counters>>

\* Only the ELF was asked for.
EndElf(p) ==
    /\ At(p, "exported")
    /\ Goto(p, "done")
    /\ UNCHANGED <<exe, cfg, json, results, how, history, counters>>

Dir(p, copied, touched) == [input |-> p, elf |-> copied, touched |-> touched]

\* runcpu runsetup makes a directory for this input set, or uses the one that
\* is there again, with or without a change to the directory itself.
Prepare(p, copied) ==
    \/ runs' = [runs EXCEPT ![p] = Dir(p, copied, TRUE)] /\ newest' = p
    \/ /\ runs[p] # Nothing
       /\ runs' = [runs EXCEPT ![p] = Dir(p, copied, FALSE)] /\ UNCHANGED newest

\* Mutant: not the newest directory, if there is another.
SelectOlder(p, copied, made, latest) ==
    LET older == {q \in Cases \ {latest} : made[q] # Nothing}
    IN  IF ~resumes THEN Dir(p, copied, TRUE)
        ELSE IF older = {} THEN made[latest] ELSE made[CHOOSE q \in older : TRUE]

\* spec2026 takes the newest directory of any input set, spec2017 that of this
\* one by name.
SelectRunDir(p, copied, made, latest) ==
    IF resumes THEN made[latest] ELSE Dir(p, copied, TRUE)

\* runcpu runsetup copies the executable into the run directory; it builds
\* one that does not have its checksum again.  The package is removed before
\* it is filled.
Setup(p) ==
    /\ At(p, "exported")
    /\ exe # Nothing
    /\ exe' \in {exe} \cup (IF exe.whole \/ cfg = Nothing THEN {}
                            ELSE {[of |-> cfg, whole |-> TRUE]})
    /\ IF resumes THEN Prepare(p, exe') ELSE UNCHANGED dirs
    /\ package' = [package EXCEPT ![p] = SelectRunDir(p, exe', runs', newest')]
    /\ Goto(p, "packaged")
    /\ UNCHANGED <<cfg, json, elf, how, history, counters>>

FailSetup(p) ==
    /\ At(p, "exported")
    /\ Mishap
    /\ package' \in {package, [package EXCEPT ![p] = Nothing]}
    /\ UNCHANGED dirs \/ (resumes /\ exe # Nothing /\ Prepare(p, exe))
    /\ Fail(p)
    /\ UNCHANGED <<exe, elf, cut>>

\* make is killed, and all it has started.  A file that was being written
\* may be torn.
Kill ==
    /\ running
    /\ \E p \in Cases : pc[p] \notin Over
    /\ Mishap
    /\ running' = FALSE
    /\ pc' = [p \in Cases |-> IF pc[p] \in Over THEN pc[p] ELSE "failed"]
    /\ cfg' \in {cfg} \cup (IF Someone({"config"}) /\ cfg = Nothing THEN {Torn} ELSE {})
    /\ meta' \in {meta} \cup (IF Someone({"meta"}) THEN {Torn, key} ELSE {})
    /\ state' \in {state} \cup (IF Someone({"state"}) THEN {Torn} ELSE {})
    /\ cut' = cut \cup (IF Someone({"installing"}) THEN {"installing"} ELSE {})
                  \cup (IF Someone({"select", "meta"}) THEN {"metadata"} ELSE {})
    /\ UNCHANGED <<resumes, key, exe, results, how, joined, makes>>

Stop == ~running /\ makes = MaxMakes /\ UNCHANGED vars

Next ==
    \/ \E k \in Keys : Start(k)
    \/ \E p \in Cases :
           \/ Begin(p)
           \/ Reuse(p) \/ Recover(p) \/ Resume(p) \/ Rebuild(p)
           \/ ClearOutput(p) \/ ClearConfig(p) \/ WriteConfig(p) \/ WriteState(p)
           \/ Install(p) \/ Installed(p) \/ FailRuncpu(p) \/ FailMissing(p)
           \/ Select(p) \/ WriteMeta(p)
           \/ Export(p) \/ EndElf(p) \/ Setup(p) \/ FailSetup(p)
    \/ Finish \/ Kill \/ Stop

Spec == Init /\ [][Next]_vars

-----------------------------------------------------------------------------
(* Properties *)

\* The types; and in a directory that was never shared between recipes, or
\* left by a build for another key, the executable is of the configuration
\* next to it: also where a build was killed while it cleared the directory.
TypeOK ==
    /\ resumes \in Resuming /\ running \in BOOLEAN /\ key \in Keys
    /\ pc \in [Cases -> Over \cup Building \cup {"check", "export", "exported"}]
    /\ exe \in Elf \cup {Nothing}
    /\ cfg \in Keys \cup {Torn, Nothing}
    /\ exe # Nothing /\ "shared" \notin cut => cfg = exe.of
    /\ meta \in Json /\ state \in Json
    /\ elf \in [Cases -> Elf \cup {Nothing}]
    /\ runs \in [Cases -> RunDir \cup {Nothing}] /\ newest \in Cases \cup {Nothing}
    /\ package \in [Cases -> RunDir \cup {Nothing}]
    /\ how \in [Cases -> {"none", "built", "reused", "resumed", "recovered"}]
    /\ joined \subseteq Cases
    /\ cut \subseteq {"shared", "installing", "metadata", "foreign"}
    /\ makes \in 0..MaxMakes /\ mishaps \in 0..MaxMishaps

\* The recipe of p has exported an ELF.
Has(p) == pc[p] \in {"exported", "done", "packaged"}

Right(p) == elf[p] = [of |-> key, whole |-> TRUE]

\* What a recipe exports is what its command line asks for:
\* - if it has built it after it cleared the directory, whatever was killed
\*   or failed there before, unless another case was at the directory;
\* - if it has used it again, unless the last build was cut after it began to
\*   write the executable (the metadata of the build before is still there
\*   then), or another case was at the directory; builds that fail in runcpu
\*   do no harm;
\* - if it has resumed it in spec2026, if only builds for the same key have
\*   been left there, wherever they were killed, even while the metadata was
\*   written; only an executable that was killed while it was copied is taken
\*   for a completed build.
ExportedIsRight ==
    \A p \in Cases : Has(p) =>
        /\ how[p] = "built" /\ p \notin joined => Right(p)
        /\ how[p] = "reused" /\ p \notin joined /\ cut = {} => Right(p)
        /\ "foreign" \notin cut =>
             /\ how[p] = "resumed" => Right(p)
             /\ how[p] = "recovered" /\ "installing" \notin cut => Right(p)

\* What is packaged is the directory of the input set that was asked for,
\* with the ELF that was exported, even where that is the wrong one: if the
\* ELF is not torn, no other case was at the directory, and runcpu changed
\* the directory, so that it is the newest (spec2026-package.py:446).
PackageRunsElf ==
    \A p \in Cases :
        LET made == package[p]
            changed == runs[p] # Nothing => runs[p].touched
        IN  pc[p] = "packaged" /\ p \notin joined /\ elf[p].whole /\ changed
              => made.input = p /\ made.elf = elf[p]

=============================================================================
