# Verification of the NEMU workload builder

TLA+ models of the build and run system in this repository, checked with TLC
and, for the parts that matter most, proved with TLAPS. Every definition is
translated from the code; `PROJECT.json` maps each to its lines.

Run from this directory:

    tlc -workers 2 -config MultihartRun.cfg MultihartRun     # any run of the table below
    tlapm MultihartRunProofs.tla                             # any module of proofs

## 1. Inventory

The repository builds bootable images for the NEMU and QEMU emulators of
XiangShan: a checkpoint restorer (GCPT), OpenSBI, a device tree, Linux and an
initramfs that holds one benchmark, packed into one file. There is no server
and no database: the state is a build tree, the image, and for a while a
machine that runs it. What is hard is that the same directories are used for
one configuration after another, by parallel processes, any of which may fail
or be killed, and that three scripts compute the same addresses.

| Component | State | Operations | Interacts with | Correct when |
|---|---|---|---|---|
| Firmware packer (`scripts/build-firmware-linux.sh`, `dts-config.sh`) | `dt/`, the image file | check, build device tree, five `dd` | called by every firmware rule; agrees on addresses with OpenSBI | a finished image is whole, disjoint and inside memory; a refused job leaves the old one |
| OpenSBI build, debug export (`build-sbi.sh`, `export-linux-debug-artifacts.sh`) | build directory, export tree | compute addresses, build, copy, write manifest | packer | same addresses as the packer |
| QEMU runner (`run-qemu.sh`) | log file, exit status | inspect QEMU, run, judge | the guest, through trap messages | exit 0 only for a run that passed |
| Multi-hart packaging (`package-multihart-rootfs.py`) | package tree; in the guest: tasks, launcher | transform tree; launch, wait, trap | runner, through the machine | every copy is waited for, first failure reported |
| Guest programs and run scripts (`nemu-trap`, `nemu-exec`, `run.sh`, `inittab`) | status, codes sent | run commands, trap | machine, profiler | a good trap means success; profiler told once, before the command |
| Makefile (`Makefile`, `build-gcpt.sh`) | stamps, binaries, rootfs, firmware and their times | the rules | all scripts | the firmware is that of the command line, whatever was built before |
| jemalloc cache (`spec20*/build.sh`) | lock directory, library, metadata | check, lock, build, install, record | parallel builds | one builder; only whole current libraries are linked |
| SPEC rules (`spec20*/rules.mk`) | stamps per case, DTB profile, configuration; export tree | the rules; the loop over variants | packer, export | as the Makefile; an export is complete |
| SPEC packaging (`spec20*-package.py`) | ELF cache and its inputs, package tree | build ELF, select, package, write run script | SPEC rules | a cached ELF is the one a new build would give |
| Downloads, rootfs (`download-files.sh`, `build-workload-linux.sh`) | download directory, sentinel, source and package directories, archive | download, verify, copy, build, pack | Makefile | what is packed is of the workload as it is, and of the files its `links.txt` lists |
| AM workloads (`build-workload-am.sh`) | the same, with a sentinel for a target | download, build | Makefile | as above, for the ARCH that was asked for |
| Multi-hart template generator (`generate-xiangshan-multihart-dts.py`) | none: text to text | render | packer | the packer accepts what it renders, and every hart is wired |
| gapbs, geekbench, hello | package tree; in the guest: a FIFO and its writer | package; stream a graph | Makefile, guest | a good trap means that all of the graph was read |

The kernel, Buildroot, OpenSBI, the checkpoint restorers, QEMU and NEMU are
other projects. They appear as external actions: what traps do, what a wait
status is, how `make` decides.

`PROJECT.json` lists the hazards, each at its line, and the properties that
cover them; where the code leaves a case open, the hazard says which one the
property excepts, and section 5 lists these. (A minor one it does not list:
`nemu-trap -1`, the fallback of the inittabs, sends 29, because
`nemu-trap/main.c:8` converts the sign as a digit. README.md:175 promises "a
decimal integer". 29 is a bad trap all the same.)

## 2. Modules

| Module | Models | Extends |
|---|---|---|
| `FirmwareLayout` | the address arithmetic of three scripts | |
| `FirmwareImage` | the packer as a process | `FirmwareLayout` |
| `FirmwareImageProofs` | theorems, also on the packer together with the generator | `DtsGenerator` |
| `RunVerdict` | abstract: what an exit status of a run promises | |
| `MultihartRun` | runner, machine, launcher and tasks together | instantiates `RunVerdict` |
| `MultihartRunProofs` | theorems, refinement included, on several harts and on one | `MultihartRun`, `GuestRun` |
| `GuestRun` | traps and run scripts of single-hart images | |
| `MakeBuild` | the Linux rules of the Makefile | |
| `MakeBuildProofs` | theorems | `MakeBuild` |
| `JemallocCache` | the shared library and its lock | |
| `JemallocCacheProofs` | theorems, also on the package | `JemallocCache`, `CaseFiles` |
| `SpecRules` | the rules of one SPEC case, for three suites | |
| `SpecRulesProofs` | theorems, also on the inputs of x264 | `SpecRules`, `X264Inputs` |
| `SplitImages` | one recipe of `SpecRules` in full: the export of a spec2017 case | |
| `SplitImagesProofs` | theorems | `SplitImages` |
| `BenchBuild` | the directory in which the packagers build a benchmark, and the run directory that is packaged | |
| `BenchBuildProofs` | theorems | `BenchBuild` |
| `CaseFiles` | how the package of a spec2006 case is filled | |
| `X264Inputs` | the host decoder and the videos that x264 cases share | |
| `WorkloadBuild` | one generic workload from `links.txt` to its archive or sentinel | |
| `WorkloadBuildProofs` | theorems | `WorkloadBuild` |
| `DtsGenerator` | the generator of multi-hart templates, composed with the packer | `FirmwareImage` |
| `MC_FirmwareImage`, `MC_MakeBuild`, `MC_SpecRules`, `MC_CaseFiles`, `MC_X264Inputs` | the instances TLC checks | |

A module of proofs may be about two components, one after the other. Those of
the second are named so that both can be extended: `GuestSpec`, `X264Spec` and
`FillSpec` are the specifications of `GuestRun`, `X264Inputs` and `CaseFiles`.

Operators whose comment begins with "Mutant" are plausible bugs. They are used
by nothing: each shows, when it replaces the definition after it, that a
property can fail.

### FirmwareLayout and FirmwareImage

State: `dt` (which job the `dt/` directory was built for), `image` (which job
truncated the file, which components it holds whole, its length), `exit`, and
the position in the script. An invocation is `Start`, `CheckParameters` (lines
27-76), `BuildDt` (254-266), `CheckLayout` (267-287) and five times
`WriteComponent` (289-293); `FailWrite` and `Kill` stop it in the middle of a
`dd`. A component that a later `dd` overlaps is no longer whole. Bytes are
counted in quarters of a KiB, so that sizes and bases that are not multiples
of the `dd` block occur: `seek=` truncates. The script's search in the device
tree is modelled by what it returns; the bytes after the first MiB of
`gcpt.bin` by which of the known endings they are.

### MultihartRun and RunVerdict

The host script, the machine, the launcher and one task per hart interleave.
`task[h]` follows `task.sh` from trap to trap; `launcher` the loop of `wait`;
`log` holds the messages that reached the log file; `verdict` is the exit
status. `TaskDies`, `LauncherDies`, a QEMU that ends early and a `tee` that
loses the messages are the accidents. `guest` says how many processors QEMU
was given, which need not be the number of copies, and whether there is a
`taskset`. `RunVerdict` is the contract: copies end in any order, a pass
needs every one of them to have ended well, a failure may be reported at any
time. The refinement maps `task` and `rc` to its `result`.

### GuestRun

A run script is a sequence of steps, each with a condition on the status kept
so far. Eight programs are translated: `nemu-exec` (coremark, spec2006,
spec2026), gapbs, coremark-pro, rvv-bench, spec2017, geekbench, kvmtool and
litmus. Loops over benchmarks are unrolled twice, and spec2017 has three
commands. Outcomes are wait statuses, so that the difference between `$?` in a
shell and `status` in C is part of the model. Code -1 and the arguments of
`nemu-trap` are converted by `AtoiLite` as in the source.

`codes` is what has been sent, `nemu` whether the machine runs. A large graph
of gapbs is stored in parts. Its script makes a FIFO and starts
a `writer`, which sends one part after another (`Cat`) and removes each
(`RemovePart`), while the kernel reads (`ReadPart`). `parts` is the set of those left
on disk, `pipe` what is on its way, `heard` what the kernel has read. The
kernel cannot end before the end of the file, which comes when the writer has
closed the FIFO or died.

### MakeBuild

A file is a kind and a key: the key of a stamp is what its name hashes.
`Prereqs` are the rules for one command line. `newer[t]` is the set of
prerequisites written since `t` was, which is all that modification times are
used for; a prerequisite that is not newer now may be one under another
command line, so `newer` ranges over the prerequisites of all of them.
`made[t]` records for which settings `t`, and all it was made of, was made.
Recipes are `Begin` and `Finish`, so that they overlap, and sources may be
edited in between (`missed`). What a stopped recipe leaves depends on it:
`Interrupted`.

### JemallocCache

`prepare_jemalloc` of spec2017 and of spec2026, which are the same, and of
spec2006, which has the lock but no metadata: `byFile`, chosen at the start,
says which. `pc` is the line a build is at, `lock` the directory, `lib` the
library as it is on disk, `meta` its metadata file. A signal reaches the group
of a build (`Interrupt`, `Kill`) or its script alone (`LoseScript`): the EXIT
trap then gives the lock up while the subshell goes on with `make install`
(`RunOn`), and `runaway` says for which libraries. `breached`, `orphaned`, `cut`
and `raced` remember that something happened which the code does not recover
from (section 3).

### SpecRules

`suite` picks one of three rule sets, which differ in `Needs` (the
prerequisites), `Replaced` (the stamps whose recipe removes the others) and in
what an export does. A command line is a record: goal, ISO, configuration,
tune, input, device tree. Files carry what they were made from (`elf`,
`rootfs`, `firmware`, `export`), stamps and targets a time from one `clock`.
The ELF cache, one ELF for each tune, and the workspace are further files, with
what they say of themselves: spec2017 records which ISO its workspace came from,
the others do not. The ELF of a case is a copy that keeps the time of the one in
the cache (`copy2`), so that after a `Hit` it may still be older than its stamps
and be copied again by the next make. A recipe is one step; it fails before its
target is written. `tried`
holds, for each kind of stamp, the value that its recipe was last run for, as
long as no make that depends on the stamp has asked for another one.

### SplitImages

`SpecRules!ExportPackaged` is one step; here it is the recipe of
`spec2017/rules.mk:222-274`, for all the variants of a case. `package`,
`rootfs` and `image` are the files of each variant below `runs/`, with the
command line they are of and how far the rewriting for several harts got;
`exported` is the export tree. Each step of the loop has a `Fail` twin, after
which the loop goes on. `spoilt` remembers for which variants a step failed.

### BenchBuild

`exe`, `cfg`, `meta` and `state` are the files in
`_bench-builds/<benchmark>/<tune>`; `pc[p]` is the line of `build_elf` and
`package_case` that the recipe of case `p` is at. `resumes` tells spec2026
from spec2006 and spec2017, whose `build_elf` is the same but for names
(spec2006 fills the run directory without `runcpu`, so that `Setup` is of the
other two). All cases of one make have the same key. runcpu is external: it
copies the executable at the end, in two steps, fails before, or is killed.
`cut` remembers why the directory may be out of step with its metadata (a
build cut while it installed, or before its metadata; another case at work;
a resumed build of another configuration), until it is cleared.

`runs` holds for each case the run directory that runcpu has set up for its
input, and `newest` whose is the newest: spec2026 takes that one
(`SelectRunDir`), whichever input it is of, and runcpu may use a directory
again without touching it (`touched`).

### CaseFiles

What comes after the ELF in spec2006. A tree is a function from paths to where
a file came from, so that the model can tell one `f` from another. `stage` and
`package` are the two directories that are cleared and filled, `step` is where
`package_case` is and `at` the entry it has come to. `CopyTree`
follows `copy_tree_contents`, in which a directory replaces the one that is
there, and `CopyFlat` takes files only. `PrepareWrf` searches the three
directories that the code searches; `PrepareSphinx3` chooses a recording for
each stem and lists them in `ctlfile`. A step that fails or is killed leaves
any part of its copies (`Halves`), one of them torn.

### X264Inputs

spec2017 decodes the input of x264 on the build machine. `exe`, `meta` and
`objs` are the decoder, `video` what it made and `older` which videos are older
than their bitstream: all of it in one directory for every case and workspace,
without a lock. `PrepareWorkspace` changes the sources, the bitstream or both.
`shared` says that two cases were active there at a time, `cut` which videos
were left half written.

### WorkloadBuild

One workload, Linux or AM: `list` is its `links.txt`, `own` its other files,
both edited at any time. `disk` is `download/`, `todo` what is left of the loop
of `download-files.sh`. What `build.sh` installs, and the multi-hart rewriting
of it that `SplitImages` models, are one step, `RunBuild`. `listNewer` and
`stale` are what make asks of times. `before` is how much the downloads lacked
when this make began (`Distance`). wget leaves whatever the link leads to, which
need not be what is listed (`FinishWget`); `misled` remembers that it was not.

### DtsGenerator

A template is what the edits and the packer see of its text: the CPU nodes,
the interrupt lists, the nodes that are looked for, the size of the memory.
`Generate` writes `Render(base, harts, gib)`, and the packer of
`FirmwareImage` is then run with it (`PackTemplate`), all its checks included;
`Compiles` is what dtc requires. `GenSpec` is what the firmware run checks:
its steps are those of the packer, and steps of the generator between them.
A rendered tree keeps the fields that dtc and the packer look at; the addresses
of DRAM and CLINT are among them, and no edit touches those.

## 3. Runs

| Run | States | Shows |
|---|---|---|
| `MC_FirmwareImage` | 318,417 | 15 jobs on both sides of every bound, one after another, and the templates generated for them |
| `MultihartRun` | 142,602 | 3 harts, 2 or 3 processors, two failure codes |
| `GuestRun` | 1,221 | 8 programs, 5 exit codes, 2 signals, graphs of 0 to 3 parts |
| `GuestRunExitCode` | | violation: `nemu-exec` does not pass on the exit code |
| `MC_MakeBuild` | 434,216 | 3 makes among 4 command lines, 1 edit, failure or kill |
| `JemallocCache` | 573,598 | 3 builds, 2 libraries, 3 makes, 2 signals to a build or its script alone, with and without metadata |
| `MC_SpecRules` | 1,073,703 | 3 suites, 4 makes among 10 command lines, 1 failure |
| `SplitImages` | 76,055 | 3 variants, 3 command lines, 2 exports, 3 mishaps |
| `BenchBuild` | 1,439,856 | both kinds of suite, 2 cases, 2 keys, 3 makes, 2 mishaps |
| `MC_CaseFiles` | 70,828 | 3 cases, data that lacks each thing they look for, 2 runs, 1 mishap |
| `MC_X264Inputs` | 2,774,994 | 3 cases, 2 of them with one video, 3 workspaces |
| `WorkloadBuild` | 2,341,984 | both kinds, 2 files in 2 versions, links that lead to either, 3 makes, 2 edits, 1 mishap |

**Firmware.** `CompleteWhenOk`, `NothingOverwritten`: no size that passes the
checks lets components overlap. `AddressesAgree`: the constants of three
scripts agree for both layouts. `InsideMemory`: also the two memory bounds
and the checkpoint window. `ImageTouchedAfterChecks`: an action property, a
refused job never truncates the earlier image. Fifteen jobs are enough because
each check has a job that just passes and one that just fails, and the state
of one invocation reaches the next only through the files.
`GeneratedTreesFit` joins the packer with the generator of its templates: the
packer never refuses a generated one for its addresses, harts or reserved
memory, and an image that is finished has every hart in it, each with its own
ID and on the list of every device. The replacements of the generator say
nothing when they find nothing to replace, so that this is a statement about
the templates: the bases differ in each thing that is looked for.

**Multi-hart run.** `PassMeansEveryCopyPassed` and `CleanRunPasses` are the
two directions of README.md's "treats only `Hit GOOD TRAP` as success";
`FirstFailureReported` is the launcher's loop. Three harts give every order of
endings around a failing one, and a hart without a processor. Fairness is
weak fairness of "something other than an accident happens": the guest and
host kernels schedule their processes, benchmarks end, and QEMU ends after a
terminal trap. `VerdictReached` needs the exception of a dead launcher: the
runner has no time limit.

**Guest run.** `GoodTrapMeansSuccess` is stated for the scripts that judge
their commands, and in the other direction for all; geekbench sends 0 on
purpose, kvmtool and litmus lose the status in a pipe. Fairness: the guest runs
its processes and every benchmark ends. One documented claim does not hold:
README.md:177 says that nemu-exec "stops NEMU with the exit code of the
workload"; it sends the wait status (`nemu-exec/main.c:37`), 256 times the
code. For exit code 1 that is 256, which the machine takes for "disable the
timer interrupt": it does not stop. `MachineStops` therefore has an exception,
and so has `ProfiledCommandAnnounced`: once a profiled command has run the codes
are 256 and 257, in every other failing and killed run too, but with nemu-exec
and exit code 1 they are 256, 257 and 256 (`SentAsCode`).
`StreamReadWhole`: the parts of a graph, removed one by one as they are sent,
reach the kernel whole and in order; three parts give a first, a middle and a
last one.

**Make.** `FirmwareIsCurrent` is the property of the whole rule set: when make
says it is done, the firmware and everything in it was made for this command
line. It has three exceptions, each something no rule could catch: a source
edited while make runs, a target torn by a failure, and OpenSBI's own sources,
which no rule names (`Makefile:95`). `SecondMakeIsIdle`: parallel recipes
never leave a target older than its prerequisite. `PlatformsShareRootfs` is
README.md:37-39. The four command lines differ in platform, mode, number of
harts and device tree; three makes allow going away and coming back, which is
where stamps go wrong. One mishap per behaviour keeps the run within minutes.

**jemalloc.** `OneHolder` is mutual exclusion, `InstalledOnce` says that what
was found current does not change, `LinkedWhole` puts them together. All hold
until one of three things happens, which the code really does not handle: the
EXIT trap of an interrupted *waiting* build removes another build's lock, or that
of a script that is signalled alone the lock under which its subshell goes on
to install (`breached`); an install is cut short and the metadata goes on to describe the
library before (`cut`); or, in spec2006, a build looks for the file while
another installs it (`raced`), finds it, and links what may be half there.
`EveryBuildEnds` holds unless a holder is killed with SIGKILL (`orphaned`),
after which everyone waits for ever. Fairness is
per build: the scheduler lets each go on, and its commands end; weak fairness
is enough for the lock because the others end. Three builds give a holder, a
waiter and an intruder.

**SPEC rules.** `MadeForCommandLine` is `FirmwareIsCurrent` for these rules,
one setting at a time: each holds as long as the stamp that stands for it is
the last one written of its kind, and no make for another value has come
between. Where the recipe of a stamp removes the others that is always so (all
of spec2006 but the ISO, the build variables of spec2017). Where it does not,
going back to an earlier value finds an old stamp and rebuilds nothing: the DTB
profile, the configuration and the ISO in spec2017, everything in spec2026.
`ExportedTogether`: even then, what is exported belongs together. Of the ELF
next to the rootfs that is so only if the stamps are the last ones, and in
spec2006, whose ELF rule does not depend on the build variables, only if the ELF
is of the tune that is asked for. It need not be: firmwares for two ISOs, the
second with a cached ELF; the ELF goal with another tune, which finds that one
older than the stamp of the ISO and makes its own; and the export of the first
tune takes it along, with every stamp the last one. The run contains this.
Two makes go away and come back; four are needed, because a third one may find
the old stamp and a fourth build on what that one has left. The command lines
change one setting at a time, four of them for another goal, and one changes
two.

**Split images.** `ExportIsOfThisRun`, `StampMeansExported`: since the loop
goes on after every failure, nothing of an earlier export may be left for it to
pick up, and no variant may spoil another. Both hold because `runs/` is removed
first. What does not hold is that the stamp means success: the loop's status is
that of the last export. Three variants give a first, a middle and a last one;
two exports give leftovers; three mishaps let one variant lose its tree, its
archive and its image.

**Benchmark builds.** How an ELF came to be exported decides what is known of
it, and `ExportedIsRight` says so for each way. Built after the directory was
cleared: always right, unless another case met it there. Reused: right unless
the last build was cut between the copy of its executable and its metadata,
because the metadata of the build before is never removed, or another case was
at the directory meanwhile and is removing or copying what is reused. Resumed or
recovered: right unless a build for another key was left there, or the copy
was cut. `PackageRunsElf`: what is packaged is the directory of the input that
was asked for, with that same ELF, right or wrong. `SpecRules` treats the
cache as sound, which this run qualifies. Two cases, two keys and two mishaps
give every pair of builds that meet, follow or cut each other; the third make
is the one that believes what it finds.

**Case files.** `PackageHoldsItsInputs`: the package has what the case needs
and nothing else, each file from the right place; two runs let the second one
find what the first, for another byte order, has left. `RefusedOnlyForMissing`
is the other direction: data that has everything is not refused. The data of
the instance lacks one or two of the things each kind of case looks for.

**x264 inputs.** `PackagedVideoRight`: whatever was decoded before, for another
workspace or by a decoder that was killed, the video that is packaged is of
this workspace's sources and bitstream. `LeftoversHarmless`: nothing a stopped
run leaves makes a later one fail. Two of the cases share a video and the
third shares the decoder only. No fairness is needed for any of these.

**Workload build.** `ProductIsOfWorkload` says for downloads and packing what
`FirmwareIsCurrent` says for the rest of the Makefile. `FailureRepairs`
replaces a liveness property that would need fairness of the network: a make
that fails over a checksum has come nearer to one that succeeds, since the
wrong file is gone; so two failures per file are the most there can be without
an accident, if the links lead where they should. Where one does not, wget
fetches another file without an error, the script removes it and fails, and so
does every make until the link is right: of these the property says that they
come no farther from success than they were when they began.

Where the system may stop the models say so with an action of their own
(`Terminated`, `Idle`, `Stop`, `Rest`, `NoMoreRuns`), so that TLC's deadlock check stays on.

## 4. Proofs

Everything below holds for every value of the constants that satisfies the
named assumptions of the modules: any set of jobs, any number of harts from 2
to 128, any set of builds, cases, variants, files and command lines, any exit code
or signal of a command and any number of parts of a graph, any data and any
workspaces of the SPEC cases, and any bounds.

| Module | Theorems | Inductive invariant |
|---|---|---|
| `FirmwareImageProofs` | `TypeCorrect`, `NoDdOverlaps`, `ImageComplete`, `ImageInsideMemory`, `ImageTouchedOnlyAfterChecks`, `ScriptsAgree`; `GeneratorUsesPacker`, `GeneratedTreesFitPacker` | types; past a check, the check holds for the job; while writing, `image` is what the first commands give, with its length; the template in use is what `render` makes of what was asked for, and compiles once dtc has been passed |
| `MultihartRunProofs` | `TypeCorrect`, `VerdictSound`, `LauncherReportsFirstFailure`, `NoFalseAlarm`, `RunImplementsContract`; `TrapsAreVerdicts`, `GraphsReadWhole`, `FirstFailuresStop`, `ProfilerIsTold` | types; what the launcher has waited for has ended, and `status` is the first failure among it; a good trap means all have ended well; messages and verdict follow from the machine. On one hart: for each script, what is known at each of its steps until it dies; one that has died is at the trap of the inittab; the first k parts have been heard, one more may be on its way, and the rest is on disk |
| `JemallocCacheProofs` | `TypeCorrect`, `LockExcludes`, `WholeLibraryLinked`, `LibraryInstalledOnce`; `PackagesHoldTheirInputs`, `RefusedForMissingOnly` | types; mutual exclusion, until a lock is breached, as it is wherever a subshell is on its own; a build that installs has found other metadata; the library is what the metadata says unless it is being installed; whoever goes on has found its own metadata. Of a package: once both sizes are copied the stage is what the inputs are said to be; the package holds what the entries so far name, from there, and nothing else; after the setup it is filled but for the ELF and the script |
| `MakeBuildProofs` | `FirmwareIsAlwaysCurrent`, `SecondMakeIsAlwaysIdle`, `PlatformsAlwaysShareRootfs` | types; recipes run once, after all they read is up to date; there is one stamp for one thing; for every command line, a target that is newer than its stamp was made for what the stamp says, and what is stale in it is stale in what it was made of; what make has brought up to date is newer than all that |
| `SpecRulesProofs` | `TargetsMadeForCommandLine`, `ExportsBelongTogether`; `PackagedVideosAreRight`, `LeftoversAreHarmless` | for every command line, not only the present one: what is newer than its stamp was made for it, as long as that stamp counts; the same of the ELF, the rootfs, the firmware and the cache of each tune together; what make has brought up to date depends on nothing newer, but for an ELF that keeps the cache's time. Of x264, until two cases meet: one is at work; metadata next to a decoder is that decoder's, which is whole; what a case has done up to its line; a video that counts as decoded is right |
| `SplitImagesProofs` | `ExportedImagesAreOfThisRun`, `StampedVariantsExported` | past the removal of `runs/`, all that is there is of this run; a variant that is not spoilt has got as far as the loop has |
| `WorkloadBuildProofs` | `ProductIsOfTheWorkload`, `EveryFailureRepairs` | what the loop has verified is as `links.txt` lists it; the product is older than nothing it is made of, or its make was disturbed; what was there before has not become worse |
| `BenchBuildProofs` | `TypeCorrect`, `ExportsAreRight`, `PackagesRunTheirElf` | in a directory that was not shared, configuration, executable, state and metadata are of the builds that `pc` and `cut` say; who is at work alone has found what it goes on to use; the newest run directory is there |

None of the properties is inductive as it stands. `CompleteWhenOk`, for
instance, speaks of the end only: the invariant has to say what the image
holds after each command, and the step then needs that the bytes of two
components are disjoint. That is one lemma of arithmetic, from the size
checks and from the alignment of kernel and initramfs. `ScriptsAgree` assumes
that DRAM starts at a multiple of a KiB, as in all device trees shipped here;
without it the division in `seek=` would shift the kernel against the address
OpenSBI jumps to. The refinement theorem shows that every step of
`MultihartRun` is a step of `RunVerdict` or leaves its variables alone; the
interesting one is `Judge`, which needs the invariant.

`MadeForCommandLine` and `FirmwareIsCurrent` speak of the command line of a
make that has ended. What a later make may find depends on all command lines
that went before, so that the invariants quantify over them: a target that
follows a stamp was made for what the stamp stands for, whoever asks. Every
step then either writes the target, and its prerequisites are those of the
present command line, or leaves both target and stamp as they are
(`FollowsStep`). The ELF next to a rootfs needs more, since its time is that of
the cache and says nothing of when it was copied: a recipe that packages again
finds in the cache the ELF that the rootfs has (`CacheFits`); an ELF of the
tune asked for is that of the rootfs although it is made again (`ElfKept`); and
so it is once make has done with it (`ElfDone`).

`GeneratorUsesPacker` says that the composition with the generator is an
implementation of the packer alone, so that all its theorems hold there too.
`GeneratedTreesFitPacker` rests on an argument about dtc, not on the checks of
the generator, which has none: a base for several harts would be rendered with
two nodes of one label, and one whose interrupt controllers have other names
with several of one name. dtc refuses both, so a template that compiles comes
from one hart, and for its devices every replacement has found its text. This
needs three assumptions on the bases: that DRAM and CLINT are where the packer
wants them in a multi-hart image, which the generator neither checks nor sets
(`AddressesAssumption`), that they number their harts (`NumberedAssumption`) and
that a PLIC, CLINT or debug controller of a single hart lists its lines as one
of `Expected` (`WiredAssumption`). All templates of `dts/` in which the generator
finds cpu0 are of this kind, and for other bases the property is false: one
with DRAM elsewhere is rendered and then refused by the packer; with one
numbered 0 and 5, dtc has nothing to refuse and the packer counts a hart too
many.

A package is right whatever was there before because both directories are
cleared first and, from there on, every path has one origin. The proof is about
trees: what `copy_tree_contents`, `copy_flat_directory` and `copytree` do to a
set of paths (`CopyTreeGives`, `CopyFlatGives`, `UnderGives`). It needs two
assumptions. Entries have names of their own in the package, so that none
takes the place of what another has put there; wrf and sphinx3 take their data
as a whole; and no benchmark is named `run.sh` or `ctlfile`
(`CasesAssumption`): so it is for all 140 cases of `spec06.json`. And no name
stands for a file in one data directory and for a directory in the other
(`DataAssumption`): `rmtree` would fail on the file, and `copy2` would put a
file inside the directory, which the model's trees do not do. The same is taken
for granted of the files that wrf and sphinx3 add.

`GuestRun` is a finite collection of scripts, but what their commands return
is not: `TrapsAreVerdicts` holds for every wait status there is
(`OutcomesAssumption`). The conversion of the arguments that scripts write out,
among them the -1 of the inittabs that sends 29, is proved digit by digit.

The other assumptions beside those on bounds are that a value which stands for "no
such file" is none of the real ones (`NothingAssumption` in `SpecRules` and
`SplitImages`, `NoneAssumption` in `WorkloadBuild` and `X264Inputs`, `NamesAssumption` in
`BenchBuild`), that there is a command line at all (`ConfigsAssumption`),
that `links.txt` is finite (`FilesAssumption`), that the programs are some of
those translated (`ProgramsAssumption`) and the workloads some of the four of
SPEC (`WorkloadAssumption`). TLC evaluates each in a run.

Each inductive invariant was first checked by TLC as an invariant of the
corresponding run's instance. Three of the properties turned out to be
narrower than they had been stated, each beyond the bounds of its run then:

- `ExportedIsRight` failed with a third case: one that reused the ELF while
  another was replacing it, before a third one cleared the directory.
- `MadeForCommandLine` failed with a fourth make: the stamp for which a recipe
  was last run had been overtaken by a make for another value, which found its
  stamp there and rebuilt the target for it.
- `ExportedTogether` failed with a fourth make and an ELF of another tune, and
  again once the copy of a cached ELF kept its time, with the stamps all fresh.

The properties now say so, and `MC_SpecRules` has four makes. The last two cases
are in section 5.

Only model-checked: liveness (`VerdictReached`, `MachineStops`,
`EveryBuildEnds`), since the prover does not handle fairness and ENABLED. All
other properties of the runs are theorems.

## 5. What the code leaves open

These are the cases the properties except. The models contain them, and a
property without the exception is violated there.

- A torn target counts as new: no rule deletes it (`Makefile:66-135`), nor an
  archive that was cut (`build-workload-linux.sh:35`).
- OpenSBI's sources are prerequisites of no rule (`Makefile:95`).
- An AM workload is not rebuilt for another `ARCH` (`Makefile:154`).
- Going back to an earlier DTB profile, configuration or ISO of spec2017, or to
  an earlier value of anything of spec2026, its input included, finds an old
  stamp and rebuilds nothing (`spec2017/rules.mk:193`, `spec2026/rules.mk:112`).
  spec2026/README.md:142 calls what is exported "complete and consistent".
- The ELF of spec2006 is not rebuilt for another tune, whose stamp it does not
  depend on (`spec2006/rules.mk:122`); the rootfs is, and writes it anew.
- The ELF of a case keeps the modification time of the cached one
  (`spec2006-package.py:373`, `spec2017-package.py:518`, `spec2026-package.py:316`):
  after an ISO or a configuration that builds nothing new, make runs its recipe
  every time, and in spec2006 an export may find the ELF of one tune next to the
  rootfs of another, with all stamps fresh.
- A link that leads to another file than `links.txt` lists makes every make fail
  at that file (`download-files.sh:27-32`).
- The image stamp of spec2017 is touched although a variant other than the
  last one failed (`spec2017/rules.mk:243`).
- Two cases of one benchmark, two x264 cases, or two kernels of gapbs, made at
  a time, work in one directory without a lock.
- A build of spec2017 or spec2006 that is killed between its executable and its
  metadata is later taken for one of the configuration before
  (`spec2017-package.py:481`).
- spec2026 resumes a failed build with the configuration of that build, and
  records the new one (`spec2026-package.py:387`).
- spec2026 packages the newest run directory, which is another input's if
  runcpu has not touched its own (`spec2026-package.py:446`).
- A directory of a size replaces the one for all sizes as a whole
  (`spec2006-package.py:155-166`); a wrf package whose data lacks the directory
  of the header size gets the general files only, and no error (`:297`).
- A video of x264 that was half written is newer than its bitstream and is
  packaged (`spec2017-package.py:690`).
- The EXIT trap of an interrupted waiting build removes another's lock, that of
  a script that is signalled alone the lock its subshell still needs, and a lock
  whose holder was killed stays (`spec2017/build.sh:30`, `:187`).
- spec2006 may link a library that was torn, or that another build is
  installing (`spec2006/build.sh:149`).
- The status of a pipe is that of its last command (`kvmtool/run.sh:5`,
  `litmus-tests-riscv/run.sh:5`), and that of the writer of a FIFO is nobody's
  (`gapbs-package.py:103`): a kernel whose writer died ends as if at the end of
  the graph.
- The generator takes the addresses of DRAM and CLINT from its base; the packer
  refuses others (`generate-xiangshan-multihart-dts.py:202-226`).
- The generator leaves a hart ID that is written in decimal, as in
  `xiangshan-fpga-noAIA-mem16g-novec`, and the interrupt lists of AIA, and
  reports nothing (`generate-xiangshan-multihart-dts.py:62`, `:208`).

## 6. Not modelled, and the plan

Next, in this order:

1. The invariant of `SpecRules` with the torn files of `MakeBuild`.
2. The rules of gapbs and the directory its kernels are compiled in; which
   device tree `rules.mk` chooses for memory and harts.

Left out of modelled files: how the commands that `specinvoke` prints are
parsed, and `--prepare-only` of spec2017 (`spec2017-package.py:251-352`), which
no rule calls; comments, the contents of the UART node and `riscv,ndev` in the
generator; names and links in `package-multihart-rootfs.py`; the rules for
Buildroot and the release archives in the Makefile.

Never modelled: formatting and logging, the text of device trees and of SPEC
configuration files, the network, and the other projects named above;
configuration files for Buildroot, Linux and OpenSBI, and the list of builds
for continuous integration, which have no state. The memory the kernel needs
beyond its file (its BSS) is not accounted for by the packer and not by the
model.
