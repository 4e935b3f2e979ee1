------------------------------- MODULE SpecRules -------------------------------
(***************************************************************************)
(* The make rules of one SPEC case, for each of the three suites: one      *)
(* command line after another over the same build directory.  What a       *)
(* command line says reaches the files by four stamps: for the ISO, the    *)
(* SPEC configuration, the build variables and the device tree.  A stamp   *)
(* is named by a hash of what it stands for; some recipes remove the       *)
(* stamps that stand for something else and some do not.  (cfg.stamp of    *)
(* spec2006 has one name, and is written when its content changes: that is *)
(* the same.)  spec2017 packages anew for an export, the others export     *)
(* what the firmware rule has built.                                       *)
(*                                                                         *)
(* Recipes are one step, which may fail before it writes its target; what  *)
(* overlapping or torn recipes do is the subject of MakeBuild.             *)
(***************************************************************************)
EXTENDS Naturals

CONSTANTS Suites,       \* among spec2006, spec2017 and spec2026
          Configs,      \* the command lines
          Nothing,      \* there is no such file
          MaxMakes,     \* bound on the invocations of make
          MaxFailures   \* bound on the recipes that fail

Listed == <<"iso", "cfg", "vars", "dtb">>   \* the order in which rules list the stamps
Kinds == {Listed[i] : i \in DOMAIN Listed}
Targets == {"elf", "rootfs", "firmware", "export"}

ASSUME SuitesAssumption == Suites \subseteq {"spec2006", "spec2017", "spec2026"}
ASSUME ConfigsAssumption ==
    /\ Configs # {}
    /\ \A c \in Configs : /\ DOMAIN c = {"goal", "iso", "cfg", "tune", "input", "dtb"}
                          /\ c.goal \in {"elf", "firmware", "export"}
\* Of spec2017, an ELF knows the ISO its workspace was prepared from.
Field(f) == {c[f] : c \in Configs}
Workspaces == [iso : Field("iso") \cup {Nothing}, whole : BOOLEAN]
Elves == [iso : Field("iso") \cup {Nothing}, cfg : Field("cfg"), tune : Field("tune")]
Rootfses == [elf : Elves, from : Workspaces, input : Field("input")]
Firmwares == [rootfs : Rootfses, dtb : Field("dtb")]
Exports == [elf : Elves, rootfs : Rootfses, firmware : Firmwares, dt : Field("dtb")]
Caches == [meta : Elves, elf : Elves, time : Nat]

ASSUME NothingAssumption ==
    /\ \A f \in {"iso", "cfg", "tune", "input", "dtb"} : Nothing \notin Field(f)
    /\ Nothing \notin Field("tune") \X Field("input")
    /\ Nothing \notin Workspaces \cup Elves \cup Rootfses \cup Firmwares \cup Exports \cup Caches
ASSUME BoundsAssumption == MaxMakes \in Nat /\ MaxFailures \in Nat

\* What the name of a stamp hashes.  The tune stands for the build variables
\* that the ELF depends on, the input for those that only the package does:
\* the input set in spec2026, PROFILING in spec2017, HARTS in both older ones.
StandsFor(k, c) ==
    CASE k = "iso" -> c.iso
      [] k = "cfg" -> c.cfg
      [] k = "vars" -> <<c.tune, c.input>>
      [] k = "dtb" -> c.dtb

Values(k) == {StandsFor(k, c) : c \in Configs}

VARIABLES
    suite,      \* which of the three
    make,       \* the invocation: its state, its command line, how it ended
    done,       \* the stamps and targets it has brought up to date
    clock,      \* files written so far
    stamp,      \* kind -> value -> when the stamp was written, 0 when there is none
    time,       \* target -> when it was written, 0 when there is none
    workspace,  \* what spec-src says it was prepared from, and whether it was finished
    cache,      \* tune -> the ELF below _bench-builds, its metadata and its time
    elf, rootfs, firmware,
    dt,         \* the device tree in the directory dt
    export,     \* what was exported together
    tried,      \* kind -> the value its recipe was last run for, unless a make that
                \* depends on it has asked for another one since
    makes, failures

vars == <<suite, make, done, clock, stamp, time, workspace, cache, elf, rootfs,
          firmware, dt, export, tried, makes, failures>>

files == <<clock, stamp, time, workspace, cache, elf, rootfs, firmware, dt, export, tried>>

Init ==
    /\ suite \in Suites
    /\ make = [state |-> "idle", config |-> CHOOSE c \in Configs : TRUE, exit |-> "none"]
    /\ done = {}
    /\ clock = 0
    /\ stamp = [k \in Kinds |-> [v \in Values(k) |-> 0]]
    /\ time = [t \in Targets |-> 0]
    /\ workspace = Nothing /\ cache = [t \in Field("tune") |-> Nothing]
    /\ elf = Nothing /\ rootfs = Nothing /\ firmware = Nothing
    /\ dt = Nothing /\ export = Nothing
    /\ tried = [k \in Kinds |-> Nothing]
    /\ makes = 0 /\ failures = 0

-----------------------------------------------------------------------------
(* The rules *)

\* The stamps whose recipe removes the others.
Replaced ==
    CASE suite = "spec2006" -> {"cfg", "vars", "dtb"}
      [] suite = "spec2017" -> {"vars"}
      [] suite = "spec2026" -> {}

\* The prerequisites of a target.
Needs(t) ==
    CASE t = "elf" -> {"iso", "cfg"} \cup (IF suite = "spec2006" THEN {} ELSE {"vars"})
      [] t = "rootfs" -> {"iso", "cfg", "vars"}
      [] t = "firmware" -> {"dtb", "rootfs"}
      [] t = "export" ->
           CASE suite = "spec2006" -> {"iso", "firmware"}
             [] suite = "spec2017" -> {"iso", "cfg", "vars"}
             [] suite = "spec2026" -> {"firmware"}

\* What make has to bring up to date for a goal.
Closure(g) ==
    {g} \cup Needs(g)
        \cup (IF "firmware" \in Needs(g) THEN Needs("firmware") ELSE {})
        \cup (IF g = "firmware" \/ "firmware" \in Needs(g) THEN Needs("rootfs") ELSE {})

Written(x) == IF x \in Kinds THEN stamp[x][StandsFor(x, make.config)] ELSE time[x]

OutOfDate(t) == time[t] = 0 \/ \E x \in Needs(t) : Written(x) > time[t]

\* An export begins with rm -rf of the export tree, its stamps included.
Start(c) ==
    /\ make.state = "idle"
    /\ makes < MaxMakes
    /\ makes' = makes + 1
    /\ make' = [state |-> "building", config |-> c, exit |-> "none"]
    /\ done' = {}
    /\ export' = IF c.goal = "export" THEN Nothing ELSE export
    /\ time' = IF c.goal = "export" THEN [time EXCEPT !["export"] = 0] ELSE time
    /\ tried' = [k \in Kinds |-> IF k \in Closure(c.goal) /\ tried[k] # StandsFor(k, c)
                                 THEN Nothing ELSE tried[k]]
    /\ UNCHANGED <<suite, clock, stamp, workspace, cache, elf, rootfs, firmware, dt, failures>>

Due(x) ==
    /\ make.state = "building"
    /\ x \in Closure(make.config.goal) \ done
    /\ x \in Targets => Needs(x) \subseteq done

UpToDate(x) == IF x \in Kinds THEN Written(x) > 0 ELSE ~OutOfDate(x)

\* What is there, and newer than its prerequisites, is kept; in one step,
\* before any recipe.
Keep ==
    /\ LET kept == {x \in Kinds \cup Targets : Due(x) /\ UpToDate(x)}
       IN  kept # {} /\ done' = done \cup kept
    /\ UNCHANGED <<suite, make, makes, failures>>
    /\ UNCHANGED files

\* The recipe of x is run: the stamps first, as listed.
Runs(x) ==
    /\ Due(x) /\ ~UpToDate(x)
    /\ \A y \in Kinds \cup Targets : Due(y) => ~UpToDate(y)
    /\ \A i \in DOMAIN Listed :
           Due(Listed[i]) => \E j \in 1..i : Listed[j] = x

Done(x) ==
    /\ done' = done \cup {x}
    /\ clock' = clock + 1
    /\ UNCHANGED <<suite, make, makes, failures>>

\* Mutant: no recipe removes the other stamps.
MakeStampOnly(k) ==
    /\ Runs(k)
    /\ Done(k)
    /\ stamp' = [stamp EXCEPT ![k][StandsFor(k, make.config)] = clock + 1]
    /\ tried' = [tried EXCEPT ![k] = StandsFor(k, make.config)]
    /\ workspace' = IF k = "iso" THEN [iso |-> make.config.iso, whole |-> TRUE] ELSE workspace
    /\ UNCHANGED <<time, cache, elf, rootfs, firmware, dt, export>>

\* For an ISO, the script prepares the workspace first.
MakeStamp(k) ==
    /\ Runs(k)
    /\ Done(k)
    /\ stamp' = [stamp EXCEPT ![k] =
                   [v \in Values(k) |-> IF v = StandsFor(k, make.config) THEN clock + 1
                                        ELSE IF k \in Replaced THEN 0 ELSE @[v]]]
    /\ tried' = [tried EXCEPT ![k] = StandsFor(k, make.config)]
    /\ workspace' = IF k = "iso" THEN [iso |-> make.config.iso, whole |-> TRUE] ELSE workspace
    /\ UNCHANGED <<time, cache, elf, rootfs, firmware, dt, export>>

-----------------------------------------------------------------------------
(* The recipes *)

\* shared_build_metadata: spec2017 records what the workspace was prepared
\* from, the others its path.
Metadata ==
    [cfg |-> make.config.cfg, tune |-> make.config.tune,
     iso |-> IF suite = "spec2017" THEN workspace.iso ELSE Nothing]

\* What _bench-builds/<benchmark>/<tune> holds, and whether it is reused.
Cached == cache[make.config.tune]
Hit == Cached # Nothing /\ Cached.meta = Metadata

\* What build_elf returns: the ELF of the cache, or one built in the workspace.
BuiltElf ==
    IF Hit THEN Cached.elf
    ELSE [iso |-> workspace.iso, cfg |-> make.config.cfg, tune |-> make.config.tune]

BuiltAt == IF Hit THEN Cached.time ELSE clock + 1

Build ==
    cache' = [cache EXCEPT ![make.config.tune] =
                  [meta |-> Metadata, elf |-> BuiltElf, time |-> BuiltAt]]

Packaged == [elf |-> BuiltElf, from |-> workspace, input |-> make.config.input]

\* A recipe that packages also writes the ELF of the case: copy2 copies the
\* time as well, so that an ELF of the cache stays as old as it is.
Package(t) ==
    /\ Build
    /\ elf' = BuiltElf
    /\ time' = [time EXCEPT ![t] = clock + 1, !["elf"] = BuiltAt]

BuildElf ==
    /\ Runs("elf")
    /\ Package("elf")
    /\ Done("elf")
    /\ UNCHANGED <<stamp, workspace, rootfs, firmware, dt, export, tried>>

BuildRootfs ==
    /\ Runs("rootfs")
    /\ Package("rootfs")
    /\ rootfs' = Packaged
    /\ Done("rootfs")
    /\ UNCHANGED <<stamp, workspace, firmware, dt, export, tried>>

\* The directory dt is removed first, so that it holds one device tree.
BuildFirmware ==
    /\ Runs("firmware")
    /\ dt' = make.config.dtb
    /\ firmware' = [rootfs |-> rootfs, dtb |-> make.config.dtb]
    /\ time' = [time EXCEPT !["firmware"] = clock + 1]
    /\ Done("firmware")
    /\ UNCHANGED <<stamp, workspace, cache, elf, rootfs, export, tried>>

\* Mutant: dt is not removed, and still holds the device trees of before.
DtFoundAny == dt # Nothing

\* export-linux-debug-artifacts.sh requires dt/<basename>.dtb.
DtFound == dt = make.config.dtb

ExportBuilt ==
    /\ suite # "spec2017"
    /\ Runs("export")
    /\ DtFound /\ elf # Nothing
    /\ export' = [elf |-> elf, rootfs |-> rootfs, firmware |-> firmware, dt |-> make.config.dtb]
    /\ time' = [time EXCEPT !["export"] = clock + 1]
    /\ Done("export")
    /\ UNCHANGED <<stamp, workspace, cache, elf, rootfs, firmware, dt, tried>>

\* The variants have build directories of their own, and a dt each.
ExportPackaged ==
    /\ suite = "spec2017"
    /\ Runs("export")
    /\ Package("export")
    /\ export' = [elf |-> BuiltElf, rootfs |-> Packaged,
                  firmware |-> [rootfs |-> Packaged, dtb |-> make.config.dtb],
                  dt |-> make.config.dtb]
    /\ Done("export")
    /\ UNCHANGED <<stamp, workspace, rootfs, firmware, dt, tried>>

Failed(x) == make' = [make EXCEPT !.state = "idle", !.exit = "failed"] /\ done' = {}

\* The script begins with rm -rf of the workspace, and records the ISO before
\* it is finished.
FailPrepare ==
    /\ Runs("iso")
    /\ failures < MaxFailures /\ failures' = failures + 1
    /\ Failed("iso")
    /\ \E i \in {make.config.iso, Nothing} : workspace' = [iso |-> i, whole |-> FALSE]
    /\ tried' = [tried EXCEPT !["iso"] = make.config.iso]
    /\ UNCHANGED <<suite, clock, stamp, time, cache, elf, rootfs, firmware, dt, export, makes>>

\* build_elf may have got to where it clears the cache, or to its end, and the
\* ELF may have been copied, when the recipe fails.  In an unfinished workspace
\* it needs no other reason.
FailPackage(t) ==
    /\ t \in {"elf", "rootfs"} \/ (t = "export" /\ suite = "spec2017")
    /\ Runs(t)
    /\ IF workspace.whole
       THEN failures < MaxFailures /\ failures' = failures + 1
       ELSE UNCHANGED failures
    /\ Failed(t)
    /\ \/ UNCHANGED <<clock, time, cache, elf>>
       \/ /\ ~Hit
          /\ cache' = [cache EXCEPT ![make.config.tune] = Nothing]
          /\ UNCHANGED <<clock, time, elf>>
       \/ /\ Build /\ UNCHANGED <<time, elf>>
          /\ clock' = clock + 1
       \/ /\ Package("elf")
          /\ clock' = clock + 1
    /\ UNCHANGED <<suite, stamp, workspace, rootfs, firmware, dt, export, tried, makes>>

\* A check refuses the image, before or after the device tree is built.
FailFirmware ==
    /\ Runs("firmware")
    /\ failures < MaxFailures /\ failures' = failures + 1
    /\ Failed("firmware")
    /\ dt' \in {dt, Nothing, make.config.dtb}
    /\ UNCHANGED <<suite, clock, stamp, time, workspace, cache, elf, rootfs, firmware,
                   export, tried, makes>>

FailExport ==
    /\ suite # "spec2017"
    /\ Runs("export")
    /\ ~(DtFound /\ elf # Nothing)
    /\ Failed("export")
    /\ UNCHANGED <<suite, makes, failures>>
    /\ UNCHANGED files

Exit ==
    /\ make.state = "building"
    /\ Closure(make.config.goal) \subseteq done
    /\ make' = [make EXCEPT !.state = "idle", !.exit = "ok"]
    /\ UNCHANGED <<suite, done, makes, failures>>
    /\ UNCHANGED files

Stop == make.state = "idle" /\ makes = MaxMakes /\ UNCHANGED vars

Next ==
    \/ \E c \in Configs : Start(c)
    \/ Keep
    \/ \E k \in Kinds : MakeStamp(k)
    \/ BuildElf \/ BuildRootfs \/ BuildFirmware \/ ExportBuilt \/ ExportPackaged
    \/ FailPrepare \/ FailFirmware \/ FailExport
    \/ \E t \in Targets : FailPackage(t)
    \/ Exit
    \/ Stop

Spec == Init /\ [][Next]_vars

-----------------------------------------------------------------------------
(* Properties *)

\* The goal depends on a stamp of this kind, whose recipe removes the others,
\* or which is the one written last, and no make for another has come between.
Fresh(k) ==
    /\ k \in Closure(make.config.goal)
    /\ k \in Replaced \/ tried[k] = StandsFor(k, make.config)

ElfRight(e) ==
    /\ Fresh("cfg") => e.cfg = make.config.cfg
    /\ Fresh("vars") => e.tune = make.config.tune
    /\ Fresh("iso") /\ suite = "spec2017" => e.iso = make.config.iso

RootfsRight(r) ==
    /\ ElfRight(r.elf)
    /\ Fresh("vars") => r.input = make.config.input
    /\ Fresh("iso") => r.from = [iso |-> make.config.iso, whole |-> TRUE]

FirmwareRight(f) ==
    /\ RootfsRight(f.rootfs)
    /\ Fresh("dtb") => f.dtb = make.config.dtb

\* When make says it is done, what was asked for is there and was made for
\* the command line, whatever was built or failed before: also after command
\* lines that have gone back to an earlier value, in so far as the recipes of
\* the stamps remove the others; else only as far as its stamps are the last
\* ones written of their kinds, and not asked for after a make for another
\* value.  The cached ELF may come from another ISO in spec2006 and spec2026,
\* whose metadata does not say which.
MadeForCommandLine ==
    make.exit = "ok" =>
        CASE make.config.goal = "elf" -> elf # Nothing /\ ElfRight(elf)
          [] make.config.goal = "firmware" -> firmware # Nothing /\ FirmwareRight(firmware)
          [] make.config.goal = "export" ->
               export # Nothing /\ FirmwareRight(export.firmware)

\* Files that are exported together belong together: the firmware holds the
\* device tree and the rootfs next to it, even where the build directory was
\* left by builds that failed or were for another command line.  So does the
\* rootfs the ELF: always in spec2017, which packages anew, else if the stamps
\* are the last ones; and in spec2006 if the ELF is of the tune asked for,
\* since an ELF of another tune counts there as new, or is not made again.
ExportedTogether ==
    export # Nothing =>
        /\ export.firmware = [rootfs |-> export.rootfs, dtb |-> export.dt]
        /\ (/\ make.config.goal = "export" /\ make.exit = "ok"
            /\ suite # "spec2017" => Fresh("cfg") /\ Fresh("vars")
            /\ suite = "spec2006" => export.elf.tune = make.config.tune)
             => export.elf = export.rootfs.elf

=============================================================================
