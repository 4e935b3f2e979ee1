---------------------------- MODULE SpecRulesProofs ----------------------------
(***************************************************************************)
(* Proofs about SpecRules, for any command lines and any bounds; then      *)
(* about X264Inputs, for any cases and any workspaces.                     *)
(***************************************************************************)
EXTENDS SpecRules, X264Inputs, TLAPS

Value(k) == StandsFor(k, make.config)

Types ==
    /\ suite \in {"spec2006", "spec2017", "spec2026"}
    /\ make \in [state : {"idle", "building"}, config : Configs, exit : {"none", "ok", "failed"}]
    /\ clock \in Nat
    /\ DOMAIN stamp = Kinds
    /\ \A k \in Kinds : stamp[k] \in [Values(k) -> 0..clock]
    /\ time \in [Targets -> 0..clock]
    /\ DOMAIN tried = Kinds
    /\ \A k \in Kinds : tried[k] \in Values(k) \cup {Nothing}
    /\ workspace \in Workspaces \cup {Nothing}
    /\ cache \in [Field("tune") -> Caches \cup {Nothing}]
    /\ elf \in Elves \cup {Nothing} /\ rootfs \in Rootfses \cup {Nothing}
    /\ firmware \in Firmwares \cup {Nothing} /\ dt \in Field("dtb") \cup {Nothing}
    /\ export \in Exports \cup {Nothing}

\* What has a time is there.
ThereIf ==
    /\ time["elf"] > 0 => elf # Nothing
    /\ time["rootfs"] > 0 => rootfs # Nothing
    /\ time["firmware"] > 0 => firmware # Nothing /\ rootfs # Nothing
    /\ \A i \in Values("iso") : stamp["iso"][i] > 0 => workspace # Nothing

\* What make has brought up to date depends on nothing that is newer: but for an
\* ELF of the cache, which is as old as it is.
DoneUpToDate ==
    /\ done \subseteq Closure(make.config.goal)
    /\ \A k \in Kinds \cap done : stamp[k][Value(k)] > 0
    /\ \A t \in Targets \cap done :
           /\ Needs(t) \subseteq done /\ time[t] > 0
           /\ t # "elf" => \A x \in Needs(t) : Written(x) <= time[t]
    /\ make.exit = "ok" => make.state = "idle" /\ Closure(make.config.goal) \subseteq done

\* While a make runs, a stamp that it depends on was last tried for its value,
\* or nothing is known of it.
TriedSound == \A k \in Closure(make.config.goal) \cap Kinds : tried[k] \in {Value(k), Nothing}

\* Where the recipe of a stamp removes the others, there is one.
StampsUnique ==
    \A k \in Replaced : \A v, w \in Values(k) : stamp[k][v] > 0 /\ stamp[k][w] > 0 => v = w

\* The stamp for d is there, what is made after it is made for d, and t is.
Follows(t, k, d) ==
    LET v == StandsFor(k, d)
    IN  stamp[k][v] > 0 /\ stamp[k][v] <= time[t] /\ (k \in Replaced \/ tried[k] = v)

WorkspaceSound ==
    \A i \in Values("iso") :
        stamp["iso"][i] > 0 /\ tried["iso"] = i => workspace = [iso |-> i, whole |-> TRUE]

\* A cached ELF is what its metadata say, of the tune it is kept for.
CacheSound ==
    \A u \in Field("tune") : cache[u] # Nothing =>
        /\ cache[u].time \in 1..clock
        /\ cache[u].elf.cfg = cache[u].meta.cfg
        /\ cache[u].elf.tune = u /\ cache[u].meta.tune = u
        /\ suite = "spec2017" => cache[u].elf.iso = cache[u].meta.iso

\* What is newer than a stamp was made for it.
ElfSound ==
    \A d \in Configs : time["elf"] > 0 =>
        /\ Follows("elf", "cfg", d) => elf.cfg = d.cfg
        /\ suite # "spec2006" /\ Follows("elf", "vars", d) => elf.tune = d.tune
        /\ suite = "spec2017" /\ Follows("elf", "iso", d) => elf.iso = d.iso

RootfsSound ==
    \A d \in Configs : time["rootfs"] > 0 =>
        /\ Follows("rootfs", "cfg", d) => rootfs.elf.cfg = d.cfg
        /\ Follows("rootfs", "vars", d) => rootfs.elf.tune = d.tune /\ rootfs.input = d.input
        /\ Follows("rootfs", "iso", d) =>
             /\ rootfs.from = [iso |-> d.iso, whole |-> TRUE]
             /\ suite = "spec2017" => rootfs.elf.iso = d.iso

\* So was the firmware; and one that is not out of date holds the rootfs and
\* the device tree that are there.
FirmwareSound ==
    time["firmware"] > 0 =>
        /\ \A d \in Configs : Follows("firmware", "dtb", d) => firmware.dtb = d.dtb
        /\ time["rootfs"] <= time["firmware"] =>
             /\ firmware.rootfs = rootfs
             /\ \A d \in Configs :
                    dt = d.dtb /\ stamp["dtb"][dt] \in 1..time["firmware"] => firmware.dtb = dt

\* As long as no command line has asked for another rootfs, its ELF stays in the
\* cache, and is the ELF of the case: but where an ELF of another tune has been
\* made, which does not ask for another rootfs in spec2006.
ElfKept ==
    \A d \in Configs :
        (/\ suite # "spec2017" /\ time["rootfs"] > 0
         /\ Follows("rootfs", "cfg", d) /\ Follows("rootfs", "vars", d))
        => /\ cache[d.tune] # Nothing /\ cache[d.tune].elf = rootfs.elf
           /\ cache[d.tune].meta = [cfg |-> d.cfg, tune |-> d.tune, iso |-> Nothing]
           /\ (suite = "spec2006" => elf.tune = d.tune) => elf = rootfs.elf

\* The ELF that make was asked for is of the command line, old as it may be.
ElfDone == "elf" \in done => elf # Nothing /\ ElfRight(elf)

\* What has been exported is the firmware that is up to date, with its parts.
ExportSound ==
    /\ export # Nothing => export.firmware = [rootfs |-> export.rootfs, dtb |-> export.dt]
    /\ make.config.goal = "export" /\ make.state = "building" /\ "export" \notin done =>
           time["export"] = 0
    /\ "export" \in done =>
           /\ export # Nothing /\ FirmwareRight(export.firmware)
           /\ (/\ suite # "spec2017" => Fresh("cfg") /\ Fresh("vars")
               /\ suite = "spec2006" => export.elf.tune = make.config.tune)
                => export.elf = export.rootfs.elf

IInv ==
    /\ Types
    /\ ThereIf
    /\ DoneUpToDate
    /\ TriedSound
    /\ StampsUnique
    /\ WorkspaceSound
    /\ CacheSound
    /\ ElfSound
    /\ RootfsSound
    /\ FirmwareSound
    /\ ElfKept
    /\ ElfDone
    /\ ExportSound

-----------------------------------------------------------------------------
(* The rules *)

\* The kinds of stamps.
LEMMA KindsAre == Kinds = {"iso", "cfg", "vars", "dtb"}
<1>1. DOMAIN Listed = 1..4
  BY DEF Listed
<1>2. Listed[1] = "iso" /\ Listed[2] = "cfg" /\ Listed[3] = "vars" /\ Listed[4] = "dtb"
  BY DEF Listed
<1>3. \A i \in 1..4 : i = 1 \/ i = 2 \/ i = 3 \/ i = 4
  OBVIOUS
<1>. QED  BY <1>1, <1>2, <1>3 DEF Kinds

\* What stamps stand for, and that this is never nothing.
LEMMA ValuesOf ==
    /\ \A k \in Kinds, c \in Configs : StandsFor(k, c) \in Values(k)
    /\ \A k \in Kinds : Nothing \notin Values(k)
    /\ \A k \in Kinds : \A v \in Values(k) : \E c \in Configs : v = StandsFor(k, c)
<1>1. \A k \in Kinds, c \in Configs : StandsFor(k, c) \in Values(k)
  BY DEF Values
<1>2. \A c \in Configs : /\ c.iso # Nothing /\ c.cfg # Nothing /\ c.dtb # Nothing
                         /\ <<c.tune, c.input>> # Nothing
  BY NothingAssumption DEF Field
<1>3. \A k \in Kinds, c \in Configs : StandsFor(k, c) # Nothing
  BY <1>2, KindsAre DEF StandsFor
<1>. QED  BY <1>1, <1>3 DEF Values

\* The fields of a command line.
LEMMA FieldsOf ==
    \A c \in Configs : /\ c.iso \in Field("iso") /\ c.cfg \in Field("cfg") /\ c.tune \in Field("tune")
                       /\ c.input \in Field("input") /\ c.dtb \in Field("dtb")
                       /\ c.goal \in {"elf", "firmware", "export"}
  BY ConfigsAssumption DEF Field

\* What a target needs is among what make has to bring up to date.
LEMMA ClosureOf ==
    ASSUME suite \in {"spec2006", "spec2017", "spec2026"}, NEW g \in {"elf", "firmware", "export"}
    PROVE  /\ g \in Closure(g) /\ Closure(g) \subseteq Kinds \cup Targets
           /\ \A t \in Targets \cap Closure(g) : Needs(t) \subseteq Closure(g)
           /\ "export" \in Closure(g) => g = "export"
           /\ "elf" \in Closure(g) => g = "elf"
  BY KindsAre DEF Closure, Needs, Targets

\* What one that packages needs.
LEMMA PackagersNeed ==
    ASSUME suite \in {"spec2006", "spec2017", "spec2026"},
           NEW t \in {"elf", "rootfs", "export"}, t = "export" => suite = "spec2017"
    PROVE  /\ {"iso", "cfg"} \subseteq Needs(t)
           /\ suite # "spec2006" \/ t # "elf" => "vars" \in Needs(t)
           /\ Needs(t) \subseteq Kinds
  BY KindsAre DEF Needs

\* The recipe of a target runs when its prerequisites are up to date.
LEMMA NeedsDone ==
    ASSUME Types, DoneUpToDate, TriedSound, NEW t \in Targets, Due(t)
    PROVE  /\ make.state = "building" /\ t \in Closure(make.config.goal) /\ t \notin done
           /\ Needs(t) \subseteq done
           /\ \A k \in Kinds \cap Needs(t) : stamp[k][Value(k)] > 0 /\ tried[k] \in {Value(k), Nothing}
<1>1. make.config.goal \in {"elf", "firmware", "export"}
  BY FieldsOf DEF Types
<1>2. Needs(t) \subseteq Closure(make.config.goal)
  BY <1>1, ClosureOf DEF Types, Due
<1>. QED  BY <1>2 DEF Due, DoneUpToDate, TriedSound

\* Where a stamp is up to date, another one counts only for the same value.
LEMMA OneCounts ==
    ASSUME Types, StampsUnique, NEW k \in Kinds, stamp[k][Value(k)] > 0,
           tried[k] \in {Value(k), Nothing},
           NEW d \in Configs, stamp[k][StandsFor(k, d)] > 0, k \in Replaced \/ tried[k] = StandsFor(k, d)
    PROVE  StandsFor(k, d) = Value(k)
<1>1. make.config \in Configs
  BY DEF Types
<1>. QED  BY <1>1, ValuesOf DEF StampsUnique, Value

\* What writing a stamp does.
LEMMA StampWritten ==
    ASSUME Types, NEW k \in Kinds, MakeStamp(k)
    PROVE  /\ make.state = "building" /\ k \in Closure(make.config.goal) \ done
           /\ stamp[k][Value(k)] = 0
           /\ done' = done \cup {k} /\ clock' = clock + 1
           /\ DOMAIN stamp' = Kinds /\ DOMAIN tried' = Kinds
           /\ stamp'[k] = [v \in Values(k) |-> IF v = Value(k) THEN clock + 1
                                               ELSE IF k \in Replaced THEN 0 ELSE stamp[k][v]]
           /\ tried'[k] = Value(k)
           /\ \A j \in Kinds \ {k} : stamp'[j] = stamp[j] /\ tried'[j] = tried[j]
           /\ UNCHANGED <<suite, make, time, cache, elf, rootfs, firmware, dt, export>>
<1>1. Due(k) /\ ~UpToDate(k)
  BY DEF MakeStamp, Runs
<1>2. stamp[k][Value(k)] = 0
  BY <1>1, ValuesOf DEF UpToDate, Written, Value, Types
<1>. QED  BY <1>1, <1>2 DEF MakeStamp, Due, Done, Value, Types

\* The ELF that is packaged is of the command line, as far as its metadata say.
LEMMA BuiltElfIs ==
    ASSUME Types, ThereIf, CacheSound, stamp["iso"][Value("iso")] > 0
    PROVE  /\ workspace \in Workspaces /\ workspace # Nothing
           /\ Metadata \in Elves /\ BuiltElf \in Elves
           /\ Metadata.cfg = make.config.cfg /\ Metadata.tune = make.config.tune
           /\ suite = "spec2017" => Metadata.iso = workspace.iso
           /\ suite # "spec2017" => Metadata.iso = Nothing
           /\ BuiltElf.cfg = make.config.cfg /\ BuiltElf.tune = make.config.tune
           /\ suite = "spec2017" => BuiltElf.iso = workspace.iso
<1>1. workspace \in Workspaces /\ make.config \in Configs
  BY ValuesOf, KindsAre DEF Types, ThereIf, Value
<1>2. workspace.iso \in Field("iso") \cup {Nothing}
  BY <1>1 DEF Workspaces
<1>3. Metadata \in Elves
  BY <1>1, <1>2, FieldsOf DEF Metadata, Elves
<1>4. BuiltElf \in Elves
  <2>1. CASE Hit
    <3>1. Cached \in Caches
      BY <1>1, <2>1, FieldsOf DEF Hit, Cached, Types
    <3>. QED  BY <2>1, <3>1 DEF BuiltElf, Caches
  <2>2. CASE ~Hit
    BY <1>1, <1>2, <2>2, FieldsOf DEF BuiltElf, Elves
  <2>. QED  BY <2>1, <2>2
<1>5. /\ Metadata.cfg = make.config.cfg /\ Metadata.tune = make.config.tune
      /\ Metadata.iso = IF suite = "spec2017" THEN workspace.iso ELSE Nothing
  BY DEF Metadata
<1>6. make.config.tune \in Field("tune")
  BY <1>1, FieldsOf
<1>7. CASE Hit
  <2>1. /\ BuiltElf = Cached.elf /\ Cached.meta = Metadata
        /\ Cached.elf.cfg = Cached.meta.cfg /\ Cached.elf.tune = make.config.tune
        /\ suite = "spec2017" => Cached.elf.iso = Cached.meta.iso
    BY <1>6, <1>7 DEF Hit, Cached, BuiltElf, CacheSound
  <2>. QED  BY <1>1, <1>3, <1>4, <1>5, <2>1, NothingAssumption
<1>8. CASE ~Hit
  BY <1>1, <1>3, <1>4, <1>5, <1>8, NothingAssumption DEF BuiltElf
<1>. QED  BY <1>7, <1>8

\* It is as old as the cached one, or new.
LEMMA BuiltAtIs ==
    ASSUME Types, CacheSound
    PROVE  BuiltAt \in 1..(clock + 1)
<1>1. make.config.tune \in Field("tune") /\ clock \in Nat
  BY FieldsOf DEF Types
<1>2. Hit => Cached.time \in 1..clock
  BY <1>1 DEF Hit, Cached, CacheSound
<1>. QED  BY <1>1, <1>2 DEF BuiltAt

\* A recipe that packages also writes the ELF of the case.
LEMMA PackageTimes ==
    ASSUME Types, NEW t \in Targets, Package(t)
    PROVE  /\ time'["elf"] = BuiltAt
           /\ t # "elf" => time'[t] = clock + 1
           /\ \A u \in Targets \ {"elf", t} : time'[u] = time[u]
           /\ CacheSound => time' \in [Targets -> 0..(clock + 1)]
<1>1. "elf" \in Targets /\ time \in [Targets -> 0..clock] /\ clock \in Nat
  BY DEF Targets, Types
<1>2. time' = [time EXCEPT ![t] = clock + 1, !["elf"] = BuiltAt]
  BY DEF Package
<1>3. ASSUME CacheSound PROVE time' \in [Targets -> 0..(clock + 1)]
  <2>1. BuiltAt \in 0..(clock + 1) /\ clock + 1 \in 0..(clock + 1)
    BY <1>1, <1>3, BuiltAtIs
  <2>2. time \in [Targets -> 0..(clock + 1)]
    BY <1>1
  <2>. QED  BY <1>2, <2>1, <2>2
<1>. QED  BY <1>1, <1>2, <1>3

\* What build_elf leaves in the cache.
LEMMA BuildWrites ==
    ASSUME Types, ThereIf, CacheSound, stamp["iso"][Value("iso")] > 0, Build
    PROVE  /\ cache' \in [Field("tune") -> Caches \cup {Nothing}]
           /\ cache'[make.config.tune] \in Caches /\ cache'[make.config.tune] # Nothing
           /\ cache'[make.config.tune].meta = Metadata /\ cache'[make.config.tune].elf = BuiltElf
           /\ cache'[make.config.tune].time = BuiltAt
           /\ \A u \in Field("tune") \ {make.config.tune} : cache'[u] = cache[u]
<1>. DEFINE entry == [meta |-> Metadata, elf |-> BuiltElf, time |-> BuiltAt]
<1>1. Metadata \in Elves /\ BuiltElf \in Elves /\ BuiltAt \in Nat
  <2>1. BuiltAt \in 1..(clock + 1) /\ clock \in Nat
    BY BuiltAtIs DEF Types
  <2>. QED  BY <2>1, BuiltElfIs
<1>2. entry \in Caches /\ entry # Nothing
  BY <1>1, NothingAssumption DEF Caches
<1>3. entry.meta = Metadata /\ entry.elf = BuiltElf /\ entry.time = BuiltAt
  OBVIOUS
<1>4. cache' = [cache EXCEPT ![make.config.tune] = entry]
  BY DEF Build
<1>5. make.config.tune \in Field("tune") /\ cache \in [Field("tune") -> Caches \cup {Nothing}]
  BY FieldsOf DEF Types
<1>. HIDE DEF entry
<1>6. /\ cache'[make.config.tune] = entry
      /\ \A u \in Field("tune") \ {make.config.tune} : cache'[u] = cache[u]
      /\ cache' \in [Field("tune") -> Caches \cup {Nothing}]
  BY <1>2, <1>4, <1>5
<1>. QED  BY <1>2, <1>3, <1>6

\* What is packaged.
LEMMA PackagedIs ==
    ASSUME Types, ThereIf, CacheSound, stamp["iso"][Value("iso")] > 0
    PROVE  /\ Packaged \in Rootfses /\ Packaged # Nothing
           /\ Packaged.elf = BuiltElf /\ Packaged.from = workspace
           /\ Packaged.input = make.config.input
<1>1. BuiltElf \in Elves /\ workspace \in Workspaces /\ make.config.input \in Field("input")
  BY BuiltElfIs, FieldsOf DEF Types
<1>. QED  BY <1>1, NothingAssumption DEF Packaged, Rootfses

-----------------------------------------------------------------------------
(* Who writes what *)

\* The recipe of t runs, and will call build_elf.
Packager(t) ==
    /\ t \in {"elf", "rootfs", "export"} /\ (t = "export" => suite = "spec2017")
    /\ Due(t) /\ OutOfDate(t)

\* It has returned, and the ELF has been copied.
Packaging(t) ==
    /\ Packager(t)
    /\ Build
    /\ elf' = BuiltElf
    /\ time'["elf"] = BuiltAt
    /\ clock' = clock + 1
    /\ make'.config = make.config
    /\ UNCHANGED <<suite, stamp, workspace, tried>>

\* It has cleared what it does not reuse.
Clear == ~Hit /\ cache' = [cache EXCEPT ![make.config.tune] = Nothing]

\* The recipe has failed after that, or after the ELF was put in the cache.
Stopping ==
    /\ \E t \in {"elf", "rootfs", "export"} : Packager(t)
    /\ \/ Build /\ clock' = clock + 1
       \/ Clear /\ clock' = clock
    /\ UNCHANGED <<suite, stamp, tried>>

\* A recipe runs when its target is out of date.
LEMMA RunsTarget ==
    ASSUME NEW t \in Targets, Runs(t)
    PROVE  Due(t) /\ OutOfDate(t)
<1>1. t \notin Kinds
  BY KindsAre DEF Targets
<1>. QED  BY <1>1 DEF Runs, UpToDate

\* Who writes the ELF writes the cache; a recipe that fails may have changed the
\* cache only.
LEMMA ElfWritten ==
    ASSUME Types, [Next]_vars
    PROVE  \/ \E t \in Targets : Packaging(t)
           \/ /\ elf' = elf /\ time'["elf"] = time["elf"]
              /\ cache' = cache \/ Stopping
<1>. DEFINE Goal ==
           \/ \E t \in Targets : Packaging(t)
           \/ /\ elf' = elf /\ time'["elf"] = time["elf"]
              /\ cache' = cache \/ Stopping
<1>1. ASSUME NEW c \in Configs, Start(c) PROVE Goal
  BY <1>1 DEF Types, Start
<1>2. ASSUME Keep PROVE Goal
  BY <1>2 DEF Types, Keep, files
<1>3. ASSUME NEW k \in Kinds, MakeStamp(k) PROVE Goal
  BY <1>3 DEF Types, MakeStamp, Done
<1>4. ASSUME BuildElf PROVE Goal
  <2>1. Due("elf") /\ OutOfDate("elf") /\ "elf" \in Targets
    BY <1>4, RunsTarget DEF BuildElf, Targets
  <2>2. time'["elf"] = BuiltAt
    BY <1>4, <2>1, PackageTimes DEF BuildElf
  <2>3. Packaging("elf")
    BY <1>4, <2>1, <2>2 DEF BuildElf, Package, Packager, Packaging, Done
  <2>. QED  BY <2>1, <2>3
<1>5. ASSUME BuildRootfs PROVE Goal
  <2>1. Due("rootfs") /\ OutOfDate("rootfs") /\ "rootfs" \in Targets
    BY <1>5, RunsTarget DEF BuildRootfs, Targets
  <2>2. time'["elf"] = BuiltAt
    BY <1>5, <2>1, PackageTimes DEF BuildRootfs
  <2>3. Packaging("rootfs")
    BY <1>5, <2>1, <2>2 DEF BuildRootfs, Package, Packager, Packaging, Done
  <2>. QED  BY <2>1, <2>3
<1>6. ASSUME BuildFirmware PROVE Goal
  BY <1>6 DEF Types, BuildFirmware, Done
<1>7. ASSUME ExportBuilt PROVE Goal
  BY <1>7 DEF Types, ExportBuilt, Done
<1>8. ASSUME ExportPackaged PROVE Goal
  <2>1. Due("export") /\ OutOfDate("export") /\ "export" \in Targets
    BY <1>8, RunsTarget DEF ExportPackaged, Targets
  <2>2. time'["elf"] = BuiltAt
    BY <1>8, <2>1, PackageTimes DEF ExportPackaged
  <2>3. Packaging("export")
    BY <1>8, <2>1, <2>2 DEF ExportPackaged, Package, Packager, Packaging, Done
  <2>. QED  BY <2>1, <2>3
<1>9. ASSUME FailPrepare PROVE Goal
  BY <1>9 DEF Types, FailPrepare, Failed
<1>10. ASSUME NEW t \in Targets, FailPackage(t) PROVE Goal
  <2>1. Due(t) /\ OutOfDate(t) /\ "elf" \in Targets
    BY <1>10, RunsTarget DEF FailPackage, Targets
  <2>2. t \in {"elf", "rootfs", "export"} /\ (t = "export" => suite = "spec2017")
    BY <1>10 DEF FailPackage
  <2>3. make'.config = make.config
    BY <1>10 DEF FailPackage, Failed, Types
  <2>4. Packager(t)
    BY <2>1, <2>2 DEF Packager
  <2>5. CASE UNCHANGED <<clock, time, cache, elf>>
    BY <2>5
  <2>6. CASE Clear /\ UNCHANGED <<clock, time, elf>>
    BY <1>10, <2>2, <2>4, <2>6 DEF Stopping, FailPackage
  <2>7. CASE Build /\ UNCHANGED <<time, elf>> /\ clock' = clock + 1
    BY <1>10, <2>2, <2>4, <2>7 DEF Stopping, FailPackage
  <2>8. CASE Package("elf") /\ clock' = clock + 1
    <3>1. time'["elf"] = BuiltAt
      BY <2>1, <2>8, PackageTimes
    <3>2. Packaging(t)
      BY <1>10, <2>3, <2>4, <2>8, <3>1 DEF Packaging, Package, FailPackage
    <3>. QED  BY <3>2
  <2>. QED  BY <1>10, <2>5, <2>6, <2>7, <2>8 DEF FailPackage, Clear
<1>11. ASSUME FailFirmware PROVE Goal
  BY <1>11 DEF Types, FailFirmware, Failed
<1>12. ASSUME FailExport PROVE Goal
  BY <1>12 DEF Types, FailExport, files, Failed
<1>13. ASSUME Exit PROVE Goal
  BY <1>13 DEF Types, Exit, files
<1>14. ASSUME Stop \/ UNCHANGED vars PROVE Goal
  BY <1>14 DEF Types, Stop, vars
<1>. QED  BY <1>1, <1>2, <1>3, <1>4, <1>5, <1>6, <1>7, <1>8, <1>9, <1>10, <1>11, <1>12, <1>13,
      <1>14 DEF Next

\* Only its own rule writes a rootfs, and a firmware.
LEMMA ProductsWritten ==
    ASSUME Types, [Next]_vars
    PROVE  /\ BuildRootfs \/ (rootfs' = rootfs /\ time'["rootfs"] = time["rootfs"])
           /\ BuildFirmware \/ (firmware' = firmware /\ time'["firmware"] = time["firmware"])
           /\ BuildFirmware \/ FailFirmware \/ dt' = dt
           /\ suite' = suite
<1>. DEFINE Goal ==
           /\ BuildRootfs \/ (rootfs' = rootfs /\ time'["rootfs"] = time["rootfs"])
           /\ BuildFirmware \/ (firmware' = firmware /\ time'["firmware"] = time["firmware"])
           /\ BuildFirmware \/ FailFirmware \/ dt' = dt
           /\ suite' = suite
<1>1. ASSUME NEW c \in Configs, Start(c) PROVE Goal
  BY <1>1 DEF Types, Start
<1>2. ASSUME Keep PROVE Goal
  BY <1>2 DEF Types, Keep, files
<1>3. ASSUME NEW k \in Kinds, MakeStamp(k) PROVE Goal
  BY <1>3 DEF Types, MakeStamp, Done
<1>4. ASSUME BuildElf PROVE Goal
  <2>1. \A u \in Targets \ {"elf", "elf"} : time'[u] = time[u]
    BY <1>4, PackageTimes DEF BuildElf, Targets
  <2>. QED  BY <1>4, <2>1 DEF BuildElf, Done, Targets
<1>5. ASSUME BuildRootfs PROVE Goal
  <2>1. \A u \in Targets \ {"elf", "rootfs"} : time'[u] = time[u]
    BY <1>5, PackageTimes DEF BuildRootfs, Targets
  <2>. QED  BY <1>5, <2>1 DEF BuildRootfs, Done, Targets
<1>6. ASSUME BuildFirmware PROVE Goal
  BY <1>6 DEF Types, BuildFirmware, Done
<1>7. ASSUME ExportBuilt PROVE Goal
  BY <1>7 DEF Types, ExportBuilt, Done
<1>8. ASSUME ExportPackaged PROVE Goal
  <2>1. \A u \in Targets \ {"elf", "export"} : time'[u] = time[u]
    BY <1>8, PackageTimes DEF ExportPackaged, Targets
  <2>. QED  BY <1>8, <2>1 DEF ExportPackaged, Done, Targets
<1>9. ASSUME FailPrepare PROVE Goal
  BY <1>9 DEF Types, FailPrepare, Failed
<1>10. ASSUME NEW t \in Targets, FailPackage(t) PROVE Goal
  <2>1. time' = time \/ Package("elf")
    BY <1>10 DEF FailPackage
  <2>2. \A u \in Targets \ {"elf"} : time'[u] = time[u]
    BY <2>1, PackageTimes DEF Targets
  <2>. QED  BY <1>10, <2>2 DEF FailPackage, Targets
<1>11. ASSUME FailFirmware PROVE Goal
  BY <1>11 DEF Types, FailFirmware, Failed
<1>12. ASSUME FailExport PROVE Goal
  BY <1>12 DEF Types, FailExport, files, Failed
<1>13. ASSUME Exit PROVE Goal
  BY <1>13 DEF Types, Exit, files
<1>14. ASSUME Stop \/ UNCHANGED vars PROVE Goal
  BY <1>14 DEF Types, Stop, vars
<1>. QED  BY <1>1, <1>2, <1>3, <1>4, <1>5, <1>6, <1>7, <1>8, <1>9, <1>10, <1>11, <1>12, <1>13,
      <1>14 DEF Next

\* Who writes stamps and the workspace, and what is known of them.
LEMMA StampsWritten ==
    ASSUME Types, [Next]_vars
    PROVE  \/ \E k \in Kinds : MakeStamp(k)
           \/ /\ stamp' = stamp
              /\ \/ FailPrepare
                 \/ /\ workspace' = workspace
                    /\ tried' = tried \/ \E c \in Configs : Start(c)
<1>. DEFINE Goal ==
           \/ \E k \in Kinds : MakeStamp(k)
           \/ /\ stamp' = stamp
              /\ \/ FailPrepare
                 \/ /\ workspace' = workspace
                    /\ tried' = tried \/ \E c \in Configs : Start(c)
<1>1. ASSUME NEW c \in Configs, Start(c) PROVE Goal
  BY <1>1 DEF Types, Start
<1>2. ASSUME Keep PROVE Goal
  BY <1>2 DEF Types, Keep, files
<1>3. ASSUME NEW k \in Kinds, MakeStamp(k) PROVE Goal
  BY <1>3 DEF Types, MakeStamp, Done
<1>4. ASSUME BuildElf PROVE Goal
  BY <1>4 DEF Types, BuildElf, Done, Package
<1>5. ASSUME BuildRootfs PROVE Goal
  BY <1>5 DEF Types, BuildRootfs, Done, Package
<1>6. ASSUME BuildFirmware PROVE Goal
  BY <1>6 DEF Types, BuildFirmware, Done
<1>7. ASSUME ExportBuilt PROVE Goal
  BY <1>7 DEF Types, ExportBuilt, Done
<1>8. ASSUME ExportPackaged PROVE Goal
  BY <1>8 DEF Types, ExportPackaged, Done, Package
<1>9. ASSUME FailPrepare PROVE Goal
  BY <1>9 DEF Types, FailPrepare, Failed
<1>10. ASSUME NEW t \in Targets, FailPackage(t) PROVE Goal
  BY <1>10 DEF Types, FailPackage, Package, Failed
<1>11. ASSUME FailFirmware PROVE Goal
  BY <1>11 DEF Types, FailFirmware, Failed
<1>12. ASSUME FailExport PROVE Goal
  BY <1>12 DEF Types, FailExport, files, Failed
<1>13. ASSUME Exit PROVE Goal
  BY <1>13 DEF Types, Exit, files
<1>14. ASSUME Stop \/ UNCHANGED vars PROVE Goal
  BY <1>14 DEF Types, Stop, vars
<1>. QED  BY <1>1, <1>2, <1>3, <1>4, <1>5, <1>6, <1>7, <1>8, <1>9, <1>10, <1>11, <1>12, <1>13,
      <1>14 DEF Next

\* What does not write a target leaves the stamps that it followed as they are.
LEMMA FollowsStep ==
    ASSUME Types, [Next]_vars, NEW t \in Targets, time'[t] = time[t],
           NEW k \in Kinds, NEW d \in Configs, Follows(t, k, d)'
    PROVE  Follows(t, k, d)
<1>. DEFINE v == StandsFor(k, d)
<1>1. v \in Values(k) /\ time[t] <= clock /\ time[t] \in Nat /\ clock \in Nat /\ v # Nothing
  BY ValuesOf DEF Types
<1>2. suite' = suite /\ Replaced' = Replaced
  BY ProductsWritten DEF Replaced
<1>3. stamp'[k][v] > 0 /\ stamp'[k][v] <= time[t] /\ (k \in Replaced \/ tried'[k] = v)
  BY <1>2 DEF Follows
<1>4. ASSUME NEW j \in Kinds, MakeStamp(j) PROVE Follows(t, k, d)
  <2>1. CASE j # k
    BY <1>3, <1>4, <2>1, StampWritten DEF Follows
  <2>2. CASE j = k
    <3>1. stamp'[k][v] = IF v = Value(k) THEN clock + 1 ELSE IF k \in Replaced THEN 0 ELSE stamp[k][v]
      <4>1. stamp'[k] = [w \in Values(k) |-> IF w = Value(k) THEN clock + 1
                                             ELSE IF k \in Replaced THEN 0 ELSE stamp[k][w]]
        BY <1>4, <2>2, StampWritten
      <4>. QED  BY <1>1, <4>1
    <3>2. tried'[k] = Value(k)
      BY <1>4, <2>2, StampWritten
    <3>. QED  BY <1>1, <1>3, <3>1, <3>2 DEF Follows
  <2>. QED  BY <2>1, <2>2
<1>5. ASSUME stamp' = stamp, FailPrepare PROVE Follows(t, k, d)
  <2>1. Due("iso") /\ ~UpToDate("iso") /\ "iso" \in Kinds
    BY <1>5, KindsAre DEF FailPrepare, Runs
  <2>2. stamp["iso"][make.config.iso] \in Nat /\ ~(stamp["iso"][make.config.iso] > 0)
    <3>1. Written("iso") = stamp["iso"][make.config.iso]
      BY <2>1 DEF Written, StandsFor
    <3>2. make.config.iso \in Values("iso")
      BY <2>1, ValuesOf DEF StandsFor, Types
    <3>. QED  BY <2>1, <3>1, <3>2 DEF UpToDate, Types
  <2>3. tried' = [tried EXCEPT !["iso"] = make.config.iso]
    BY <1>5 DEF FailPrepare
  <2>4. CASE k = "iso"
    <3>1. v = d.iso /\ k \notin Replaced
      BY <2>4 DEF StandsFor, Replaced, Types
    <3>. QED  BY <1>3, <1>5, <2>1, <2>2, <2>3, <2>4, <3>1 DEF Types
  <2>5. CASE k # "iso"
    BY <1>3, <1>5, <2>3, <2>5 DEF Follows, Types
  <2>. QED  BY <2>4, <2>5
<1>6. ASSUME stamp' = stamp, NEW c \in Configs, Start(c) PROVE Follows(t, k, d)
  <2>1. tried'[k] \in {tried[k], Nothing}
    BY <1>6 DEF Start
  <2>. QED  BY <1>1, <1>3, <1>6, <2>1 DEF Follows
<1>7. ASSUME stamp' = stamp, tried' = tried PROVE Follows(t, k, d)
  BY <1>3, <1>7 DEF Follows
<1>. QED  BY <1>4, <1>5, <1>6, <1>7, StampsWritten

-----------------------------------------------------------------------------
(* One lemma per part: every step preserves it *)

\* The invocation, and what is known of the stamps.
Control ==
    /\ suite \in {"spec2006", "spec2017", "spec2026"}
    /\ make \in [state : {"idle", "building"}, config : Configs, exit : {"none", "ok", "failed"}]
    /\ DOMAIN tried = Kinds
    /\ \A k \in Kinds : tried[k] \in Values(k) \cup {Nothing}

\* The files but the cache and the ELF.
Products ==
    /\ workspace \in Workspaces \cup {Nothing} /\ rootfs \in Rootfses \cup {Nothing}
    /\ firmware \in Firmwares \cup {Nothing} /\ dt \in Field("dtb") \cup {Nothing}
    /\ export \in Exports \cup {Nothing}

\* The invocation, and what is known of the stamps.
LEMMA StepControl ==
    ASSUME Types, [Next]_vars
    PROVE  Control'
<1>1. ASSUME NEW c \in Configs, Start(c) PROVE Control'
  BY <1>1 DEF Control, Types, Start
<1>2. ASSUME Keep PROVE Control'
  BY <1>2 DEF Control, Types, Keep, files
<1>3. ASSUME NEW k \in Kinds, MakeStamp(k) PROVE Control'
  <2>1. Value(k) \in Values(k)
    BY ValuesOf DEF Value, Types
  <2>2. suite' = suite /\ make' = make /\ DOMAIN tried' = Kinds /\ tried'[k] = Value(k)
    BY <1>3, StampWritten
  <2>3. \A j \in Kinds \ {k} : tried'[j] = tried[j]
    BY <1>3, StampWritten
  <2>. QED  BY <2>1, <2>2, <2>3 DEF Control, Types
<1>4. ASSUME BuildElf PROVE Control'
  BY <1>4 DEF Control, Types, BuildElf, Done, Package
<1>5. ASSUME BuildRootfs PROVE Control'
  BY <1>5 DEF Control, Types, BuildRootfs, Done, Package
<1>6. ASSUME BuildFirmware PROVE Control'
  BY <1>6 DEF Control, Types, BuildFirmware, Done
<1>7. ASSUME ExportBuilt PROVE Control'
  BY <1>7 DEF Control, Types, ExportBuilt, Done
<1>8. ASSUME ExportPackaged PROVE Control'
  BY <1>8 DEF Control, Types, ExportPackaged, Done, Package
<1>9. ASSUME FailPrepare PROVE Control'
  <2>1. make.config.iso \in Values("iso") /\ "iso" \in Kinds
    BY ValuesOf, KindsAre DEF Types, StandsFor
  <2>. QED  BY <1>9, <2>1 DEF Control, Types, FailPrepare, Failed
<1>10. ASSUME NEW t \in Targets, FailPackage(t) PROVE Control'
  BY <1>10 DEF Control, Types, FailPackage, Package, Failed
<1>11. ASSUME FailFirmware PROVE Control'
  BY <1>11 DEF Control, Types, FailFirmware, Failed
<1>12. ASSUME FailExport PROVE Control'
  BY <1>12 DEF Control, Types, FailExport, files, Failed
<1>13. ASSUME Exit PROVE Control'
  BY <1>13 DEF Control, Types, Exit, files
<1>14. ASSUME Stop \/ UNCHANGED vars PROVE Control'
  BY <1>14 DEF Control, Types, Stop, vars
<1>. QED  BY <1>1, <1>2, <1>3, <1>4, <1>5, <1>6, <1>7, <1>8, <1>9, <1>10, <1>11, <1>12, <1>13,
      <1>14 DEF Next

\* The clock only goes on, and no file is of a later time.
LEMMA StepTimes ==
    ASSUME Types, CacheSound, [Next]_vars
    PROVE  (clock \in Nat /\ time \in [Targets -> 0..clock])'
<1>1. ASSUME NEW c \in Configs, Start(c) PROVE (clock \in Nat /\ time \in [Targets -> 0..clock])'
  <2>1. clock' = clock /\ clock \in Nat /\ time \in [Targets -> 0..clock]
    BY <1>1 DEF Start, Types
  <2>2. time' = time \/ time' = [time EXCEPT !["export"] = 0]
    BY <1>1 DEF Start
  <2>. QED  BY <2>1, <2>2
<1>2. ASSUME Keep PROVE (clock \in Nat /\ time \in [Targets -> 0..clock])'
  BY <1>2 DEF Types, Keep, files
<1>3. ASSUME NEW k \in Kinds, MakeStamp(k) PROVE (clock \in Nat /\ time \in [Targets -> 0..clock])'
  <2>1. clock' = clock + 1 /\ clock \in Nat /\ time \in [Targets -> 0..clock] /\ time' = time
    BY <1>3, StampWritten DEF Types
  <2>. QED  BY <2>1
<1>4. ASSUME BuildElf PROVE (clock \in Nat /\ time \in [Targets -> 0..clock])'
  <2>1. clock' = clock + 1 /\ clock \in Nat
    BY <1>4 DEF BuildElf, Done, Types
  <2>2. time' \in [Targets -> 0..(clock + 1)]
    BY <1>4, PackageTimes DEF BuildElf, Targets
  <2>. QED  BY <2>1, <2>2
<1>5. ASSUME BuildRootfs PROVE (clock \in Nat /\ time \in [Targets -> 0..clock])'
  <2>1. clock' = clock + 1 /\ clock \in Nat
    BY <1>5 DEF BuildRootfs, Done, Types
  <2>2. time' \in [Targets -> 0..(clock + 1)]
    BY <1>5, PackageTimes DEF BuildRootfs, Targets
  <2>. QED  BY <2>1, <2>2
<1>6. ASSUME BuildFirmware PROVE (clock \in Nat /\ time \in [Targets -> 0..clock])'
  <2>1. clock' = clock + 1 /\ clock \in Nat /\ time \in [Targets -> 0..clock]
    BY <1>6 DEF BuildFirmware, Done, Types
  <2>2. time' = [time EXCEPT !["firmware"] = clock + 1]
    BY <1>6 DEF BuildFirmware
  <2>3. time \in [Targets -> 0..(clock + 1)] /\ clock + 1 \in 0..(clock + 1)
    BY <2>1
  <2>4. time' \in [Targets -> 0..(clock + 1)]
    BY <2>2, <2>3
  <2>. QED  BY <2>1, <2>4
<1>7. ASSUME ExportBuilt PROVE (clock \in Nat /\ time \in [Targets -> 0..clock])'
  <2>1. clock' = clock + 1 /\ clock \in Nat /\ time \in [Targets -> 0..clock]
    BY <1>7 DEF ExportBuilt, Done, Types
  <2>2. time' = [time EXCEPT !["export"] = clock + 1]
    BY <1>7 DEF ExportBuilt
  <2>3. time \in [Targets -> 0..(clock + 1)] /\ clock + 1 \in 0..(clock + 1)
    BY <2>1
  <2>4. time' \in [Targets -> 0..(clock + 1)]
    BY <2>2, <2>3
  <2>. QED  BY <2>1, <2>4
<1>8. ASSUME ExportPackaged PROVE (clock \in Nat /\ time \in [Targets -> 0..clock])'
  <2>1. clock' = clock + 1 /\ clock \in Nat
    BY <1>8 DEF ExportPackaged, Done, Types
  <2>2. time' \in [Targets -> 0..(clock + 1)]
    BY <1>8, PackageTimes DEF ExportPackaged, Targets
  <2>. QED  BY <2>1, <2>2
<1>9. ASSUME FailPrepare PROVE (clock \in Nat /\ time \in [Targets -> 0..clock])'
  BY <1>9 DEF Types, FailPrepare, Failed
<1>10. ASSUME NEW t \in Targets, FailPackage(t)
       PROVE  (clock \in Nat /\ time \in [Targets -> 0..clock])'
  <2>1. clock \in Nat /\ time \in [Targets -> 0..clock]
    BY DEF Types
  <2>2. CASE clock' = clock /\ time' = time
    BY <2>1, <2>2
  <2>3. CASE clock' = clock + 1 /\ time' = time
    BY <2>1, <2>3
  <2>4. CASE Package("elf") /\ clock' = clock + 1
    <3>1. time' \in [Targets -> 0..(clock + 1)]
      BY <2>4, PackageTimes DEF Targets
    <3>. QED  BY <2>1, <2>4, <3>1
  <2>. QED  BY <1>10, <2>2, <2>3, <2>4 DEF FailPackage
<1>11. ASSUME FailFirmware PROVE (clock \in Nat /\ time \in [Targets -> 0..clock])'
  BY <1>11 DEF Types, FailFirmware, Failed
<1>12. ASSUME FailExport PROVE (clock \in Nat /\ time \in [Targets -> 0..clock])'
  BY <1>12 DEF Types, FailExport, files, Failed
<1>13. ASSUME Exit PROVE (clock \in Nat /\ time \in [Targets -> 0..clock])'
  BY <1>13 DEF Types, Exit, files
<1>14. ASSUME Stop \/ UNCHANGED vars PROVE (clock \in Nat /\ time \in [Targets -> 0..clock])'
  BY <1>14 DEF Types, Stop, vars
<1>. QED  BY <1>1, <1>2, <1>3, <1>4, <1>5, <1>6, <1>7, <1>8, <1>9, <1>10, <1>11, <1>12, <1>13,
      <1>14 DEF Next

\* The clock goes on.
LEMMA ClockGoesOn ==
    ASSUME Types, [Next]_vars
    PROVE  (clock \in Nat /\ clock' \in Nat /\ clock <= clock')
<1>1. ASSUME NEW c \in Configs, Start(c) PROVE (clock \in Nat /\ clock' \in Nat /\ clock <= clock')
  BY <1>1 DEF Types, Start
<1>2. ASSUME Keep PROVE (clock \in Nat /\ clock' \in Nat /\ clock <= clock')
  BY <1>2 DEF Types, Keep, files
<1>3. ASSUME NEW k \in Kinds, MakeStamp(k)
      PROVE  (clock \in Nat /\ clock' \in Nat /\ clock <= clock')
  BY <1>3 DEF Types, MakeStamp, Done
<1>4. ASSUME BuildElf PROVE (clock \in Nat /\ clock' \in Nat /\ clock <= clock')
  BY <1>4 DEF Types, BuildElf, Done, Package
<1>5. ASSUME BuildRootfs PROVE (clock \in Nat /\ clock' \in Nat /\ clock <= clock')
  BY <1>5 DEF Types, BuildRootfs, Done, Package
<1>6. ASSUME BuildFirmware PROVE (clock \in Nat /\ clock' \in Nat /\ clock <= clock')
  BY <1>6 DEF Types, BuildFirmware, Done
<1>7. ASSUME ExportBuilt PROVE (clock \in Nat /\ clock' \in Nat /\ clock <= clock')
  BY <1>7 DEF Types, ExportBuilt, Done
<1>8. ASSUME ExportPackaged PROVE (clock \in Nat /\ clock' \in Nat /\ clock <= clock')
  BY <1>8 DEF Types, ExportPackaged, Done, Package
<1>9. ASSUME FailPrepare PROVE (clock \in Nat /\ clock' \in Nat /\ clock <= clock')
  BY <1>9 DEF Types, FailPrepare, Failed
<1>10. ASSUME NEW t \in Targets, FailPackage(t)
       PROVE  (clock \in Nat /\ clock' \in Nat /\ clock <= clock')
  BY <1>10 DEF Types, FailPackage, Package, Failed
<1>11. ASSUME FailFirmware PROVE (clock \in Nat /\ clock' \in Nat /\ clock <= clock')
  BY <1>11 DEF Types, FailFirmware, Failed
<1>12. ASSUME FailExport PROVE (clock \in Nat /\ clock' \in Nat /\ clock <= clock')
  BY <1>12 DEF Types, FailExport, files, Failed
<1>13. ASSUME Exit PROVE (clock \in Nat /\ clock' \in Nat /\ clock <= clock')
  BY <1>13 DEF Types, Exit, files
<1>14. ASSUME Stop \/ UNCHANGED vars PROVE (clock \in Nat /\ clock' \in Nat /\ clock <= clock')
  BY <1>14 DEF Types, Stop, vars
<1>. QED  BY <1>1, <1>2, <1>3, <1>4, <1>5, <1>6, <1>7, <1>8, <1>9, <1>10, <1>11, <1>12, <1>13,
      <1>14 DEF Next

\* Only written stamps are of the present, and only one kind at a time.
LEMMA StepStamps ==
    ASSUME Types, [Next]_vars
    PROVE  (DOMAIN stamp = Kinds /\ \A k \in Kinds : stamp[k] \in [Values(k) -> 0..clock])'
<1>1. clock \in Nat /\ clock' \in Nat /\ clock <= clock'
  BY ClockGoesOn
<1>2. \A k \in Kinds : stamp[k] \in [Values(k) -> 0..clock']
  BY <1>1 DEF Types
<1>3. ASSUME NEW j \in Kinds, MakeStamp(j), NEW k \in Kinds
      PROVE  stamp'[k] \in [Values(k) -> 0..clock']
  <2>1. CASE k = j
    <3>1. stamp'[k] = [v \in Values(k) |-> IF v = Value(k) THEN clock + 1
                                           ELSE IF k \in Replaced THEN 0 ELSE stamp[k][v]]
      BY <1>3, <2>1, StampWritten
    <3>2. clock' = clock + 1
      BY <1>3, StampWritten
    <3>. QED  BY <1>1, <1>2, <3>1, <3>2
  <2>2. CASE k # j
    BY <1>2, <1>3, <2>2, StampWritten
  <2>. QED  BY <2>1, <2>2
<1>4. ASSUME NEW j \in Kinds, MakeStamp(j)
      PROVE  DOMAIN stamp' = Kinds
  BY <1>4, StampWritten
<1>. QED  BY <1>2, <1>3, <1>4, StampsWritten DEF Types

\* What a recipe that packages may rely on.
LEMMA PackagingNeeds ==
    ASSUME Types, ThereIf, DoneUpToDate, TriedSound, CacheSound,
           NEW t \in {"elf", "rootfs", "export"}, t = "export" => suite = "spec2017", Due(t)
    PROVE  /\ stamp["iso"][Value("iso")] > 0 /\ tried["iso"] \in {Value("iso"), Nothing}
           /\ stamp["cfg"][Value("cfg")] > 0 /\ tried["cfg"] \in {Value("cfg"), Nothing}
           /\ suite # "spec2006" \/ t # "elf" =>
                  stamp["vars"][Value("vars")] > 0 /\ tried["vars"] \in {Value("vars"), Nothing}
           /\ {"iso", "cfg"} \subseteq Needs(t)
<1>1. t \in Targets /\ suite \in {"spec2006", "spec2017", "spec2026"}
  BY DEF Targets, Types
<1>2. {"iso", "cfg"} \subseteq Needs(t) /\ (suite # "spec2006" \/ t # "elf" => "vars" \in Needs(t))
  BY <1>1, PackagersNeed
<1>3. {"iso", "cfg", "vars"} \subseteq Kinds
  BY KindsAre
<1>. QED  BY <1>1, <1>2, <1>3, NeedsDone

\* The workspace, the cache and the ELF are what the code makes of them.
LEMMA StepElfTypes ==
    ASSUME Types, ThereIf, DoneUpToDate, TriedSound, CacheSound, [Next]_vars
    PROVE  /\ cache' \in [Field("tune") -> Caches \cup {Nothing}]
           /\ elf' \in Elves \cup {Nothing}
<1>1. /\ cache \in [Field("tune") -> Caches \cup {Nothing}] /\ elf \in Elves \cup {Nothing}
      /\ make.config.tune \in Field("tune")
  BY FieldsOf DEF Types
<1>2. ASSUME NEW t, Packager(t) PROVE stamp["iso"][Value("iso")] > 0
  BY <1>2, PackagingNeeds DEF Packager
<1>3. ASSUME NEW t \in Targets, Packaging(t)
      PROVE  cache' \in [Field("tune") -> Caches \cup {Nothing}] /\ elf' \in Elves
  BY <1>2, <1>3, BuildWrites, BuiltElfIs DEF Packaging
<1>4. ASSUME Stopping PROVE cache' \in [Field("tune") -> Caches \cup {Nothing}]
  <2>1. CASE Build
    BY <1>2, <1>4, <2>1, BuildWrites DEF Stopping
  <2>2. CASE Clear
    BY <1>1, <2>2 DEF Clear
  <2>. QED  BY <1>4, <2>1, <2>2 DEF Stopping
<1>. QED  BY <1>1, <1>3, <1>4, ElfWritten

\* The other files.
LEMMA StepProducts ==
    ASSUME Types, ThereIf, DoneUpToDate, TriedSound, CacheSound, [Next]_vars
    PROVE  Products'
<1>1. ASSUME NEW c \in Configs, Start(c) PROVE Products'
  BY <1>1 DEF Products, Types, Start
<1>2. ASSUME Keep PROVE Products'
  BY <1>2 DEF Products, Types, Keep, files
<1>3. ASSUME NEW k \in Kinds, MakeStamp(k) PROVE Products'
  <2>1. k = "iso" => workspace' = [iso |-> make.config.iso, whole |-> TRUE]
    BY <1>3 DEF MakeStamp
  <2>2. k # "iso" => workspace' = workspace
    BY <1>3 DEF MakeStamp
  <2>3. [iso |-> make.config.iso, whole |-> TRUE] \in Workspaces
    BY FieldsOf DEF Workspaces, Types
  <2>. QED  BY <1>3, <2>1, <2>2, <2>3 DEF MakeStamp, Products, Types
<1>4. ASSUME BuildElf PROVE Products'
  BY <1>4 DEF Products, Types, BuildElf, Done, Package
<1>5. ASSUME BuildRootfs PROVE Products'
  <2>1. Due("rootfs")
    BY <1>5, RunsTarget DEF BuildRootfs, Targets
  <2>2. Packaged \in Rootfses
    BY <2>1, PackagingNeeds, PackagedIs
  <2>. QED  BY <1>5, <2>2 DEF BuildRootfs, Products, Types
<1>6. ASSUME BuildFirmware PROVE Products'
  <2>1. Due("firmware") /\ "firmware" \in Targets /\ make.config.dtb \in Field("dtb")
    BY <1>6, RunsTarget, FieldsOf DEF BuildFirmware, Targets, Types
  <2>2. "rootfs" \in done /\ "rootfs" \in Targets
    BY <2>1, NeedsDone DEF Needs, Targets
  <2>3. rootfs \in Rootfses
    BY <2>2 DEF DoneUpToDate, ThereIf, Types
  <2>4. [rootfs |-> rootfs, dtb |-> make.config.dtb] \in Firmwares
    BY <2>1, <2>3 DEF Firmwares
  <2>. QED  BY <1>6, <2>1, <2>4 DEF BuildFirmware, Products, Types
<1>7. ASSUME ExportBuilt PROVE Products'
  <2>1. Due("export") /\ "export" \in Targets /\ make.config.dtb \in Field("dtb")
    BY <1>7, RunsTarget, FieldsOf DEF ExportBuilt, Targets, Types
  <2>2. "firmware" \in done /\ "firmware" \in Targets
    BY <1>7, <2>1, NeedsDone DEF Needs, Targets, ExportBuilt, Types
  <2>3. rootfs \in Rootfses /\ firmware \in Firmwares /\ elf \in Elves
    BY <1>7, <2>2 DEF DoneUpToDate, ThereIf, Types, ExportBuilt
  <2>4. [elf |-> elf, rootfs |-> rootfs, firmware |-> firmware, dt |-> make.config.dtb] \in Exports
    BY <2>1, <2>3 DEF Exports
  <2>. QED  BY <1>7, <2>4 DEF ExportBuilt, Products, Types
<1>8. ASSUME ExportPackaged PROVE Products'
  <2>1. Due("export") /\ make.config.dtb \in Field("dtb")
    BY <1>8, RunsTarget, FieldsOf DEF ExportPackaged, Targets, Types
  <2>2. Packaged \in Rootfses /\ BuiltElf \in Elves
    BY <1>8, <2>1, PackagingNeeds, PackagedIs, BuiltElfIs DEF ExportPackaged
  <2>3. [rootfs |-> Packaged, dtb |-> make.config.dtb] \in Firmwares
    BY <2>1, <2>2 DEF Firmwares
  <2>4. [elf |-> BuiltElf, rootfs |-> Packaged,
         firmware |-> [rootfs |-> Packaged, dtb |-> make.config.dtb], dt |-> make.config.dtb] \in Exports
    BY <2>1, <2>2, <2>3 DEF Exports
  <2>. QED  BY <1>8, <2>4 DEF ExportPackaged, Products, Types
<1>9. ASSUME FailPrepare PROVE Products'
  <2>1. \A i \in {make.config.iso, Nothing} : [iso |-> i, whole |-> FALSE] \in Workspaces
    BY FieldsOf DEF Workspaces, Types
  <2>. QED  BY <1>9, <2>1 DEF FailPrepare, Products, Types
<1>10. ASSUME NEW t \in Targets, FailPackage(t) PROVE Products'
  BY <1>10 DEF Products, Types, FailPackage, Package, Failed
<1>11. ASSUME FailFirmware PROVE Products'
  <2>1. make.config.dtb \in Field("dtb")
    BY FieldsOf DEF Types
  <2>. QED  BY <1>11, <2>1 DEF FailFirmware, Products, Types
<1>12. ASSUME FailExport PROVE Products'
  BY <1>12 DEF Products, Types, FailExport, files, Failed
<1>13. ASSUME Exit PROVE Products'
  BY <1>13 DEF Products, Types, Exit, files
<1>14. ASSUME Stop \/ UNCHANGED vars PROVE Products'
  BY <1>14 DEF Products, Types, Stop, vars
<1>. QED  BY <1>1, <1>2, <1>3, <1>4, <1>5, <1>6, <1>7, <1>8, <1>9, <1>10, <1>11, <1>12, <1>13,
      <1>14 DEF Next

\* All of them together.
LEMMA StepTypes ==
    ASSUME Types, ThereIf, DoneUpToDate, TriedSound, CacheSound, [Next]_vars
    PROVE  Types'
<1>1. Control' /\ Products'
  BY StepControl, StepProducts
<1>2. /\ (clock \in Nat /\ time \in [Targets -> 0..clock])'
      /\ (DOMAIN stamp = Kinds /\ \A k \in Kinds : stamp[k] \in [Values(k) -> 0..clock])'
      /\ cache' \in [Field("tune") -> Caches \cup {Nothing}]
      /\ elf' \in Elves \cup {Nothing}
  BY StepTimes, StepStamps, StepElfTypes
<1>. QED  BY <1>1, <1>2 DEF Control, Products, Types

\* The command line changes when another make starts.
LEMMA ConfigStays ==
    ASSUME Types, [Next]_vars
    PROVE  (make'.config = make.config \/ \E d \in Configs : Start(d))
<1>1. ASSUME NEW c \in Configs, Start(c)
      PROVE  (make'.config = make.config \/ \E d \in Configs : Start(d))
  BY <1>1 DEF Types, Start
<1>2. ASSUME Keep PROVE (make'.config = make.config \/ \E d \in Configs : Start(d))
  BY <1>2 DEF Types, Keep, files
<1>3. ASSUME NEW k \in Kinds, MakeStamp(k)
      PROVE  (make'.config = make.config \/ \E d \in Configs : Start(d))
  BY <1>3 DEF Types, MakeStamp, Done
<1>4. ASSUME BuildElf PROVE (make'.config = make.config \/ \E d \in Configs : Start(d))
  BY <1>4 DEF Types, BuildElf, Done, Package
<1>5. ASSUME BuildRootfs PROVE (make'.config = make.config \/ \E d \in Configs : Start(d))
  BY <1>5 DEF Types, BuildRootfs, Done, Package
<1>6. ASSUME BuildFirmware PROVE (make'.config = make.config \/ \E d \in Configs : Start(d))
  BY <1>6 DEF Types, BuildFirmware, Done
<1>7. ASSUME ExportBuilt PROVE (make'.config = make.config \/ \E d \in Configs : Start(d))
  BY <1>7 DEF Types, ExportBuilt, Done
<1>8. ASSUME ExportPackaged PROVE (make'.config = make.config \/ \E d \in Configs : Start(d))
  BY <1>8 DEF Types, ExportPackaged, Done, Package
<1>9. ASSUME FailPrepare PROVE (make'.config = make.config \/ \E d \in Configs : Start(d))
  BY <1>9 DEF Types, FailPrepare, Failed
<1>10. ASSUME NEW t \in Targets, FailPackage(t)
       PROVE  (make'.config = make.config \/ \E d \in Configs : Start(d))
  BY <1>10 DEF Types, FailPackage, Package, Failed
<1>11. ASSUME FailFirmware PROVE (make'.config = make.config \/ \E d \in Configs : Start(d))
  BY <1>11 DEF Types, FailFirmware, Failed
<1>12. ASSUME FailExport PROVE (make'.config = make.config \/ \E d \in Configs : Start(d))
  BY <1>12 DEF Types, FailExport, files, Failed
<1>13. ASSUME Exit PROVE (make'.config = make.config \/ \E d \in Configs : Start(d))
  BY <1>13 DEF Types, Exit, files
<1>14. ASSUME Stop \/ UNCHANGED vars
       PROVE  (make'.config = make.config \/ \E d \in Configs : Start(d))
  BY <1>14 DEF Types, Stop, vars
<1>. QED  BY <1>1, <1>2, <1>3, <1>4, <1>5, <1>6, <1>7, <1>8, <1>9, <1>10, <1>11, <1>12, <1>13,
      <1>14 DEF Next

\* What is known of the stamps is what the make depends on.
LEMMA StepTriedSound ==
    ASSUME Types, TriedSound, [Next]_vars
    PROVE  TriedSound'
<1>1. suite' = suite
  BY ProductsWritten
<1>2. \A g \in {"elf", "firmware", "export"} : Closure(g)' = Closure(g)
  BY <1>1 DEF Closure, Needs
<1>3. ASSUME NEW c \in Configs, Start(c) PROVE TriedSound'
  <2>1. make'.config = c /\ c.goal \in {"elf", "firmware", "export"}
    BY <1>3, FieldsOf DEF Start
  <2>2. \A j \in Kinds : tried'[j] = IF j \in Closure(c.goal) /\ tried[j] # StandsFor(j, c)
                                    THEN Nothing ELSE tried[j]
    BY <1>3 DEF Start
  <2>. QED  BY <1>2, <2>1, <2>2 DEF TriedSound, Value, StandsFor
<1>4. ASSUME make'.config = make.config,
             \A j \in Kinds : tried'[j] \in {tried[j], Value(j)}
      PROVE  TriedSound'
  <2>1. make.config.goal \in {"elf", "firmware", "export"}
    BY FieldsOf DEF Types
  <2>2. \A j \in Kinds : Value(j)' = Value(j)
    BY <1>4 DEF Value, StandsFor
  <2>. QED  BY <1>2, <1>4, <2>1, <2>2 DEF TriedSound
<1>5. ASSUME NEW k \in Kinds, MakeStamp(k) PROVE \A j \in Kinds : tried'[j] \in {tried[j], Value(j)}
  <2>1. tried'[k] = Value(k)
    BY <1>5, StampWritten
  <2>2. \A j \in Kinds \ {k} : tried'[j] = tried[j]
    BY <1>5, StampWritten
  <2>. QED  BY <2>1, <2>2
<1>6. ASSUME FailPrepare PROVE \A j \in Kinds : tried'[j] \in {tried[j], Value(j)}
  <2>1. tried' = [tried EXCEPT !["iso"] = make.config.iso] /\ make.config.iso = Value("iso")
    BY <1>6 DEF FailPrepare, Value, StandsFor
  <2>. QED  BY <2>1 DEF Types
<1>. QED  BY <1>3, <1>4, <1>5, <1>6, ConfigStays, StampsWritten

\* A recipe that removes the other stamps leaves its own.
LEMMA StepStampsUnique ==
    ASSUME Types, StampsUnique, [Next]_vars
    PROVE  StampsUnique'
<1>1. suite' = suite /\ Replaced' = Replaced /\ Replaced \subseteq Kinds
  BY ProductsWritten, KindsAre DEF Replaced, Types
<1>2. ASSUME NEW j \in Kinds, MakeStamp(j), NEW k \in Replaced, NEW v \in Values(k),
             NEW w \in Values(k),
             stamp'[k][v] > 0, stamp'[k][w] > 0
      PROVE  v = w
  <2>1. CASE k = j
    <3>1. stamp'[k] = [u \in Values(k) |-> IF u = Value(k) THEN clock + 1
                                           ELSE IF k \in Replaced THEN 0 ELSE stamp[k][u]]
      BY <1>2, <2>1, StampWritten
    <3>. QED  BY <1>2, <3>1
  <2>2. CASE k # j
    <3>1. stamp'[k] = stamp[k]
      BY <1>1, <1>2, <2>2, StampWritten
    <3>. QED  BY <1>2, <3>1 DEF StampsUnique
  <2>. QED  BY <2>1, <2>2
<1>3. ASSUME stamp' = stamp PROVE StampsUnique'
  BY <1>1, <1>3 DEF StampsUnique, Values, StandsFor
<1>4. ASSUME NEW j \in Kinds, MakeStamp(j) PROVE StampsUnique'
  BY <1>1, <1>2, <1>4 DEF StampsUnique, Values, StandsFor
<1>. QED  BY <1>3, <1>4, StampsWritten

\* The stamp of an ISO is written when the workspace is finished.
LEMMA StepWorkspaceSound ==
    ASSUME Types, WorkspaceSound, [Next]_vars
    PROVE  WorkspaceSound'
<1>1. "iso" \in Kinds /\ make.config \in Configs
  BY KindsAre DEF Types
<1>2. /\ Value("iso") = make.config.iso /\ Value("iso") \in Values("iso")
      /\ Nothing \notin Values("iso")
  BY <1>1, ValuesOf DEF Value, StandsFor
<1>3. ASSUME NEW j \in Kinds, MakeStamp(j) PROVE WorkspaceSound'
  <2>1. CASE j = "iso"
    <3>1. workspace' = [iso |-> make.config.iso, whole |-> TRUE]
      BY <1>3, <2>1 DEF MakeStamp
    <3>2. tried'["iso"] = make.config.iso
      BY <1>2, <1>3, <2>1, StampWritten
    <3>. QED  BY <3>1, <3>2 DEF WorkspaceSound
  <2>2. CASE j # "iso"
    <3>1. workspace' = workspace
      BY <1>3, <2>2 DEF MakeStamp
    <3>2. stamp'["iso"] = stamp["iso"] /\ tried'["iso"] = tried["iso"]
      BY <1>1, <1>3, <2>2, StampWritten
    <3>. QED  BY <3>1, <3>2 DEF WorkspaceSound, Values, StandsFor
  <2>. QED  BY <2>1, <2>2
<1>4. ASSUME stamp' = stamp, FailPrepare PROVE WorkspaceSound'
  <2>1. ~UpToDate("iso")
    BY <1>4 DEF FailPrepare, Runs
  <2>2. ~(stamp["iso"][Value("iso")] > 0)
    BY <1>1, <2>1 DEF UpToDate, Written, Value
  <2>3. tried'["iso"] = make.config.iso
    BY <1>1, <1>4 DEF FailPrepare, Types
  <2>. QED  BY <1>2, <1>4, <2>2, <2>3 DEF WorkspaceSound, Values, StandsFor
<1>5. ASSUME stamp' = stamp, workspace' = workspace, NEW c \in Configs, Start(c)
      PROVE  WorkspaceSound'
  <2>1. tried'["iso"] \in {tried["iso"], Nothing}
    BY <1>1, <1>5 DEF Start
  <2>. QED  BY <1>2, <1>5, <2>1 DEF WorkspaceSound, Values, StandsFor
<1>6. ASSUME stamp' = stamp, workspace' = workspace, tried' = tried PROVE WorkspaceSound'
  BY <1>6 DEF WorkspaceSound, Values, StandsFor
<1>. QED  BY <1>3, <1>4, <1>5, <1>6, StampsWritten

\* An ELF is cached with the metadata it was built for, or with those that it
\* was found under.
LEMMA StepCacheSound ==
    ASSUME Types, ThereIf, DoneUpToDate, TriedSound, CacheSound, [Next]_vars
    PROVE  CacheSound'
<1>1. /\ suite' = suite /\ make.config.tune \in Field("tune")
      /\ clock \in Nat /\ clock' \in Nat /\ clock <= clock'
      /\ cache \in [Field("tune") -> Caches \cup {Nothing}]
  BY ProductsWritten, ClockGoesOn, FieldsOf DEF Types
<1>2. ASSUME NEW u \in Field("tune"), cache'[u] = cache[u], cache'[u] # Nothing
      PROVE  /\ cache'[u].time \in 1..clock'
             /\ cache'[u].elf.cfg = cache'[u].meta.cfg
             /\ cache'[u].elf.tune = u /\ cache'[u].meta.tune = u
             /\ suite' = "spec2017" => cache'[u].elf.iso = cache'[u].meta.iso
  <2>1. cache[u].time \in 1..clock
    BY <1>2 DEF CacheSound
  <2>2. cache[u].time \in 1..clock'
    BY <1>1, <2>1
  <2>. QED  BY <1>1, <1>2, <2>2 DEF CacheSound
<1>3. ASSUME Build, clock' = clock + 1, NEW t, Packager(t) PROVE CacheSound'
  <2>1. stamp["iso"][Value("iso")] > 0
    BY <1>3, PackagingNeeds DEF Packager
  <2>2. /\ cache'[make.config.tune].meta = Metadata /\ cache'[make.config.tune].elf = BuiltElf
        /\ cache'[make.config.tune].time = BuiltAt
        /\ \A u \in Field("tune") \ {make.config.tune} : cache'[u] = cache[u]
    BY <1>3, <2>1, BuildWrites
  <2>3. BuiltAt \in 1..clock'
    BY <1>3, BuiltAtIs
  <2>4. /\ BuiltElf.cfg = Metadata.cfg /\ BuiltElf.tune = make.config.tune
        /\ Metadata.tune = make.config.tune
        /\ suite = "spec2017" => BuiltElf.iso = Metadata.iso
    BY <2>1, BuiltElfIs
  <2>. QED  BY <1>1, <1>2, <2>2, <2>3, <2>4 DEF CacheSound
<1>4. ASSUME Clear PROVE CacheSound'
  <2>1. cache'[make.config.tune] = Nothing
    BY <1>1, <1>4 DEF Clear
  <2>2. \A u \in Field("tune") \ {make.config.tune} : cache'[u] = cache[u]
    BY <1>1, <1>4 DEF Clear
  <2>. QED  BY <1>2, <2>1, <2>2 DEF CacheSound
<1>5. ASSUME cache' = cache PROVE CacheSound'
  BY <1>2, <1>5 DEF CacheSound
<1>. QED  BY <1>3, <1>4, <1>5, ElfWritten DEF Packaging, Stopping

\* What has been written is there.
LEMMA StepThereIf ==
    ASSUME Types, ThereIf, DoneUpToDate, TriedSound, CacheSound, [Next]_vars
    PROVE  ThereIf'
<1>1. time'["elf"] > 0 => elf' # Nothing
  <2>1. ASSUME NEW t \in Targets, Packaging(t) PROVE elf' # Nothing
    <3>1. BuiltElf \in Elves
      BY <2>1, PackagingNeeds, BuiltElfIs DEF Packaging, Packager
    <3>. QED  BY <2>1, <3>1, NothingAssumption DEF Packaging
  <2>. QED  BY <2>1, ElfWritten DEF ThereIf
<1>2. BuildRootfs => rootfs' # Nothing
  <2>1. ASSUME BuildRootfs PROVE rootfs' = Packaged /\ Due("rootfs")
    BY <2>1, RunsTarget DEF BuildRootfs, Targets
  <2>. QED  BY <2>1, PackagingNeeds, PackagedIs
<1>3. BuildFirmware => firmware' # Nothing /\ rootfs' # Nothing
  <2>1. ASSUME BuildFirmware PROVE firmware' # Nothing /\ rootfs' # Nothing
    <3>1. Due("firmware") /\ "firmware" \in Targets /\ make.config.dtb \in Field("dtb")
      BY <2>1, RunsTarget, FieldsOf DEF BuildFirmware, Targets, Types
    <3>2. "rootfs" \in done /\ "rootfs" \in Targets
      BY <3>1, NeedsDone DEF Needs, Targets
    <3>3. rootfs # Nothing
      BY <3>2 DEF DoneUpToDate, ThereIf
    <3>4. [rootfs |-> rootfs, dtb |-> make.config.dtb] \in Firmwares
      BY <3>1, <3>3 DEF Firmwares, Types
    <3>. QED  BY <2>1, <3>3, <3>4, NothingAssumption DEF BuildFirmware
  <2>. QED  BY <2>1
<1>4. \A i \in Values("iso") : stamp'["iso"][i] > 0 => workspace' # Nothing
  <2>1. ASSUME NEW j \in Kinds, MakeStamp(j), NEW i \in Values("iso"), stamp'["iso"][i] > 0
        PROVE  workspace' # Nothing
    <3>1. CASE j = "iso"
      <4>1. workspace' = [iso |-> make.config.iso, whole |-> TRUE]
        BY <2>1, <3>1 DEF MakeStamp
      <4>2. workspace' \in Workspaces
        BY <4>1, FieldsOf DEF Workspaces, Types
      <4>. QED  BY <4>2, NothingAssumption
    <3>2. CASE j # "iso"
      BY <2>1, <3>2, StampWritten, KindsAre DEF MakeStamp, ThereIf
    <3>. QED  BY <3>1, <3>2
  <2>2. FailPrepare => workspace' # Nothing
    <3>1. ASSUME FailPrepare, NEW i \in {make.config.iso, Nothing}
          PROVE  [iso |-> i, whole |-> FALSE] \in Workspaces
      BY FieldsOf DEF Workspaces, Types
    <3>. QED  BY <3>1, NothingAssumption DEF FailPrepare
  <2>. QED  BY <2>1, <2>2, StampsWritten DEF ThereIf
<1>5. (Values("iso"))' = Values("iso")
  BY DEF Values, StandsFor
<1>6. (time'["rootfs"] > 0 => rootfs' # Nothing) /\ (rootfs # Nothing => rootfs' # Nothing)
  BY <1>2, ProductsWritten DEF ThereIf
<1>7. time'["firmware"] > 0 => firmware' # Nothing /\ rootfs' # Nothing
  BY <1>3, <1>6, ProductsWritten DEF ThereIf
<1>. QED  BY <1>1, <1>4, <1>5, <1>6, <1>7 DEF ThereIf

\* What a stamp that is up to date stands for is of the command line, for a
\* target that has been written in this step.
LEMMA NewFollows ==
    ASSUME Types, StampsUnique, [Next]_vars, stamp' = stamp, tried' = tried,
           NEW k \in Kinds, stamp[k][Value(k)] > 0, tried[k] \in {Value(k), Nothing},
           NEW d \in Configs, NEW t \in Targets, Follows(t, k, d)'
    PROVE  StandsFor(k, d) = Value(k) /\ (k \in Replaced \/ tried[k] = Value(k))
<1>1. suite' = suite /\ Replaced' = Replaced
  BY ProductsWritten DEF Replaced
<1>2. stamp[k][StandsFor(k, d)] > 0 /\ (k \in Replaced \/ tried[k] = StandsFor(k, d))
  BY <1>1 DEF Follows
<1>. QED  BY <1>2, OneCounts

\* The ELF of the case is built from the cache or from the workspace.
LEMMA StepElfSound ==
    ASSUME Types, ThereIf, DoneUpToDate, TriedSound, StampsUnique, WorkspaceSound, CacheSound,
           ElfSound,
           [Next]_vars
    PROVE  ElfSound'
<1>1. /\ {"iso", "cfg", "vars"} \subseteq Kinds /\ "elf" \in Targets /\ make.config \in Configs
      /\ suite' = suite
  BY KindsAre, ProductsWritten DEF Targets, Types
<1>2. ASSUME NEW t \in Targets, Packaging(t), NEW d \in Configs
      PROVE  /\ Follows("elf", "cfg", d)' => elf'.cfg = d.cfg
             /\ suite # "spec2006" /\ Follows("elf", "vars", d)' => elf'.tune = d.tune
             /\ suite = "spec2017" /\ Follows("elf", "iso", d)' => elf'.iso = d.iso
  <2>1. /\ stamp["iso"][Value("iso")] > 0 /\ tried["iso"] \in {Value("iso"), Nothing}
        /\ stamp["cfg"][Value("cfg")] > 0 /\ tried["cfg"] \in {Value("cfg"), Nothing}
        /\ suite # "spec2006" =>
               stamp["vars"][Value("vars")] > 0 /\ tried["vars"] \in {Value("vars"), Nothing}
    BY <1>2, PackagingNeeds DEF Packaging, Packager
  <2>2. /\ elf'.cfg = make.config.cfg /\ elf'.tune = make.config.tune
        /\ suite = "spec2017" => elf'.iso = workspace.iso
    BY <1>2, <2>1, BuiltElfIs DEF Packaging
  <2>3. stamp' = stamp /\ tried' = tried
    BY <1>2 DEF Packaging
  <2>4. Follows("elf", "cfg", d)' => d.cfg = make.config.cfg
    BY <1>1, <2>1, <2>3, NewFollows DEF Value, StandsFor
  <2>5. suite # "spec2006" /\ Follows("elf", "vars", d)' =>
            <<d.tune, d.input>> = <<make.config.tune, make.config.input>>
    BY <1>1, <2>1, <2>3, NewFollows DEF Value, StandsFor
  <2>6. suite = "spec2017" /\ Follows("elf", "iso", d)' =>
            d.iso = make.config.iso /\ tried["iso"] = Value("iso")
    BY <1>1, <2>1, <2>3, NewFollows DEF Value, StandsFor, Replaced
  <2>7. tried["iso"] = Value("iso") => workspace.iso = make.config.iso
    <3>1. Value("iso") \in Values("iso") /\ Value("iso") = make.config.iso
      BY <1>1, ValuesOf DEF Value, StandsFor
    <3>. QED  BY <2>1, <3>1 DEF WorkspaceSound
  <2>. QED  BY <2>2, <2>4, <2>5, <2>6, <2>7
<1>3. ASSUME NEW t \in Targets, Packaging(t) PROVE ElfSound'
  BY <1>1, <1>2, <1>3 DEF ElfSound
<1>4. ASSUME elf' = elf, time'["elf"] = time["elf"] PROVE ElfSound'
  BY <1>1, <1>4, FollowsStep DEF ElfSound
<1>. QED  BY <1>3, <1>4, ElfWritten

\* A rootfs is packaged by its own recipe.
LEMMA StepRootfsSound ==
    ASSUME Types, ThereIf, DoneUpToDate, TriedSound, StampsUnique, WorkspaceSound, CacheSound,
           RootfsSound,
           [Next]_vars
    PROVE  RootfsSound'
<1>1. /\ {"iso", "cfg", "vars"} \subseteq Kinds /\ "rootfs" \in Targets /\ make.config \in Configs
      /\ suite' = suite
  BY KindsAre, ProductsWritten DEF Targets, Types
<1>2. ASSUME BuildRootfs, NEW d \in Configs
      PROVE  /\ Follows("rootfs", "cfg", d)' => rootfs'.elf.cfg = d.cfg
             /\ Follows("rootfs", "vars", d)' =>
                    rootfs'.elf.tune = d.tune /\ rootfs'.input = d.input
             /\ Follows("rootfs", "iso", d)' =>
                  /\ rootfs'.from = [iso |-> d.iso, whole |-> TRUE]
                  /\ suite = "spec2017" => rootfs'.elf.iso = d.iso
  <2>0. Due("rootfs")
    BY <1>1, <1>2, RunsTarget DEF BuildRootfs
  <2>1. /\ stamp["iso"][Value("iso")] > 0 /\ tried["iso"] \in {Value("iso"), Nothing}
        /\ stamp["cfg"][Value("cfg")] > 0 /\ tried["cfg"] \in {Value("cfg"), Nothing}
        /\ stamp["vars"][Value("vars")] > 0 /\ tried["vars"] \in {Value("vars"), Nothing}
    BY <2>0, PackagingNeeds
  <2>2. /\ rootfs'.elf = BuiltElf /\ rootfs'.from = workspace /\ rootfs'.input = make.config.input
        /\ BuiltElf.cfg = make.config.cfg /\ BuiltElf.tune = make.config.tune
        /\ suite = "spec2017" => BuiltElf.iso = workspace.iso
    BY <1>2, <2>1, BuiltElfIs, PackagedIs DEF BuildRootfs
  <2>3. stamp' = stamp /\ tried' = tried
    BY <1>2 DEF BuildRootfs
  <2>4. Follows("rootfs", "cfg", d)' => d.cfg = make.config.cfg
    BY <1>1, <2>1, <2>3, NewFollows DEF Value, StandsFor
  <2>5. Follows("rootfs", "vars", d)' =>
            <<d.tune, d.input>> = <<make.config.tune, make.config.input>>
    BY <1>1, <2>1, <2>3, NewFollows DEF Value, StandsFor
  <2>6. Follows("rootfs", "iso", d)' => d.iso = make.config.iso /\ tried["iso"] = Value("iso")
    <3>1. "iso" \notin Replaced
      BY DEF Replaced, Types
    <3>. QED  BY <1>1, <2>1, <2>3, <3>1, NewFollows DEF Value, StandsFor
  <2>7. tried["iso"] = Value("iso") => workspace = [iso |-> make.config.iso, whole |-> TRUE]
    <3>1. Value("iso") \in Values("iso") /\ Value("iso") = make.config.iso
      BY <1>1, ValuesOf DEF Value, StandsFor
    <3>. QED  BY <2>1, <3>1 DEF WorkspaceSound
  <2>. QED  BY <2>2, <2>4, <2>5, <2>6, <2>7
<1>3. ASSUME BuildRootfs PROVE RootfsSound'
  BY <1>1, <1>2, <1>3 DEF RootfsSound
<1>4. ASSUME rootfs' = rootfs, time'["rootfs"] = time["rootfs"] PROVE RootfsSound'
  BY <1>1, <1>4, FollowsStep DEF RootfsSound
<1>. QED  BY <1>3, <1>4, ProductsWritten

\* A firmware follows its own recipe; a device tree that a stopped one has left
\* is of a stamp that the firmware is older than.
LEMMA StepFirmwareSound ==
    ASSUME Types, DoneUpToDate, TriedSound, StampsUnique, FirmwareSound, [Next]_vars
    PROVE  FirmwareSound'
<1>1. /\ "dtb" \in Kinds /\ "dtb" \notin Targets /\ {"rootfs", "firmware"} \subseteq Targets
      /\ make.config \in Configs /\ suite' = suite
  BY KindsAre, ProductsWritten DEF Targets, Types
<1>2. /\ time["rootfs"] \in Nat /\ time["firmware"] \in Nat /\ clock \in Nat
      /\ time["rootfs"] <= clock /\ time["firmware"] <= clock
  BY <1>1 DEF Types
<1>3. \A d \in Configs : d.dtb \in Values("dtb") /\ StandsFor("dtb", d) = d.dtb /\ d.dtb # Nothing
  <2>1. \A d \in Configs : StandsFor("dtb", d) = d.dtb
    BY DEF StandsFor
  <2>. QED  BY <1>1, <2>1, ValuesOf
<1>4. ASSUME BuildFirmware PROVE FirmwareSound'
  <2>1. Due("firmware")
    BY <1>1, <1>4, RunsTarget DEF BuildFirmware
  <2>2. stamp["dtb"][Value("dtb")] > 0 /\ tried["dtb"] \in {Value("dtb"), Nothing}
    BY <1>1, <2>1, NeedsDone DEF Needs
  <2>3. /\ stamp' = stamp /\ tried' = tried /\ rootfs' = rootfs /\ dt' = make.config.dtb
        /\ firmware' = [rootfs |-> rootfs, dtb |-> make.config.dtb]
    BY <1>4 DEF BuildFirmware
  <2>4. \A d \in Configs : Follows("firmware", "dtb", d)' => d.dtb = make.config.dtb
    BY <1>1, <1>3, <2>2, <2>3, NewFollows DEF Value
  <2>. QED  BY <2>3, <2>4 DEF FirmwareSound
<1>5. ASSUME firmware' = firmware, time'["firmware"] = time["firmware"], time["firmware"] > 0
      PROVE  \A d \in Configs : Follows("firmware", "dtb", d)' => firmware'.dtb = d.dtb
  BY <1>1, <1>5, FollowsStep DEF FirmwareSound
<1>6. ASSUME BuildRootfs PROVE time'["rootfs"] = clock + 1
  BY <1>1, <1>6, PackageTimes DEF BuildRootfs
<1>7. ASSUME time'["firmware"] = time["firmware"], NEW d \in Configs,
             stamp'["dtb"][d.dtb] \in 1..time["firmware"]
      PROVE  stamp["dtb"][d.dtb] \in 1..time["firmware"]
  <2>1. ASSUME NEW j \in Kinds, MakeStamp(j) PROVE stamp["dtb"][d.dtb] \in 1..time["firmware"]
    <3>1. CASE j = "dtb"
      <4>1. stamp'["dtb"] = [v \in Values("dtb") |-> IF v = Value("dtb") THEN clock + 1
                               ELSE IF "dtb" \in Replaced THEN 0 ELSE stamp["dtb"][v]]
        BY <2>1, <3>1, StampWritten
      <4>2. stamp'["dtb"][d.dtb] \in {clock + 1, 0, stamp["dtb"][d.dtb]}
        BY <1>3, <4>1
      <4>. QED  BY <1>2, <1>7, <4>2
    <3>2. CASE j # "dtb"
      BY <1>1, <1>7, <2>1, <3>2, StampWritten
    <3>. QED  BY <3>1, <3>2
  <2>. QED  BY <1>7, <2>1, StampsWritten
<1>8. ASSUME FailFirmware, firmware' = firmware, time'["firmware"] = time["firmware"],
             time["firmware"] > 0,
             time["rootfs"] <= time["firmware"],
             NEW d \in Configs, dt' = d.dtb, stamp'["dtb"][dt'] \in 1..time["firmware"]
      PROVE  firmware'.dtb = dt'
  <2>1. Due("firmware") /\ OutOfDate("firmware")
    BY <1>1, <1>8, RunsTarget DEF FailFirmware
  <2>2. Written("dtb") > time["firmware"]
    <3>1. Needs("firmware") = {"dtb", "rootfs"}
      BY DEF Needs
    <3>2. Written("rootfs") = time["rootfs"]
      BY <1>1, KindsAre DEF Written
    <3>3. Written("rootfs") > time["firmware"] \/ Written("dtb") > time["firmware"]
      BY <1>8, <2>1, <3>1 DEF OutOfDate
    <3>. QED  BY <1>2, <1>8, <3>2, <3>3
  <2>3. Written("dtb") = stamp["dtb"][make.config.dtb]
    BY <1>1, <1>3 DEF Written
  <2>4. stamp' = stamp /\ dt' \in {dt, Nothing, make.config.dtb}
    BY <1>8 DEF FailFirmware
  <2>5. stamp["dtb"][dt'] <= time["firmware"]
    BY <1>2, <1>8, <2>4
  <2>6. stamp["dtb"][make.config.dtb] \in Nat
    BY <1>1, <1>3 DEF Types
  <2>7. dt' # make.config.dtb
    BY <1>2, <2>2, <2>3, <2>5, <2>6
  <2>8. dt' = dt
    BY <1>3, <1>8, <2>4, <2>7
  <2>. QED  BY <1>8, <2>4, <2>8 DEF FirmwareSound
<1>9. ASSUME ~BuildFirmware PROVE FirmwareSound'
  <2>1. firmware' = firmware /\ time'["firmware"] = time["firmware"]
    BY <1>9, ProductsWritten
  <2>2. CASE BuildRootfs
    BY <1>2, <1>5, <1>6, <2>1, <2>2 DEF FirmwareSound
  <2>3. CASE ~BuildRootfs
    <3>1. rootfs' = rootfs /\ time'["rootfs"] = time["rootfs"]
      BY <2>3, ProductsWritten
    <3>2. CASE FailFirmware
      BY <1>5, <1>8, <2>1, <3>1, <3>2 DEF FirmwareSound
    <3>3. CASE ~FailFirmware
      <4>1. dt' = dt
        BY <1>9, <3>3, ProductsWritten
      <4>2. \A d \in Configs : dt' = d.dtb /\ stamp'["dtb"][dt'] \in 1..time["firmware"]
                                 => stamp["dtb"][dt] \in 1..time["firmware"]
        BY <1>7, <2>1, <4>1
      <4>. QED  BY <1>5, <2>1, <3>1, <4>1, <4>2 DEF FirmwareSound
    <3>. QED  BY <3>2, <3>3
  <2>. QED  BY <2>2, <2>3
<1>. QED  BY <1>4, <1>9

\* A recipe that packages for the tune that the rootfs was made for finds in the
\* cache the ELF that the rootfs has, if the rootfs follows the stamps; for
\* another tune there is only the ELF goal of spec2006.
LEMMA CacheFits ==
    ASSUME Types, ThereIf, DoneUpToDate, TriedSound, StampsUnique, CacheSound, ElfKept,
           NEW t, Packager(t),
           NEW d \in Configs, suite # "spec2017", time["rootfs"] > 0,
           Follows("rootfs", "cfg", d), Follows("rootfs", "vars", d)
    PROVE  /\ suite # "spec2006" => make.config.tune = d.tune
           /\ make.config.tune = d.tune =>
                /\ Metadata = [cfg |-> d.cfg, tune |-> d.tune, iso |-> Nothing]
                /\ Hit /\ BuiltElf = rootfs.elf
<1>1. {"iso", "cfg", "vars"} \subseteq Kinds /\ make.config \in Configs
  BY KindsAre DEF Types
<1>2. /\ cache[d.tune] # Nothing /\ cache[d.tune].elf = rootfs.elf
      /\ cache[d.tune].meta = [cfg |-> d.cfg, tune |-> d.tune, iso |-> Nothing]
  BY DEF ElfKept
<1>3. /\ stamp["cfg"][Value("cfg")] > 0 /\ tried["cfg"] \in {Value("cfg"), Nothing}
      /\ suite # "spec2006" =>
             stamp["vars"][Value("vars")] > 0 /\ tried["vars"] \in {Value("vars"), Nothing}
  BY PackagingNeeds DEF Packager
<1>4. d.cfg = make.config.cfg
  <2>1. StandsFor("cfg", d) = Value("cfg")
    BY <1>1, <1>3, OneCounts DEF Follows
  <2>. QED  BY <2>1 DEF StandsFor, Value
<1>5. suite # "spec2006" => make.config.tune = d.tune
  <2>1. ASSUME suite # "spec2006" PROVE StandsFor("vars", d) = Value("vars")
    BY <1>1, <1>3, <2>1, OneCounts DEF Follows
  <2>2. ASSUME suite # "spec2006"
        PROVE  <<d.tune, d.input>> = <<make.config.tune, make.config.input>>
    BY <2>1, <2>2 DEF StandsFor, Value
  <2>. QED  BY <2>2
<1>6. ASSUME make.config.tune = d.tune
      PROVE  /\ Metadata = [cfg |-> d.cfg, tune |-> d.tune, iso |-> Nothing]
             /\ Hit /\ BuiltElf = rootfs.elf
  <2>1. Metadata = [cfg |-> d.cfg, tune |-> d.tune, iso |-> Nothing]
    BY <1>4, <1>6 DEF Metadata
  <2>2. Hit
    BY <1>2, <1>6, <2>1 DEF Hit, Cached
  <2>. QED  BY <1>2, <1>6, <2>1, <2>2 DEF BuiltElf, Cached
<1>. QED  BY <1>5, <1>6

\* Its ELF stays in the cache, and the ELF of the case, as long as nobody needs
\* another one.
LEMMA StepElfKept ==
    ASSUME Types, ThereIf, DoneUpToDate, TriedSound, StampsUnique, CacheSound, ElfKept, [Next]_vars
    PROVE  ElfKept'
<1>1. /\ {"iso", "cfg", "vars"} \subseteq Kinds /\ "rootfs" \in Targets
      /\ make.config \in Configs /\ suite' = suite /\ make.config.tune \in Field("tune")
      /\ cache \in [Field("tune") -> Caches \cup {Nothing}]
  BY KindsAre, ProductsWritten, FieldsOf DEF Targets, Types
<1>. SUFFICES ASSUME NEW d \in Configs, suite # "spec2017", time'["rootfs"] > 0,
                     Follows("rootfs", "cfg", d)', Follows("rootfs", "vars", d)'
              PROVE  /\ cache'[d.tune] # Nothing /\ cache'[d.tune].elf = rootfs'.elf
                     /\ cache'[d.tune].meta = [cfg |-> d.cfg, tune |-> d.tune, iso |-> Nothing]
                     /\ (suite = "spec2006" => elf'.tune = d.tune) => elf' = rootfs'.elf
  BY <1>1 DEF ElfKept
<1>0. d.tune \in Field("tune")
  BY FieldsOf
<1>2. CASE BuildRootfs
  <2>0. Due("rootfs")
    BY <1>1, <1>2, RunsTarget DEF BuildRootfs
  <2>1. /\ stamp["iso"][Value("iso")] > 0
        /\ stamp["cfg"][Value("cfg")] > 0 /\ tried["cfg"] \in {Value("cfg"), Nothing}
        /\ stamp["vars"][Value("vars")] > 0 /\ tried["vars"] \in {Value("vars"), Nothing}
    BY <2>0, PackagingNeeds
  <2>2. /\ elf' = BuiltElf /\ rootfs'.elf = BuiltElf
        /\ cache'[make.config.tune] # Nothing /\ cache'[make.config.tune].meta = Metadata
        /\ cache'[make.config.tune].elf = BuiltElf
    BY <1>2, <2>1, BuildWrites, PackagedIs DEF BuildRootfs, Package
  <2>3. stamp' = stamp /\ tried' = tried
    BY <1>2 DEF BuildRootfs
  <2>4. d.cfg = make.config.cfg
    BY <1>1, <2>1, <2>3, NewFollows DEF Value, StandsFor
  <2>5. <<d.tune, d.input>> = <<make.config.tune, make.config.input>>
    BY <1>1, <2>1, <2>3, NewFollows DEF Value, StandsFor
  <2>6. Metadata = [cfg |-> d.cfg, tune |-> d.tune, iso |-> Nothing] /\ d.tune = make.config.tune
    BY <2>4, <2>5 DEF Metadata
  <2>. QED  BY <2>2, <2>6
<1>3. CASE rootfs' = rootfs /\ time'["rootfs"] = time["rootfs"]
  <2>1. time["rootfs"] > 0 /\ Follows("rootfs", "cfg", d) /\ Follows("rootfs", "vars", d)
    BY <1>1, <1>3, FollowsStep
  <2>2. /\ cache[d.tune] # Nothing /\ cache[d.tune].elf = rootfs.elf
        /\ cache[d.tune].meta = [cfg |-> d.cfg, tune |-> d.tune, iso |-> Nothing]
        /\ (suite = "spec2006" => elf.tune = d.tune) => elf = rootfs.elf
    BY <2>1 DEF ElfKept
  <2>3. ASSUME NEW t, Packager(t)
        PROVE  /\ suite # "spec2006" => make.config.tune = d.tune
               /\ make.config.tune = d.tune =>
                    /\ Metadata = [cfg |-> d.cfg, tune |-> d.tune, iso |-> Nothing]
                    /\ Hit /\ BuiltElf = rootfs.elf
    BY <2>1, <2>3, CacheFits
  <2>4. ASSUME NEW t, Packager(t), Build
        PROVE  /\ cache'[d.tune] # Nothing /\ cache'[d.tune].elf = rootfs'.elf
               /\ cache'[d.tune].meta = [cfg |-> d.cfg, tune |-> d.tune, iso |-> Nothing]
    <3>1. /\ cache'[make.config.tune] # Nothing /\ cache'[make.config.tune].meta = Metadata
          /\ cache'[make.config.tune].elf = BuiltElf
          /\ \A u \in Field("tune") \ {make.config.tune} : cache'[u] = cache[u]
      BY <2>4, PackagingNeeds, BuildWrites DEF Packager
    <3>2. CASE make.config.tune = d.tune
      BY <1>3, <2>3, <2>4, <3>1, <3>2
    <3>3. CASE make.config.tune # d.tune
      BY <1>0, <1>3, <2>2, <3>1, <3>3
    <3>. QED  BY <3>2, <3>3
  <2>5. ASSUME NEW t \in Targets, Packaging(t)
        PROVE  (suite = "spec2006" => elf'.tune = d.tune) => elf' = rootfs'.elf
    <3>1. elf' = BuiltElf /\ BuiltElf.tune = make.config.tune
      BY <2>5, PackagingNeeds, BuiltElfIs DEF Packaging, Packager
    <3>. QED  BY <1>3, <2>3, <2>5, <3>1 DEF Packaging
  <2>6. CASE \E t \in Targets : Packaging(t)
    BY <2>4, <2>5, <2>6 DEF Packaging
  <2>7. CASE elf' = elf /\ cache' = cache
    BY <1>3, <2>2, <2>7
  <2>8. CASE elf' = elf /\ Stopping
    <3>1. CASE Build
      BY <1>3, <2>2, <2>4, <2>8, <3>1 DEF Stopping
    <3>2. CASE Clear
      <4>1. make.config.tune # d.tune
        BY <2>3, <2>8, <3>2 DEF Stopping, Clear
      <4>2. cache'[d.tune] = cache[d.tune]
        BY <1>0, <1>1, <3>2, <4>1 DEF Clear
      <4>. QED  BY <1>3, <2>2, <2>8, <4>2
    <3>. QED  BY <2>8, <3>1, <3>2 DEF Stopping
  <2>. QED  BY <2>6, <2>7, <2>8, ElfWritten
<1>. QED  BY <1>2, <1>3, ProductsWritten

\* A target that is written is up to date, and so are those that were.
LEMMA DoneGrows ==
    ASSUME Types, Types', DoneUpToDate, NEW t \in Targets, Due(t),
           suite' = suite, make' = make, stamp' = stamp, done' = done \cup {t},
           time'[t] > 0, t # "elf" => time'[t] = clock + 1, clock' = clock + 1,
           \A u \in Targets \ {"elf", t} : time'[u] = time[u]
    PROVE  DoneUpToDate'
<1>1. /\ make.config.goal \in {"elf", "firmware", "export"}
      /\ suite \in {"spec2006", "spec2017", "spec2026"}
      /\ Kinds \cap Targets = {} /\ clock \in Nat
  BY FieldsOf, KindsAre DEF Targets, Types
<1>2. /\ t \in Closure(make.config.goal) /\ t \notin done /\ Needs(t) \subseteq done
      /\ make.state = "building"
  BY <1>1 DEF Due
<1>3. /\ \A u \in Targets : Needs(u)' = Needs(u) /\ "elf" \notin Needs(u)
      /\ \A g \in {"elf", "firmware", "export"} : Closure(g)' = Closure(g)
  <2>1. \A u \in Targets : Needs(u)' = Needs(u)
    BY DEF Needs
  <2>2. \A u \in Targets : "elf" \notin Needs(u)
    BY <1>1, KindsAre DEF Needs, Targets
  <2>3. \A g \in {"elf", "firmware", "export"} : Closure(g)' = Closure(g)
    BY <2>1 DEF Closure, Targets
  <2>. QED  BY <2>1, <2>2, <2>3
<1>4. done' \subseteq Closure(make.config.goal)'
  BY <1>1, <1>2, <1>3 DEF DoneUpToDate
<1>5. \A k \in Kinds \cap done' : stamp'[k][Value(k)'] > 0
  BY <1>1 DEF DoneUpToDate, Value, StandsFor
<1>6. ASSUME NEW u \in Targets \cap done'
      PROVE  /\ Needs(u)' \subseteq done' /\ time'[u] > 0
             /\ u # "elf" => \A x \in Needs(u)' : Written(x)' <= time'[u]
  <2>1. CASE u = t
    <3>1. Needs(u) \subseteq Kinds \cup Targets
      BY <1>1, KindsAre DEF Needs, Targets
    <3>2. \A x \in Kinds \cup Targets : Written(x)' <= clock + 1
      <4>1. \A k \in Kinds : Written(k)' \in 0..clock'
        <5>1. \A k \in Kinds : StandsFor(k, make.config)' \in Values(k)' /\ Values(k)' = Values(k)
          BY ValuesOf DEF Types, Values, StandsFor
        <5>. QED  BY <5>1 DEF Written, Types
      <4>2. \A y \in Targets : Written(y)' \in 0..clock'
        BY <1>1 DEF Written, Types
      <4>. QED  BY <1>1, <4>1, <4>2
    <3>. QED  BY <1>1, <1>2, <1>3, <2>1, <3>1, <3>2
  <2>2. CASE u # t
    <3>1. u \in done /\ u # "elf" /\ time'[u] = time[u]
      <4>1. u \in done
        BY <2>2
      <4>2. "elf" \in Closure(make.config.goal) => Closure(make.config.goal) \cap Targets = {"elf"}
        BY <1>1, KindsAre DEF Closure, Needs, Targets
      <4>. QED  BY <1>2, <2>2, <4>1, <4>2 DEF DoneUpToDate
    <3>2. /\ Needs(u) \subseteq done /\ time[u] > 0
          /\ \A x \in Needs(u) : Written(x) <= time[u]
      BY <3>1 DEF DoneUpToDate
    <3>3. ASSUME NEW x \in Needs(u) PROVE Written(x)' = Written(x)
      <4>1. x # t /\ x # "elf" /\ x \in done
        BY <1>2, <1>3, <3>2
      <4>2. CASE x \in Kinds
        <5>1. StandsFor(x, make.config)' = StandsFor(x, make.config)
          BY DEF StandsFor
        <5>. QED  BY <4>2, <5>1 DEF Written
      <4>3. CASE x \notin Kinds
        <5>1. x \in Targets
          BY <1>1, <4>1, <4>3, ClosureOf DEF DoneUpToDate
        <5>. QED  BY <4>1, <4>3, <5>1 DEF Written
      <4>. QED  BY <4>2, <4>3
    <3>. QED  BY <1>3, <3>1, <3>2, <3>3
  <2>. QED  BY <2>1, <2>2
<1>7. make'.exit = "ok" => make'.state = "idle" /\ Closure(make.config.goal)' \subseteq done'
  BY <1>2 DEF DoneUpToDate
<1>. QED  BY <1>4, <1>5, <1>6, <1>7 DEF DoneUpToDate

\* What make has brought up to date stays up to date, as long as make runs.
LEMMA StepDoneUpToDate ==
    ASSUME Types, Types', DoneUpToDate, CacheSound, [Next]_vars
    PROVE  DoneUpToDate'
<1>1. /\ make.config.goal \in {"elf", "firmware", "export"}
      /\ suite \in {"spec2006", "spec2017", "spec2026"}
      /\ Kinds \cap Targets = {} /\ clock \in Nat
  BY FieldsOf, KindsAre DEF Targets, Types
<1>2. suite' = suite
  BY ProductsWritten
<1>3. /\ \A u \in Targets : Needs(u)' = Needs(u)
      /\ \A g \in {"elf", "firmware", "export"} : Closure(g)' = Closure(g)
  <2>1. \A u \in Targets : Needs(u)' = Needs(u)
    BY <1>2 DEF Needs
  <2>. QED  BY <2>1 DEF Closure, Targets
<1>4. ASSUME done' = {}, make'.exit # "ok" PROVE DoneUpToDate'
  BY <1>4 DEF DoneUpToDate
<1>5. \A c \in Configs : Start(c) => done' = {} /\ make'.exit # "ok"
  BY DEF Start
<1>6. FailPrepare \/ FailFirmware \/ FailExport \/ (\E t \in Targets : FailPackage(t)) =>
          done' = {} /\ make'.exit # "ok"
  BY DEF FailPrepare, FailFirmware, FailExport, FailPackage, Failed, Types
<1>7. ASSUME make'.config = make.config, stamp' = stamp, time' = time, NEW x \in Kinds \cup Targets
      PROVE  Written(x)' = Written(x)
  <2>1. StandsFor(x, make.config)' = StandsFor(x, make.config)
    BY <1>7 DEF StandsFor
  <2>. QED  BY <1>7, <2>1 DEF Written
<1>8. ASSUME done' = done, make'.config = make.config, stamp' = stamp, time' = time,
             make'.exit = "ok" => make'.state = "idle" /\ Closure(make.config.goal) \subseteq done
      PROVE  DoneUpToDate'
  <2>1. \A k \in Kinds : Value(k)' = Value(k)
    BY <1>8 DEF Value, StandsFor
  <2>2. \A t \in Targets : Needs(t) \subseteq Kinds \cup Targets
    BY <1>1, KindsAre DEF Needs, Targets
  <2>3. ASSUME NEW t \in Targets \cap done, t # "elf"
        PROVE  \A x \in Needs(t) : Written(x)' <= time'[t]
    BY <1>7, <1>8, <2>2, <2>3 DEF DoneUpToDate
  <2>. QED  BY <1>1, <1>3, <1>8, <2>1, <2>3 DEF DoneUpToDate
<1>9. ASSUME Keep PROVE DoneUpToDate'
  <2>1. make' = make /\ stamp' = stamp /\ time' = time
    BY <1>9 DEF Keep, files
  <2>2. PICK kept : /\ kept = {x \in Kinds \cup Targets : Due(x) /\ UpToDate(x)}
                    /\ done' = done \cup kept
    BY <1>9 DEF Keep
  <2>3. \A k \in Kinds : Value(k)' = Value(k)
    BY <2>1 DEF Value, StandsFor
  <2>4. \A t \in Targets : Needs(t) \subseteq Kinds \cup Targets
    BY <1>1, KindsAre DEF Needs, Targets
  <2>5. \A k \in Kinds \cap kept : stamp[k][Value(k)] > 0
    BY <2>2 DEF UpToDate, Written, Value
  <2>6. ASSUME NEW t \in Targets \cap kept
        PROVE  Needs(t) \subseteq done /\ time[t] > 0 /\ \A x \in Needs(t) : Written(x) <= time[t]
    <3>1. Due(t) /\ ~OutOfDate(t)
      BY <1>1, <2>2, <2>6 DEF UpToDate
    <3>2. \A x \in Kinds \cup Targets : Written(x) \in Nat
      <4>1. \A k \in Kinds : Written(k) \in Nat
        BY ValuesOf DEF Written, Types
      <4>. QED  BY <1>1, <4>1 DEF Written, Types
    <3>3. time[t] \in Nat
      BY DEF Types
    <3>. QED  BY <2>4, <3>1, <3>2, <3>3 DEF Due, OutOfDate
  <2>7. kept \subseteq Closure(make.config.goal) /\ (kept # {} => make.state = "building")
    BY <2>2 DEF Due
  <2>8. ASSUME NEW t \in Targets \cap done'
        PROVE  /\ Needs(t) \subseteq done' /\ time[t] > 0
               /\ t # "elf" => \A x \in Needs(t) : Written(x)' <= time[t]
    BY <1>7, <2>1, <2>2, <2>4, <2>6 DEF DoneUpToDate
  <2>9. \A k \in Kinds \cap done' : stamp[k][Value(k)] > 0
    BY <2>2, <2>5 DEF DoneUpToDate
  <2>10. make.exit = "ok" => make.state = "idle" /\ Closure(make.config.goal) \subseteq done'
    BY <2>2 DEF DoneUpToDate
  <2>11. done' \subseteq Closure(make.config.goal)
    BY <2>2, <2>7 DEF DoneUpToDate
  <2>. QED  BY <1>1, <1>3, <2>1, <2>3, <2>8, <2>9, <2>10, <2>11 DEF DoneUpToDate
<1>10. ASSUME NEW k \in Kinds, MakeStamp(k) PROVE DoneUpToDate'
  <2>1. /\ make.state = "building" /\ k \in Closure(make.config.goal) \ done
        /\ done' = done \cup {k} /\ make' = make /\ time' = time /\ clock' = clock + 1
    BY <1>10, StampWritten
  <2>2. stamp'[k] = [v \in Values(k) |-> IF v = Value(k) THEN clock + 1
                                         ELSE IF k \in Replaced THEN 0 ELSE stamp[k][v]]
    BY <1>10, StampWritten
  <2>3. \A j \in Kinds \ {k} : stamp'[j] = stamp[j]
    BY <1>10, StampWritten
  <2>4. \A j \in Kinds : Value(j)' = Value(j)
    BY <2>1 DEF Value, StandsFor
  <2>5. stamp'[k][Value(k)] = clock + 1
    <3>1. Value(k) \in Values(k)
      BY ValuesOf DEF Value, Types
    <3>. QED  BY <2>2, <3>1
  <2>6. ASSUME NEW t \in Targets \cap done, NEW x \in Needs(t) PROVE Written(x)' = Written(x)
    <3>1. x # k
      BY <2>1, <2>6 DEF DoneUpToDate
    <3>2. StandsFor(x, make.config)' = StandsFor(x, make.config)
      BY <2>1 DEF StandsFor
    <3>. QED  BY <2>1, <2>3, <3>1, <3>2 DEF Written
  <2>7. ASSUME NEW t \in Targets \cap done'
        PROVE  /\ Needs(t) \subseteq done' /\ time[t] > 0
               /\ t # "elf" => \A x \in Needs(t) : Written(x)' <= time[t]
    <3>1. t \in done
      BY <1>1, <2>1
    <3>. QED  BY <2>1, <2>6, <3>1 DEF DoneUpToDate
  <2>8. \A j \in Kinds \cap done' : stamp'[j][Value(j)] > 0
    <3>1. \A j \in Kinds \cap done' : j = k \/ (j \in done /\ j \in Kinds \ {k})
      BY <2>1
    <3>. QED  BY <1>1, <2>3, <2>5, <3>1 DEF DoneUpToDate
  <2>9. make.exit # "ok" /\ done' \subseteq Closure(make.config.goal)
    BY <2>1 DEF DoneUpToDate
  <2>. QED  BY <1>1, <1>3, <2>1, <2>4, <2>7, <2>8, <2>9 DEF DoneUpToDate
<1>11. BuildElf => DoneUpToDate'
  <2>. SUFFICES ASSUME BuildElf PROVE DoneUpToDate'
    OBVIOUS
  <2>1. "elf" \in Targets /\ Due("elf")
    BY RunsTarget DEF BuildElf, Targets
  <2>2. time'["elf"] > 0 /\ \A u \in Targets \ {"elf"} : time'[u] = time[u]
    <3>1. time'["elf"] = BuiltAt /\ \A u \in Targets \ {"elf"} : time'[u] = time[u]
      BY <2>1, PackageTimes DEF BuildElf
    <3>. QED  BY <1>1, <3>1, BuiltAtIs
  <2>. QED  BY <1>2, <2>1, <2>2, DoneGrows DEF BuildElf, Done
<1>12. BuildRootfs => DoneUpToDate'
  <2>. SUFFICES ASSUME BuildRootfs PROVE DoneUpToDate'
    OBVIOUS
  <2>1. "rootfs" \in Targets /\ Due("rootfs")
    BY RunsTarget DEF BuildRootfs, Targets
  <2>2. time'["rootfs"] = clock + 1 /\ \A u \in Targets \ {"elf", "rootfs"} : time'[u] = time[u]
    BY <2>1, PackageTimes DEF BuildRootfs
  <2>. QED  BY <1>1, <1>2, <2>1, <2>2, DoneGrows DEF BuildRootfs, Done
<1>13. ExportPackaged => DoneUpToDate'
  <2>. SUFFICES ASSUME ExportPackaged PROVE DoneUpToDate'
    OBVIOUS
  <2>1. "export" \in Targets /\ Due("export")
    BY RunsTarget DEF ExportPackaged, Targets
  <2>2. time'["export"] = clock + 1 /\ \A u \in Targets \ {"elf", "export"} : time'[u] = time[u]
    BY <2>1, PackageTimes DEF ExportPackaged
  <2>. QED  BY <1>1, <1>2, <2>1, <2>2, DoneGrows DEF ExportPackaged, Done
<1>14. BuildFirmware => DoneUpToDate'
  <2>. SUFFICES ASSUME BuildFirmware PROVE DoneUpToDate'
    OBVIOUS
  <2>1. "firmware" \in Targets /\ Due("firmware")
    BY RunsTarget DEF BuildFirmware, Targets
  <2>2. time'["firmware"] = clock + 1 /\ \A u \in Targets \ {"elf", "firmware"} : time'[u] = time[u]
    BY <2>1 DEF BuildFirmware, Types
  <2>. QED  BY <1>1, <1>2, <2>1, <2>2, DoneGrows DEF BuildFirmware, Done
<1>15. ExportBuilt => DoneUpToDate'
  <2>. SUFFICES ASSUME ExportBuilt PROVE DoneUpToDate'
    OBVIOUS
  <2>1. "export" \in Targets /\ Due("export")
    BY RunsTarget DEF ExportBuilt, Targets
  <2>2. time'["export"] = clock + 1 /\ \A u \in Targets \ {"elf", "export"} : time'[u] = time[u]
    BY <2>1 DEF ExportBuilt, Types
  <2>. QED  BY <1>1, <1>2, <2>1, <2>2, DoneGrows DEF ExportBuilt, Done
<1>16. Exit => DoneUpToDate'
  BY <1>8 DEF Exit, files, Types
<1>17. Stop \/ UNCHANGED vars => DoneUpToDate'
  <2>1. ASSUME Stop \/ UNCHANGED vars
        PROVE  make' = make /\ done' = done /\ stamp' = stamp /\ time' = time
    BY <2>1 DEF Stop, vars
  <2>. QED  BY <1>8, <2>1 DEF DoneUpToDate
<1>. QED  BY <1>4, <1>5, <1>6, <1>9, <1>10, <1>11, <1>12, <1>13, <1>14, <1>15, <1>16, <1>17 DEF Next

-----------------------------------------------------------------------------
(* What is up to date is right *)

\* What is known of a stamp that counts, for a target that is up to date.
LEMMA FreshFollows ==
    ASSUME Types, DoneUpToDate, NEW t \in Targets \cap done, t # "elf",
           NEW k \in Kinds \cap Needs(t), Fresh(k)
    PROVE  Follows(t, k, make.config)
<1>1. k \in done /\ Written(k) <= time[t] /\ stamp[k][Value(k)] > 0
  BY DEF DoneUpToDate
<1>. QED  BY <1>1 DEF Follows, Fresh, Written, Value

\* A rootfs that is up to date is of the command line.
LEMMA RootfsIsRight ==
    ASSUME Types, DoneUpToDate, RootfsSound, "rootfs" \in done
    PROVE  RootfsRight(rootfs) /\ time["rootfs"] > 0
<1>1. "rootfs" \in Targets /\ {"iso", "cfg", "vars"} \subseteq Kinds /\ make.config \in Configs
  BY KindsAre DEF Targets, Types
<1>2. time["rootfs"] > 0 /\ Needs("rootfs") = {"iso", "cfg", "vars"}
  BY <1>1 DEF DoneUpToDate, Needs
<1>3. \A k \in {"iso", "cfg", "vars"} : Fresh(k) => Follows("rootfs", k, make.config)
  BY <1>1, <1>2, FreshFollows
<1>. QED  BY <1>1, <1>2, <1>3 DEF RootfsSound, RootfsRight, ElfRight

\* So is a firmware, which holds the rootfs that is there.
LEMMA FirmwareIsRight ==
    ASSUME Types, ThereIf, DoneUpToDate, RootfsSound, FirmwareSound, "firmware" \in done
    PROVE  /\ FirmwareRight(firmware) /\ firmware # Nothing /\ firmware.rootfs = rootfs
           /\ "rootfs" \in done /\ "dtb" \in done
           /\ stamp["dtb"][make.config.dtb] \in 1..time["firmware"] /\ time["firmware"] > 0
           /\ time["rootfs"] <= time["firmware"]
<1>1. /\ "firmware" \in Targets /\ "rootfs" \in Targets /\ "dtb" \in Kinds /\ "rootfs" \notin Kinds
      /\ make.config \in Configs
  BY KindsAre DEF Targets, Types
<1>2. Needs("firmware") = {"dtb", "rootfs"}
  BY DEF Needs
<1>3. /\ {"dtb", "rootfs"} \subseteq done /\ time["firmware"] > 0
      /\ Written("dtb") <= time["firmware"] /\ Written("rootfs") <= time["firmware"]
  BY <1>1, <1>2 DEF DoneUpToDate
<1>4. Written("rootfs") = time["rootfs"] /\ Written("dtb") = stamp["dtb"][Value("dtb")]
  BY <1>1 DEF Written, Value
<1>5. stamp["dtb"][Value("dtb")] > 0 /\ Value("dtb") = make.config.dtb
  BY <1>1, <1>3 DEF DoneUpToDate, Value, StandsFor
<1>6. firmware.rootfs = rootfs /\ firmware # Nothing
  BY <1>3, <1>4 DEF FirmwareSound, ThereIf
<1>7. Fresh("dtb") => firmware.dtb = make.config.dtb
  BY <1>1, <1>2, <1>3, FreshFollows DEF FirmwareSound
<1>8. stamp["dtb"][make.config.dtb] \in Nat /\ time["firmware"] \in Nat
  BY <1>1, <1>5, ValuesOf DEF Types, Value
<1>. QED  BY <1>3, <1>4, <1>5, <1>6, <1>7, <1>8, RootfsIsRight DEF FirmwareRight

\* What the export rules need is packaged and found as it is exported.
LEMMA BuiltIsExported ==
    ASSUME Types, ThereIf, DoneUpToDate, TriedSound, RootfsSound, FirmwareSound, ElfKept,
           ExportBuilt
    PROVE  /\ export' # Nothing
           /\ export'.firmware = [rootfs |-> export'.rootfs, dtb |-> export'.dt]
           /\ FirmwareRight(export'.firmware)
           /\ Fresh("cfg") /\ Fresh("vars") =>
                  ((suite = "spec2006" => export'.elf.tune = make.config.tune)
                   => export'.elf = export'.rootfs.elf)
<1>1. /\ {"export", "firmware", "rootfs"} \subseteq Targets
      /\ {"iso", "cfg", "vars"} \subseteq Kinds
      /\ make.config \in Configs /\ make.config.dtb \in Field("dtb")
  BY KindsAre, FieldsOf DEF Targets, Types
<1>2. Due("export") /\ suite # "spec2017" /\ dt = make.config.dtb /\ elf # Nothing
  BY <1>1, RunsTarget DEF ExportBuilt, DtFound
<1>3. "firmware" \in done
  BY <1>1, <1>2, NeedsDone DEF Needs, Types
<1>4. /\ FirmwareRight(firmware) /\ firmware # Nothing /\ firmware.rootfs = rootfs
      /\ "rootfs" \in done
      /\ stamp["dtb"][dt] \in 1..time["firmware"] /\ time["firmware"] > 0
      /\ time["rootfs"] <= time["firmware"]
  BY <1>2, <1>3, FirmwareIsRight
<1>5. firmware.dtb = make.config.dtb
  BY <1>1, <1>2, <1>4 DEF FirmwareSound
<1>6. rootfs \in Rootfses /\ firmware \in Firmwares /\ elf \in Elves
  <2>1. rootfs # Nothing
    BY <1>1, <1>4 DEF DoneUpToDate, ThereIf
  <2>. QED  BY <1>2, <1>4, <2>1 DEF Types
<1>7. firmware = [rootfs |-> rootfs, dtb |-> make.config.dtb]
  BY <1>4, <1>5, <1>6 DEF Firmwares
<1>8. export' = [elf |-> elf, rootfs |-> rootfs, firmware |-> firmware, dt |-> make.config.dtb]
  BY DEF ExportBuilt
<1>9. export' # Nothing
  <2>1. export' \in Exports
    BY <1>1, <1>6, <1>8 DEF Exports
  <2>. QED  BY <2>1, NothingAssumption
<1>10. ASSUME Fresh("cfg"), Fresh("vars"), suite = "spec2006" => elf.tune = make.config.tune
       PROVE  elf = rootfs.elf
  <2>1. time["rootfs"] > 0 /\ Needs("rootfs") = {"iso", "cfg", "vars"}
    BY <1>1, <1>4 DEF DoneUpToDate, Needs
  <2>2. Follows("rootfs", "cfg", make.config) /\ Follows("rootfs", "vars", make.config)
    BY <1>1, <1>4, <1>10, <2>1, FreshFollows
  <2>. QED  BY <1>1, <1>2, <1>10, <2>1, <2>2 DEF ElfKept
<1>11. export'.elf = elf /\ export'.rootfs = rootfs
  BY <1>8
<1>. QED  BY <1>4, <1>7, <1>8, <1>9, <1>10, <1>11

\* What is packaged for an export is of the command line.
LEMMA PackagedIsExported ==
    ASSUME Types, ThereIf, DoneUpToDate, TriedSound, WorkspaceSound, CacheSound, ExportPackaged
    PROVE  /\ export' # Nothing
           /\ export'.firmware = [rootfs |-> export'.rootfs, dtb |-> export'.dt]
           /\ FirmwareRight(export'.firmware)
           /\ export'.elf = export'.rootfs.elf
<1>1. /\ "export" \in Targets /\ {"iso", "cfg", "vars"} \subseteq Kinds
      /\ make.config \in Configs /\ make.config.dtb \in Field("dtb")
  BY KindsAre, FieldsOf DEF Targets, Types
<1>2. Due("export") /\ suite = "spec2017"
  BY <1>1, RunsTarget DEF ExportPackaged
<1>3. stamp["iso"][Value("iso")] > 0
  BY <1>2, PackagingNeeds
<1>4. /\ Packaged \in Rootfses /\ BuiltElf \in Elves
      /\ Packaged.elf = BuiltElf /\ Packaged.from = workspace /\ Packaged.input = make.config.input
      /\ BuiltElf.cfg = make.config.cfg /\ BuiltElf.tune = make.config.tune
      /\ BuiltElf.iso = workspace.iso
  BY <1>2, <1>3, PackagedIs, BuiltElfIs
<1>5. Fresh("iso") => workspace = [iso |-> make.config.iso, whole |-> TRUE]
  <2>1. Value("iso") = make.config.iso /\ Value("iso") \in Values("iso")
    BY <1>1, ValuesOf DEF Value, StandsFor
  <2>2. Fresh("iso") => tried["iso"] = make.config.iso
    BY <1>2 DEF Fresh, Replaced, StandsFor
  <2>. QED  BY <1>3, <2>1, <2>2 DEF WorkspaceSound
<1>6. export' = [elf |-> BuiltElf, rootfs |-> Packaged,
                 firmware |-> [rootfs |-> Packaged, dtb |-> make.config.dtb], dt |-> make.config.dtb]
  BY DEF ExportPackaged
<1>7. export' # Nothing
  <2>1. [rootfs |-> Packaged, dtb |-> make.config.dtb] \in Firmwares
    BY <1>1, <1>4 DEF Firmwares
  <2>2. export' \in Exports
    BY <1>1, <1>4, <1>6, <2>1 DEF Exports
  <2>. QED  BY <2>2, NothingAssumption
<1>8. ElfRight(BuiltElf) /\ RootfsRight(Packaged)
  BY <1>4, <1>5 DEF ElfRight, RootfsRight
<1>9. FirmwareRight([rootfs |-> Packaged, dtb |-> make.config.dtb])
  BY <1>8 DEF FirmwareRight
<1>. QED  BY <1>4, <1>6, <1>7, <1>9

\* Once the goal is up to date, nothing is due any more.
LEMMA NothingDue ==
    ASSUME Types, DoneUpToDate, make.config.goal \in done
    PROVE  \A x : ~Due(x)
<1>. DEFINE g == make.config.goal
<1>1. /\ g \in {"elf", "firmware", "export"} /\ suite \in {"spec2006", "spec2017", "spec2026"}
      /\ {"elf", "export", "firmware", "rootfs"} \subseteq Targets
  BY FieldsOf DEF Types, Targets
<1>2. \A t \in Targets \cap done : Needs(t) \subseteq done
  BY DEF DoneUpToDate
<1>3. "rootfs" \in Needs("firmware")
  BY DEF Needs
<1>4. g \in done /\ Needs(g) \subseteq done
  BY <1>1, <1>2
<1>5. "firmware" \in done => Needs("firmware") \subseteq done /\ Needs("rootfs") \subseteq done
  BY <1>1, <1>2, <1>3
<1>6. Closure(g) \subseteq done
  BY <1>4, <1>5 DEF Closure
<1>. QED  BY <1>6 DEF Due

\* What make was asked for, and has, nothing changes until the next make.
LEMMA NothingChanges ==
    ASSUME Types, DoneUpToDate, make.config.goal \in done, [Next]_vars,
           ~\E c \in Configs : Start(c)
    PROVE  tried' = tried /\ elf' = elf
<1>1. \A x : ~Due(x)
  BY NothingDue
<1>2. ~FailPrepare /\ \A k \in Kinds : ~MakeStamp(k)
  BY <1>1 DEF FailPrepare, MakeStamp, Runs
<1>3. \A t \in Targets : ~Packaging(t)
  BY <1>1 DEF Packaging, Packager
<1>. QED  BY <1>2, <1>3, StampsWritten, ElfWritten

\* Who writes an export.
LEMMA ExportWritten ==
    ASSUME Types, [Next]_vars
    PROVE  \/ \E c \in Configs : Start(c)
           \/ ExportBuilt \/ ExportPackaged
           \/ export' = export /\ time'["export"] = time["export"]
<1>. DEFINE Goal ==
           \/ \E c \in Configs : Start(c)
           \/ ExportBuilt \/ ExportPackaged
           \/ export' = export /\ time'["export"] = time["export"]
<1>1. ASSUME NEW c \in Configs, Start(c) PROVE Goal
  BY <1>1 DEF Types, Start
<1>2. ASSUME Keep PROVE Goal
  BY <1>2 DEF Types, Keep, files
<1>3. ASSUME NEW k \in Kinds, MakeStamp(k) PROVE Goal
  BY <1>3 DEF Types, MakeStamp, Done
<1>4. ASSUME BuildElf PROVE Goal
  <2>1. \A u \in Targets \ {"elf", "elf"} : time'[u] = time[u]
    BY <1>4, PackageTimes DEF BuildElf, Targets
  <2>. QED  BY <1>4, <2>1 DEF BuildElf, Done, Targets
<1>5. ASSUME BuildRootfs PROVE Goal
  <2>1. \A u \in Targets \ {"elf", "rootfs"} : time'[u] = time[u]
    BY <1>5, PackageTimes DEF BuildRootfs, Targets
  <2>. QED  BY <1>5, <2>1 DEF BuildRootfs, Done, Targets
<1>6. ASSUME BuildFirmware PROVE Goal
  BY <1>6 DEF Types, BuildFirmware, Done
<1>7. ASSUME ExportBuilt PROVE Goal
  BY <1>7 DEF Types, ExportBuilt, Done
<1>8. ASSUME ExportPackaged PROVE Goal
  BY <1>8 DEF Types, ExportPackaged, Done, Package
<1>9. ASSUME FailPrepare PROVE Goal
  BY <1>9 DEF Types, FailPrepare, Failed
<1>10. ASSUME NEW t \in Targets, FailPackage(t) PROVE Goal
  <2>1. time' = time \/ Package("elf")
    BY <1>10 DEF FailPackage
  <2>2. \A u \in Targets \ {"elf"} : time'[u] = time[u]
    BY <2>1, PackageTimes DEF Targets
  <2>. QED  BY <1>10, <2>2 DEF FailPackage, Targets
<1>11. ASSUME FailFirmware PROVE Goal
  BY <1>11 DEF Types, FailFirmware, Failed
<1>12. ASSUME FailExport PROVE Goal
  BY <1>12 DEF Types, FailExport, files, Failed
<1>13. ASSUME Exit PROVE Goal
  BY <1>13 DEF Types, Exit, files
<1>14. ASSUME Stop \/ UNCHANGED vars PROVE Goal
  BY <1>14 DEF Types, Stop, vars
<1>. QED  BY <1>1, <1>2, <1>3, <1>4, <1>5, <1>6, <1>7, <1>8, <1>9, <1>10, <1>11, <1>12, <1>13,
      <1>14 DEF Next

\* A make that goes on has been one before, and forgets nothing.
LEMMA StillBuilding ==
    ASSUME Types, [Next]_vars
    PROVE  \/ \E c \in Configs : Start(c)
           \/ make'.state # "building"
           \/ make.state = "building" /\ done \subseteq done'
           \/ make' = make /\ done' = done
<1>. DEFINE Goal ==
           \/ \E c \in Configs : Start(c)
           \/ make'.state # "building"
           \/ make.state = "building" /\ done \subseteq done'
           \/ make' = make /\ done' = done
<1>1. ASSUME NEW c \in Configs, Start(c) PROVE Goal
  BY <1>1 DEF Types, Start
<1>2. ASSUME Keep PROVE Goal
  BY <1>2 DEF Types, Keep, files
<1>3. ASSUME NEW k \in Kinds, MakeStamp(k) PROVE Goal
  BY <1>3, StampWritten
<1>4. ASSUME BuildElf PROVE Goal
  BY <1>4 DEF Types, BuildElf, Done, Package
<1>5. ASSUME BuildRootfs PROVE Goal
  BY <1>5 DEF Types, BuildRootfs, Done, Package
<1>6. ASSUME BuildFirmware PROVE Goal
  BY <1>6 DEF Types, BuildFirmware, Done
<1>7. ASSUME ExportBuilt PROVE Goal
  BY <1>7 DEF Types, ExportBuilt, Done
<1>8. ASSUME ExportPackaged PROVE Goal
  BY <1>8 DEF Types, ExportPackaged, Done, Package
<1>9. ASSUME FailPrepare PROVE Goal
  BY <1>9 DEF Types, FailPrepare, Failed
<1>10. ASSUME NEW t \in Targets, FailPackage(t) PROVE Goal
  BY <1>10 DEF Types, FailPackage, Package, Failed
<1>11. ASSUME FailFirmware PROVE Goal
  BY <1>11 DEF Types, FailFirmware, Failed
<1>12. ASSUME FailExport PROVE Goal
  BY <1>12 DEF Types, FailExport, files, Failed
<1>13. ASSUME Exit PROVE Goal
  BY <1>13 DEF Types, Exit, files
<1>14. ASSUME Stop \/ UNCHANGED vars PROVE Goal
  BY <1>14 DEF Types, Stop, vars
<1>. QED  BY <1>1, <1>2, <1>3, <1>4, <1>5, <1>6, <1>7, <1>8, <1>9, <1>10, <1>11, <1>12, <1>13,
      <1>14 DEF Next

\* Only its own recipe brings the export up to date.
LEMMA ExportNotDone ==
    ASSUME Types, ExportSound, DoneUpToDate, [Next]_vars, "export" \notin done, "export" \in done'
    PROVE  ExportBuilt \/ ExportPackaged
<1>1. "export" \in Targets /\ "export" \notin Kinds /\ time["export"] \in Nat
  BY KindsAre DEF Targets, Types
<1>2. ~Keep
  <2>1. ASSUME Keep PROVE FALSE
    <3>1. Due("export") /\ UpToDate("export")
      BY <2>1 DEF Keep
    <3>2. time["export"] # 0
      BY <1>1, <3>1 DEF UpToDate, OutOfDate
    <3>3. make.config.goal = "export" /\ make.state = "building"
      BY <3>1, FieldsOf, ClosureOf DEF Due, Types
    <3>. QED  BY <3>2, <3>3 DEF ExportSound
  <2>. QED  BY <2>1
<1>3. ASSUME NEW k \in Kinds, MakeStamp(k) PROVE FALSE
  <2>1. done' = done \cup {k}
    BY <1>3, StampWritten
  <2>. QED  BY <1>1, <2>1
<1>4. ~BuildElf /\ ~BuildRootfs /\ ~BuildFirmware
  BY DEF BuildElf, BuildRootfs, BuildFirmware, Done
<1>5. \A c \in Configs : ~Start(c)
  BY DEF Start
<1>6. ~FailPrepare /\ ~FailFirmware /\ ~FailExport /\ \A t \in Targets : ~FailPackage(t)
  BY DEF FailPrepare, FailFirmware, FailExport, FailPackage, Failed
<1>7. ~Exit /\ ~Stop /\ ~UNCHANGED vars
  BY DEF Exit, Stop, vars
<1>. QED  BY <1>2, <1>3, <1>4, <1>5, <1>6, <1>7 DEF Next

\* What has been exported stays right, until another make starts.
LEMMA StepExportSound ==
    ASSUME Types, Types', ThereIf, DoneUpToDate, TriedSound, WorkspaceSound, CacheSound,
           RootfsSound,
           FirmwareSound, ElfKept, ExportSound, [Next]_vars
    PROVE  ExportSound'
<1>1. suite' = suite
  BY ProductsWritten
<1>2. ASSUME make'.config = make.config, NEW k, tried'[k] = tried[k]
      PROVE  Fresh(k)' <=> Fresh(k)
  BY <1>1, <1>2 DEF Fresh, Closure, Needs, Replaced, StandsFor
<1>3. ASSUME make'.config = make.config, tried' = tried, NEW f
      PROVE  FirmwareRight(f)' <=> FirmwareRight(f)
  BY <1>1, <1>2, <1>3 DEF FirmwareRight, RootfsRight, ElfRight
<1>4. ASSUME NEW c \in Configs, Start(c) PROVE ExportSound'
  <2>1. done' = {} /\ make'.config = c
    BY <1>4 DEF Start
  <2>2. export' \in {export, Nothing} /\ (c.goal = "export" => time'["export"] = 0)
    BY <1>4 DEF Start, Types, Targets
  <2>. QED  BY <2>1, <2>2 DEF ExportSound
<1>5. ASSUME ExportBuilt PROVE ExportSound'
  <2>1. make' = make /\ tried' = tried /\ "export" \in done'
    BY <1>5 DEF ExportBuilt, Done
  <2>2. /\ export' # Nothing /\ export'.firmware = [rootfs |-> export'.rootfs, dtb |-> export'.dt]
        /\ FirmwareRight(export'.firmware)
        /\ Fresh("cfg") /\ Fresh("vars") =>
               ((suite = "spec2006" => export'.elf.tune = make.config.tune)
                => export'.elf = export'.rootfs.elf)
    BY <1>5, BuiltIsExported
  <2>3. FirmwareRight(export.firmware)'
    BY <1>3, <2>1, <2>2
  <2>4. (Fresh("cfg")' <=> Fresh("cfg")) /\ (Fresh("vars")' <=> Fresh("vars"))
    BY <1>2, <2>1
  <2>5. suite # "spec2017"
    BY <1>5 DEF ExportBuilt
  <2>. QED  BY <1>1, <2>1, <2>2, <2>3, <2>4, <2>5 DEF ExportSound
<1>6. ASSUME ExportPackaged PROVE ExportSound'
  <2>1. make' = make /\ tried' = tried /\ "export" \in done'
    BY <1>6 DEF ExportPackaged, Done
  <2>2. /\ export' # Nothing /\ export'.firmware = [rootfs |-> export'.rootfs, dtb |-> export'.dt]
        /\ FirmwareRight(export'.firmware) /\ export'.elf = export'.rootfs.elf
    BY <1>6, PackagedIsExported
  <2>3. FirmwareRight(export.firmware)'
    BY <1>3, <2>1, <2>2
  <2>. QED  BY <2>1, <2>2, <2>3 DEF ExportSound
<1>7. ASSUME ~ExportBuilt, ~ExportPackaged, ~\E c \in Configs : Start(c) PROVE ExportSound'
  <2>1. export' = export /\ time'["export"] = time["export"] /\ make'.config = make.config
    BY <1>7, ExportWritten, ConfigStays
  <2>2. "export" \in done' => "export" \in done
    BY <1>7, ExportNotDone
  <2>3. make'.state = "building" => make.state = "building" /\ done \subseteq done'
    <3>1. make' = make /\ done' = done =>
              (make'.state = "building" => make.state = "building" /\ done \subseteq done')
      OBVIOUS
    <3>. QED  BY <1>7, <3>1, StillBuilding
  <2>4. "export" \in done => tried' = tried
    <3>1. ASSUME "export" \in done PROVE tried' = tried
      <4>1. make.config.goal \in done
        BY <3>1, FieldsOf, ClosureOf DEF DoneUpToDate, Types
      <4>. QED  BY <1>7, <4>1, NothingChanges
    <3>. QED  BY <3>1
  <2>5. make'.config.goal = "export" /\ make'.state = "building" /\ "export" \notin done' =>
            time'["export"] = 0
    BY <2>1, <2>3 DEF ExportSound
  <2>6. ASSUME "export" \in done'
        PROVE  /\ export' # Nothing /\ FirmwareRight(export.firmware)'
               /\ (/\ suite' # "spec2017" => Fresh("cfg")' /\ Fresh("vars")'
                   /\ suite' = "spec2006" => export'.elf.tune = make'.config.tune)
                    => export'.elf = export'.rootfs.elf
    <3>1. "export" \in done /\ tried' = tried
      BY <2>2, <2>4, <2>6
    <3>2. FirmwareRight(export.firmware)'
      BY <1>3, <2>1, <3>1 DEF ExportSound
    <3>3. (Fresh("cfg")' <=> Fresh("cfg")) /\ (Fresh("vars")' <=> Fresh("vars"))
      BY <1>2, <2>1, <3>1
    <3>. QED  BY <1>1, <2>1, <3>1, <3>2, <3>3 DEF ExportSound
  <2>. QED  BY <2>1, <2>5, <2>6 DEF ExportSound
<1>. QED  BY <1>4, <1>5, <1>6, <1>7

\* The ELF that make was asked for is built, or found, or kept, for the command
\* line, and stays so until another make starts.
LEMMA StepElfDone ==
    ASSUME Types, ThereIf, DoneUpToDate, TriedSound, WorkspaceSound, CacheSound, ElfSound, ElfDone,
           [Next]_vars
    PROVE  ElfDone'
<1>1. /\ suite' = suite /\ "elf" \in Targets /\ "elf" \notin Kinds
      /\ {"iso", "cfg", "vars"} \subseteq Kinds /\ make.config \in Configs
  BY ProductsWritten, KindsAre DEF Targets, Types
<1>2. ASSUME BuildElf PROVE ElfDone'
  <2>1. Due("elf")
    BY <1>1, <1>2, RunsTarget DEF BuildElf
  <2>2. stamp["iso"][Value("iso")] > 0
    BY <2>1, PackagingNeeds
  <2>3. /\ BuiltElf \in Elves
        /\ BuiltElf.cfg = make.config.cfg /\ BuiltElf.tune = make.config.tune
        /\ suite = "spec2017" => BuiltElf.iso = workspace.iso
    BY <2>2, BuiltElfIs
  <2>4. Fresh("iso") => workspace.iso = make.config.iso
    <3>1. Value("iso") = make.config.iso /\ Value("iso") \in Values("iso")
      BY <1>1, ValuesOf DEF Value, StandsFor
    <3>2. Fresh("iso") => tried["iso"] = make.config.iso
      BY DEF Fresh, Replaced, StandsFor, Types
    <3>. QED  BY <2>2, <3>1, <3>2 DEF WorkspaceSound
  <2>5. elf' = BuiltElf /\ tried' = tried /\ make'.config = make.config
    BY <1>2 DEF BuildElf, Package, Done
  <2>6. ElfRight(elf)'
    BY <1>1, <2>3, <2>4, <2>5 DEF ElfRight, Fresh, Closure, Needs, Replaced, StandsFor
  <2>. QED  BY <2>3, <2>5, <2>6, NothingAssumption DEF ElfDone
<1>3. ASSUME Keep, "elf" \notin done, "elf" \in done' PROVE ElfDone'
  <2>1. Due("elf") /\ ~OutOfDate("elf")
    BY <1>1, <1>3 DEF Keep, UpToDate
  <2>2. /\ time["elf"] > 0 /\ Needs("elf") \subseteq done
        /\ \A k \in Kinds \cap Needs("elf") : Written(k) <= time["elf"] /\ stamp[k][Value(k)] > 0
    <3>1. \A k \in Kinds : Written(k) \in Nat
      BY ValuesOf DEF Written, Types
    <3>2. time["elf"] \in Nat
      BY <1>1 DEF Types
    <3>3. \A k \in Kinds \cap Needs("elf") : stamp[k][Value(k)] > 0
      BY <1>1, <2>1, NeedsDone
    <3>. QED  BY <1>1, <2>1, <3>1, <3>2, <3>3 DEF Due, OutOfDate
  <2>3. \A k \in {"iso", "cfg", "vars"} : Fresh(k) => k \in Needs("elf")
    <3>1. make.config.goal = "elf"
      BY <2>1, FieldsOf, ClosureOf DEF Due, Types
    <3>. QED  BY <3>1 DEF Fresh, Closure, Needs
  <2>4. \A k \in {"iso", "cfg", "vars"} : Fresh(k) => Follows("elf", k, make.config)
    BY <1>1, <2>2, <2>3 DEF Follows, Fresh, Written, Value
  <2>5. Fresh("vars") => suite # "spec2006"
    BY <2>3 DEF Needs
  <2>6. ElfRight(elf) /\ elf # Nothing
    BY <1>1, <2>2, <2>4, <2>5 DEF ElfSound, ElfRight, ThereIf
  <2>7. elf' = elf /\ tried' = tried /\ make'.config = make.config
    BY <1>3 DEF Keep, files
  <2>8. ElfRight(elf)' <=> ElfRight(elf)
    BY <1>1, <2>7 DEF ElfRight, Fresh, Closure, Needs, Replaced, StandsFor
  <2>. QED  BY <2>6, <2>7, <2>8 DEF ElfDone
<1>4. \A c \in Configs : Start(c) => "elf" \notin done'
  BY DEF Start
<1>5. ASSUME "elf" \in done, "elf" \in done' PROVE ElfDone'
  <2>1. ~\E c \in Configs : Start(c)
    BY <1>4, <1>5
  <2>2. make.config.goal \in done
    BY <1>5, FieldsOf, ClosureOf DEF DoneUpToDate, Types
  <2>3. tried' = tried /\ elf' = elf /\ make'.config = make.config
    BY <2>1, <2>2, NothingChanges, ConfigStays
  <2>4. ElfRight(elf)' <=> ElfRight(elf)
    BY <1>1, <2>3 DEF ElfRight, Fresh, Closure, Needs, Replaced, StandsFor
  <2>. QED  BY <1>5, <2>3, <2>4 DEF ElfDone
<1>6. ASSUME "elf" \notin done, "elf" \in done', ~BuildElf, ~Keep PROVE FALSE
  <2>1. ASSUME NEW k \in Kinds, MakeStamp(k) PROVE FALSE
    <3>1. done' = done \cup {k}
      BY <2>1, StampWritten
    <3>. QED  BY <1>1, <1>6, <3>1
  <2>2. ~BuildRootfs /\ ~BuildFirmware /\ ~ExportBuilt /\ ~ExportPackaged
    BY <1>6 DEF BuildRootfs, BuildFirmware, ExportBuilt, ExportPackaged, Done
  <2>3. ~FailPrepare /\ ~FailFirmware /\ ~FailExport /\ \A t \in Targets : ~FailPackage(t)
    BY <1>6 DEF FailPrepare, FailFirmware, FailExport, FailPackage, Failed
  <2>4. ~Exit /\ ~Stop /\ ~UNCHANGED vars
    BY <1>6 DEF Exit, Stop, vars
  <2>. QED  BY <1>4, <1>6, <2>1, <2>2, <2>3, <2>4 DEF Next
<1>. QED  BY <1>2, <1>3, <1>5, <1>6 DEF ElfDone

-----------------------------------------------------------------------------
(* The theorems *)

\* Nothing is there at first.
LEMMA InitInvariant == Init => IInv
<1>. SUFFICES ASSUME Init PROVE IInv
  OBVIOUS
<1>1. /\ suite \in {"spec2006", "spec2017", "spec2026"} /\ clock = 0 /\ done = {}
      /\ make = [state |-> "idle", config |-> CHOOSE c \in Configs : TRUE, exit |-> "none"]
      /\ stamp = [k \in Kinds |-> [v \in Values(k) |-> 0]] /\ time = [t \in Targets |-> 0]
      /\ tried = [k \in Kinds |-> Nothing]
      /\ workspace = Nothing /\ cache = [t \in Field("tune") |-> Nothing]
      /\ elf = Nothing /\ rootfs = Nothing
      /\ firmware = Nothing /\ dt = Nothing /\ export = Nothing
  BY SuitesAssumption DEF Init
<1>2. make.config \in Configs
  BY <1>1, ConfigsAssumption
<1>3. /\ {"iso", "cfg", "vars", "dtb"} \subseteq Kinds
      /\ {"elf", "rootfs", "firmware", "export"} \subseteq Targets
  BY KindsAre DEF Targets
<1>4. Types
  BY <1>1, <1>2 DEF Types
<1>5. Replaced \subseteq Kinds
  BY <1>1, <1>3 DEF Replaced
<1>6. ThereIf /\ WorkspaceSound
  BY <1>1, <1>3 DEF ThereIf, WorkspaceSound
<1>7. DoneUpToDate
  BY <1>1 DEF DoneUpToDate
<1>8. TriedSound /\ StampsUnique
  BY <1>1, <1>5 DEF TriedSound, StampsUnique
<1>9. CacheSound /\ ElfSound /\ RootfsSound /\ FirmwareSound /\ ElfKept
  BY <1>1, <1>3 DEF CacheSound, ElfSound, RootfsSound, FirmwareSound, ElfKept
<1>10. ElfDone /\ ExportSound
  BY <1>1 DEF ElfDone, ExportSound
<1>. QED  BY <1>4, <1>6, <1>7, <1>8, <1>9, <1>10 DEF IInv

\* Every step keeps every part.
LEMMA StepInvariant == IInv /\ [Next]_vars => IInv'
<1>. SUFFICES ASSUME IInv, [Next]_vars PROVE IInv'
  OBVIOUS
<1>1. Types' /\ ThereIf' /\ TriedSound' /\ StampsUnique' /\ WorkspaceSound' /\ CacheSound'
  BY StepTypes, StepThereIf, StepTriedSound, StepStampsUnique, StepWorkspaceSound,
       StepCacheSound DEF IInv
<1>2. DoneUpToDate' /\ ElfSound' /\ RootfsSound' /\ FirmwareSound' /\ ElfKept'
  BY <1>1, StepDoneUpToDate, StepElfSound, StepRootfsSound, StepFirmwareSound, StepElfKept DEF IInv
<1>3. ElfDone' /\ ExportSound'
  BY <1>1, StepElfDone, StepExportSound DEF IInv
<1>. QED  BY <1>1, <1>2, <1>3 DEF IInv

\* So that they always hold.
LEMMA Invariance == Spec => []IInv
  BY InitInvariant, StepInvariant, PTL DEF Spec

\* When make says it is done, what was asked for is there and was made for the
\* command line: as far as the recipes of the stamps it depends on remove the
\* others, and else as far as the stamps are the last ones that were written.
THEOREM TargetsMadeForCommandLine == Spec => []MadeForCommandLine
<1>1. ASSUME IInv PROVE MadeForCommandLine
  <2>. SUFFICES ASSUME make.exit = "ok" PROVE MadeForCommandLine
    BY DEF MadeForCommandLine
  <2>1. /\ make.config \in Configs /\ make.config.goal \in {"elf", "firmware", "export"}
        /\ make.config.goal \in done /\ suite \in {"spec2006", "spec2017", "spec2026"}
    BY <1>1, FieldsOf, ClosureOf DEF IInv, Types, DoneUpToDate
  <2>2. CASE make.config.goal = "elf"
    BY <1>1, <2>1, <2>2 DEF IInv, ElfDone, MadeForCommandLine
  <2>3. CASE make.config.goal = "firmware"
    BY <1>1, <2>1, <2>3, FirmwareIsRight DEF IInv, MadeForCommandLine
  <2>4. CASE make.config.goal = "export"
    BY <1>1, <2>1, <2>4 DEF IInv, ExportSound, MadeForCommandLine
  <2>. QED  BY <2>1, <2>2, <2>3, <2>4
<1>. QED  BY <1>1, Invariance, PTL

\* The files that are exported together belong together: the firmware holds the
\* rootfs and the device tree that are exported; and the rootfs holds the ELF,
\* always in spec2017, else if the stamps are the last ones and, in spec2006, the
\* ELF is of the tune asked for.
THEOREM ExportsBelongTogether == Spec => []ExportedTogether
<1>1. ASSUME IInv PROVE ExportedTogether
  <2>1. make.exit = "ok" /\ make.config.goal = "export" => "export" \in done
    BY <1>1, ClosureOf DEF IInv, Types, DoneUpToDate
  <2>. QED  BY <1>1, <2>1 DEF IInv, ExportSound, ExportedTogether
<1>. QED  BY <1>1, Invariance, PTL

-----------------------------------------------------------------------------
(***************************************************************************)
(* X264Inputs, the inputs that the recipes of spec2017 decode for x264: a  *)
(* decoder and videos that its cases share without a lock.                 *)
(***************************************************************************)

CaseLines == {"idle", "packaged", "refused", "check", "clearing", "compile", "link", "linking", "meta",
          "video", "decoding", "populate"}

InputTypes ==
    /\ iso \in Isos
    /\ pc \in [Cases -> CaseLines]
    /\ exe \in Decoders \cup {None} /\ meta \in Sources \cup {None}
    /\ video \in [Videos -> VideoFiles \cup {None}]
    /\ got \in [Cases -> VideoFiles \cup {None}]
    /\ shared \in BOOLEAN /\ objs \in BOOLEAN

\* Unless cases have met, one is at work.
OneCaseAtATime == ~shared => \A c, d \in Cases : Active(c) /\ Active(d) => c = d

RightVideo(file) ==
    file.amount = "whole" /\ file.decoder = iso.sources /\ file.bitstream = iso.bitstream

\* Metadata next to a decoder is that decoder's, which is whole.
MetaOfDecoder == ~shared => (meta # None /\ exe # None => exe.whole /\ exe.sources = meta)

\* What a case has done up to its line.
DoneSoFar(c) ==
    /\ pc[c] \in {"compile", "link", "linking", "meta"} =>
         meta = None /\ video = [v \in Videos |-> None]
    /\ pc[c] = "link" => objs
    /\ pc[c] = "linking" => exe # None /\ exe.by = c /\ exe.sources = iso.sources
    /\ pc[c] = "meta" => exe # None /\ exe.whole /\ exe.sources = iso.sources
    /\ pc[c] \in {"video", "decoding", "populate"} => exe # None /\ meta = iso.sources
    /\ pc[c] = "decoding" =>
         /\ video[Data(c)] # None /\ Data(c) \notin older
         /\ video[Data(c)].by = c
         /\ video[Data(c)].decoder = iso.sources /\ video[Data(c)].bitstream = iso.bitstream
    /\ pc[c] = "populate" =>
         video[Data(c)] # None /\ (Data(c) \in cut \/ RightVideo(video[Data(c)]))

InputCases == ~shared => \A c \in Cases : DoneSoFar(c)

\* What counts as decoded, or will when nobody writes it.
Usable(v) ==
    /\ video[v] # None /\ v \notin older /\ v \notin cut
    /\ \A c \in Cases : pc[c] = "decoding" => Data(c) # v

\* A video that counts as decoded is right, unless its decoder was stopped.
InputVideos == ~shared => \A v \in Videos : Usable(v) => RightVideo(video[v])

InputsInv == InputTypes /\ OneCaseAtATime /\ MetaOfDecoder /\ InputCases /\ InputVideos

LEMMA DataOfCase == ASSUME NEW c \in Cases PROVE Data(c) \in Videos
  BY DEF Videos

\* Alone, a case works alone.
LEMMA OthersOver ==
    ASSUME OneCaseAtATime, ~shared, NEW c \in Cases, Active(c)
    PROVE  \A d \in Cases \ {c} : ~Active(d)
  BY DEF OneCaseAtATime

\* A step of the only case at work.
LEMMA AloneStep ==
    ASSUME InputTypes, NEW c \in Cases, NEW l \in CaseLines, pc' = [pc EXCEPT ![c] = l],
           \A d \in Cases \ {c} : ~Active(d), DoneSoFar(c)'
    PROVE  OneCaseAtATime' /\ InputCases'
  <1>1. \A d \in Cases \ {c} : pc'[d] = pc[d] /\ pc[d] \in {"idle", "packaged", "refused"}
    BY DEF InputTypes, Active, Over
  <1>2. \A d \in Cases \ {c} : ~Active(d)' /\ DoneSoFar(d)'
    BY <1>1 DEF Active, Over, DoneSoFar
  <1> QED BY <1>2 DEF OneCaseAtATime, InputCases

LEMMA InputTypesStep == InputTypes /\ [X264Next]_x264Vars => InputTypes'
  <1> SUFFICES ASSUME InputTypes, [X264Next]_x264Vars PROVE InputTypes'
    OBVIOUS
  <1> USE DEF InputTypes
  <1>0. CaseLines = CaseLines
    OBVIOUS
  <1>1. ASSUME NEW i \in Isos, PrepareWorkspace(i) PROVE InputTypes'
    BY <1>1 DEF PrepareWorkspace
  <1>2. ASSUME NEW c \in Cases, Begin(c) PROVE InputTypes'
    BY <1>2 DEF Begin, stage, CaseLines
  <1>3. ASSUME NEW c \in Cases,
               \/ Reuse(c) \/ FailClear(c) \/ FailLink(c)
               \/ Skip(c) \/ FailDecode(c) \/ FailPopulate(c)
        PROVE  InputTypes'
    BY <1>3 DEF Reuse, FailClear, FailLink, Skip, FailDecode, FailPopulate, At, stage, CaseLines
  <1>4. ASSUME NEW c \in Cases, StartClear(c) PROVE InputTypes'
    BY <1>4 DEF StartClear, At, CaseLines
  <1>5. ASSUME NEW c \in Cases, FinishClear(c) PROVE InputTypes'
    BY <1>5 DEF FinishClear, At, CaseLines
  <1>6. ASSUME NEW c \in Cases, Compile(c) PROVE InputTypes'
    BY <1>6 DEF Compile, At, CaseLines
  <1>7. ASSUME NEW c \in Cases, StartLink(c) PROVE InputTypes'
    <2>1. exe' \in Decoders
      BY <1>7 DEF StartLink, Decoders, Sources
    <2> QED BY <1>7, <2>1 DEF StartLink, At, CaseLines
  <1>8. ASSUME NEW c \in Cases, FinishLink(c) PROVE InputTypes'
    <2>1. exe' \in Decoders \cup {None}
      BY <1>8 DEF FinishLink, Decoders
    <2> QED BY <1>8, <2>1 DEF FinishLink, At, CaseLines
  <1>9. ASSUME NEW c \in Cases, WriteMeta(c) PROVE InputTypes'
    <2>1. meta' \in Sources
      BY <1>9 DEF WriteMeta, Sources
    <2> QED BY <1>9, <2>1 DEF WriteMeta, At, CaseLines
  <1>10. ASSUME NEW c \in Cases, StartDecode(c) PROVE InputTypes'
    <2>1. exe.sources \in Sources
      BY <1>10 DEF StartDecode, DecoderRuns, Decoders
    <2>2. \A amount \in {"empty", "part"} :
            [decoder |-> exe.sources, bitstream |-> iso.bitstream, amount |-> amount, by |-> c] \in VideoFiles
      BY <2>1 DEF VideoFiles
    <2> QED BY <1>10, <2>2 DEF StartDecode, At, CaseLines
  <1>11. ASSUME NEW c \in Cases, FinishDecode(c) PROVE InputTypes'
    <2>1. Data(c) \in Videos
      BY DataOfCase
    <2>2. ASSUME video[Data(c)] # None
          PROVE  [video EXCEPT ![Data(c)].amount = "whole"] \in [Videos -> VideoFiles \cup {None}]
      <3>1. [video[Data(c)] EXCEPT !.amount = "whole"] \in VideoFiles
        BY <2>1, <2>2 DEF VideoFiles
      <3> QED BY <3>1
    <2> QED BY <1>11, <2>2 DEF FinishDecode, At, CaseLines
  <1>12. ASSUME NEW c \in Cases, Populate(c) PROVE InputTypes'
    BY <1>12, DataOfCase DEF Populate, At, stage, CaseLines
  <1>13. ASSUME NEW c \in Cases, Mishap(c) PROVE InputTypes'
    BY <1>13 DEF Mishap, stage, CaseLines
  <1>14. CASE Rest \/ UNCHANGED x264Vars
    BY <1>14 DEF Rest, x264Vars, stage
  <1> QED BY <1>1, <1>2, <1>3, <1>4, <1>5, <1>6, <1>7, <1>8, <1>9, <1>10, <1>11, <1>12, <1>13,
     <1>14 DEF X264Next


\* Alone, no case meets what makes one refuse.
LEMMA NotRefused ==
    ASSUME InputsInv, ~shared, NEW c \in Cases
    PROVE  ~FailClear(c) /\ ~FailLink(c) /\ ~FailDecode(c) /\ ~FailPopulate(c)
  <1>1. DoneSoFar(c) /\ (meta # None /\ exe # None => exe.whole) /\ InputTypes
    BY DEF InputsInv, InputCases, MetaOfDecoder
  <1>2. Active(c) => \A d \in Cases \ {c} : ~Active(d)
    BY OthersOver DEF InputsInv
  <1>3. ~FailClear(c)
    BY <1>2 DEF FailClear, Alone, At, Active, Over
  <1>4. ~FailLink(c) /\ ~FailPopulate(c)
    BY <1>1 DEF FailLink, FailPopulate, At, DoneSoFar
  <1>5. ~FailDecode(c)
    BY <1>1, <1>2, NoneAssumption DEF FailDecode, At, DecoderRuns, DoneSoFar, Sources, Active, Over,
       InputTypes
  <1> QED BY <1>3, <1>4, <1>5

\* When cases have met, nothing is claimed.
LEMMA SharedClaimsNothing == shared' => OneCaseAtATime' /\ MetaOfDecoder' /\ InputCases' /\ InputVideos'
  BY DEF OneCaseAtATime, MetaOfDecoder, InputCases, InputVideos

LEMMA InputCaseStep ==
    ASSUME InputsInv, InputTypes', ~shared', NEW c \in Cases,
           \/ Reuse(c) \/ StartClear(c) \/ FinishClear(c) \/ FailClear(c)
           \/ Compile(c) \/ StartLink(c) \/ FailLink(c)
           \/ FinishLink(c) \/ WriteMeta(c)
           \/ Skip(c) \/ StartDecode(c) \/ FailDecode(c) \/ FinishDecode(c)
           \/ Populate(c) \/ FailPopulate(c)
    PROVE  OneCaseAtATime' /\ MetaOfDecoder' /\ InputCases' /\ InputVideos'
  <1> USE DEF At
  <1>1. InputTypes /\ InputTypes' /\ Data(c) \in Videos
    BY DataOfCase DEF InputsInv
  <1>2. iso' = iso /\ pc' = [pc EXCEPT ![c] = pc'[c]] /\ pc'[c] \in CaseLines /\ Active(c)
    <2>1. \A l \in CaseLines : [pc EXCEPT ![c] = l][c] = l
      BY <1>1 DEF InputTypes
    <2> QED BY <1>1, <2>1 DEF Reuse, StartClear, FinishClear, FailClear, Compile, StartLink, FailLink,
               FinishLink, WriteMeta, Skip, StartDecode, FailDecode, FinishDecode, Populate,
               FailPopulate, CaseLines, Active, Over, InputTypes
  <1>3. shared /\ ~Alone(c) => FALSE
    BY DEF Reuse, StartClear, FinishClear, FailClear, Compile, StartLink, FailLink,
               FinishLink, WriteMeta, Skip, StartDecode, FailDecode, FinishDecode, Populate,
               FailPopulate
  <1>4. \A d \in Cases \ {c} : ~Active(d)
    BY <1>2, <1>3, OthersOver DEF Alone, InputsInv
  <1>5. DoneSoFar(c)' => OneCaseAtATime' /\ InputCases'
    BY <1>1, <1>2, <1>4, AloneStep
  <1>6. \A d \in Cases \ {c} : pc[d] # "decoding" /\ pc'[d] # "decoding"
    BY <1>1, <1>2, <1>4 DEF Active, Over, InputTypes
  <1>7. CASE FinishClear(c)
    <2>1. pc'[c] = "compile" /\ exe' = None /\ meta' = None /\ video' = [v \in Videos |-> None]
      BY <1>1, <1>7 DEF FinishClear, InputTypes
    <2>2. DoneSoFar(c)' /\ MetaOfDecoder'
      BY <2>1 DEF DoneSoFar, MetaOfDecoder
    <2>3. InputVideos'
      BY <2>1 DEF InputVideos, Usable
    <2> QED BY <1>5, <2>2, <2>3
  <1>8. CASE ~FinishClear(c)
    <2>1. ~shared
      BY <1>8 DEF Reuse, StartClear, FailClear, Compile, StartLink, FailLink,
               FinishLink, WriteMeta, Skip, StartDecode, FailDecode, FinishDecode, Populate,
               FailPopulate
    <2>2. DoneSoFar(c)
      BY <2>1 DEF InputsInv, InputCases
    <2>3. meta # None /\ exe # None => exe.whole /\ exe.sources = meta
      BY <2>1 DEF InputsInv, MetaOfDecoder
    <2>4. \A v \in Videos : Usable(v) => RightVideo(video[v])
      BY <2>1 DEF InputsInv, InputVideos
    <2>5. ASSUME UNCHANGED <<video, older, cut>>, pc[c] # "decoding"
          PROVE  InputVideos'
      BY <1>2, <1>6, <2>4, <2>5 DEF InputVideos, Usable, RightVideo
    <2>6. CASE Reuse(c)
      <3>1. DoneSoFar(c)' /\ MetaOfDecoder'
        BY <1>1, <1>2, <2>3, <2>6 DEF Reuse, Reusable, stage, DoneSoFar, MetaOfDecoder, InputTypes
      <3> QED BY <1>5, <2>5, <2>6, <3>1 DEF Reuse, stage
    <2>7. CASE StartClear(c)
      <3>1. DoneSoFar(c)' /\ MetaOfDecoder'
        BY <1>1, <1>2, <2>3, <2>7 DEF StartClear, DoneSoFar, MetaOfDecoder, InputTypes
      <3>2. InputVideos'
        BY <1>1, <1>2, <1>6, <2>4, <2>7 DEF StartClear, InputVideos, Usable, RightVideo, InputTypes
      <3> QED BY <1>5, <3>1, <3>2
    <2>8. CASE FailClear(c) \/ FailLink(c) \/ FailDecode(c) \/ FailPopulate(c)
      BY <2>1, <2>8, NotRefused
    <2>9. CASE Compile(c)
      <3>1. DoneSoFar(c)' /\ MetaOfDecoder'
        BY <1>1, <1>2, <2>2, <2>9 DEF Compile, DoneSoFar, MetaOfDecoder, InputTypes
      <3> QED BY <1>5, <2>5, <2>9, <3>1 DEF Compile
    <2>10. CASE StartLink(c)
      <3>1. exe' # None
        <4>1. [sources |-> iso.sources, whole |-> FALSE, by |-> c] \in Decoders
          BY <1>1 DEF Decoders, Sources, InputTypes
        <4> QED BY <2>10, <4>1, NoneAssumption DEF StartLink
      <3>2. DoneSoFar(c)' /\ MetaOfDecoder'
        BY <1>1, <1>2, <2>2, <2>10, <3>1 DEF StartLink, DoneSoFar, MetaOfDecoder, InputTypes
      <3> QED BY <1>5, <2>5, <2>10, <3>2 DEF StartLink
    <2>11. CASE FinishLink(c)
      <3>1. exe' # None /\ exe'.whole /\ exe'.sources = iso.sources
        BY <1>1, <2>2, <2>11, NoneAssumption DEF FinishLink, DoneSoFar, Decoders, InputTypes
      <3>2. DoneSoFar(c)' /\ MetaOfDecoder'
        BY <1>1, <1>2, <2>2, <2>11, <3>1 DEF FinishLink, DoneSoFar, MetaOfDecoder, InputTypes
      <3> QED BY <1>5, <2>5, <2>11, <3>2 DEF FinishLink
    <2>12. CASE WriteMeta(c)
      <3>1. DoneSoFar(c)' /\ MetaOfDecoder'
        BY <1>1, <1>2, <2>2, <2>12 DEF WriteMeta, DoneSoFar, MetaOfDecoder, InputTypes
      <3> QED BY <1>5, <2>5, <2>12, <3>1 DEF WriteMeta
    <2>13. CASE Skip(c)
      <3>1. Data(c) \in cut \/ RightVideo(video[Data(c)])
        BY <1>1, <1>6, <2>4, <2>13 DEF Skip, Decoded, Usable
      <3>2. DoneSoFar(c)' /\ MetaOfDecoder'
        <4>1. pc[c] = "video" /\ pc'[c] = "populate" /\ UNCHANGED <<iso, exe, meta, video, cut>>
          BY <1>1, <1>2, <2>13 DEF Skip, stage, InputTypes
        <4>2. video[Data(c)] # None
          BY <2>13 DEF Skip, Decoded
        <4>3. exe # None /\ meta = iso.sources
          BY <2>2, <4>1 DEF DoneSoFar
        <4>4. MetaOfDecoder'
          BY <2>3, <4>1 DEF MetaOfDecoder
        <4> QED BY <3>1, <4>1, <4>2, <4>3, <4>4 DEF DoneSoFar, RightVideo, Data
      <3> QED BY <1>5, <2>5, <2>13, <3>2 DEF Skip, stage
    <2>14. CASE StartDecode(c)
      <3>1. exe.sources = iso.sources
        BY <1>1, <2>2, <2>3, <2>14, NoneAssumption DEF StartDecode, DecoderRuns, DoneSoFar, Sources,
           InputTypes
      <3>2. PICK amount \in {"empty", "part"} :
              video' = [video EXCEPT ![Data(c)] =
                  [decoder |-> exe.sources, bitstream |-> iso.bitstream, amount |-> amount, by |-> c]]
        BY <2>14 DEF StartDecode
      <3>3. [decoder |-> exe.sources, bitstream |-> iso.bitstream, amount |-> amount, by |-> c] \in VideoFiles
        BY <1>1, <3>1 DEF VideoFiles, Sources, InputTypes
      <3>4. /\ video'[Data(c)] # None /\ video'[Data(c)].by = c
            /\ video'[Data(c)].decoder = iso.sources /\ video'[Data(c)].bitstream = iso.bitstream
        BY <1>1, <3>1, <3>2, <3>3, NoneAssumption DEF InputTypes
      <3>5. DoneSoFar(c)' /\ MetaOfDecoder'
        BY <1>1, <1>2, <2>2, <2>3, <2>14, <3>4 DEF StartDecode, DoneSoFar, MetaOfDecoder, InputTypes
      <3>6. \A v \in Videos \ {Data(c)} : video'[v] = video[v] /\ (Usable(v)' => Usable(v))
        BY <1>1, <1>2, <1>6, <2>14, <3>2 DEF StartDecode, Usable, InputTypes
      <3>7. ~Usable(Data(c))'
        BY <1>1, <2>14 DEF StartDecode, Usable, InputTypes
      <3>8. InputVideos'
        BY <1>2, <2>4, <3>6, <3>7 DEF InputVideos, RightVideo
      <3> QED BY <1>5, <3>5, <3>8
    <2>15. CASE FinishDecode(c)
      <3>1. video' = [video EXCEPT ![Data(c)].amount = "whole"]
        BY <2>2, <2>15 DEF FinishDecode, DoneSoFar
      <3>2. [video[Data(c)] EXCEPT !.amount = "whole"] \in VideoFiles
        BY <1>1, <2>2, <2>15 DEF FinishDecode, DoneSoFar, VideoFiles, InputTypes
      <3>3. video'[Data(c)] # None /\ RightVideo(video[Data(c)])'
        BY <1>1, <1>2, <2>2, <2>15, <3>1, <3>2, NoneAssumption
           DEF FinishDecode, DoneSoFar, VideoFiles, RightVideo, InputTypes
      <3>4. DoneSoFar(c)' /\ MetaOfDecoder'
        BY <1>1, <1>2, <2>2, <2>3, <2>15, <3>3 DEF FinishDecode, DoneSoFar, MetaOfDecoder, RightVideo,
           InputTypes
      <3>5. \A v \in Videos \ {Data(c)} : video'[v] = video[v] /\ (Usable(v)' => Usable(v))
        BY <1>1, <1>2, <1>6, <2>15, <3>1 DEF FinishDecode, Usable, InputTypes
      <3>6. InputVideos'
        BY <1>2, <2>4, <3>3, <3>5 DEF InputVideos, RightVideo
      <3> QED BY <1>5, <3>4, <3>6
    <2>16. CASE Populate(c)
      <3>1. DoneSoFar(c)' /\ MetaOfDecoder'
        BY <1>1, <1>2, <2>3, <2>16 DEF Populate, stage, DoneSoFar, MetaOfDecoder, InputTypes
      <3> QED BY <1>5, <2>5, <2>16, <3>1 DEF Populate, stage
    <2> QED BY <1>8, <2>6, <2>7, <2>8, <2>9, <2>10, <2>11, <2>12, <2>13, <2>14, <2>15, <2>16
  <1> QED BY <1>7, <1>8

\* Before a make nobody is at work, and every video is older than its bitstream.
LEMMA PrepareStep ==
    ASSUME InputsInv, NEW i \in Isos, PrepareWorkspace(i)
    PROVE  OneCaseAtATime' /\ MetaOfDecoder' /\ InputCases' /\ InputVideos'
  <1>1. \A c \in Cases : ~Active(c) /\ ~Active(c)' /\ pc'[c] \in {"idle", "packaged", "refused"}
    BY DEF PrepareWorkspace, Active, Over
  <1>2. OneCaseAtATime' /\ InputCases'
    BY <1>1 DEF OneCaseAtATime, InputCases, DoneSoFar
  <1>3. MetaOfDecoder' /\ InputVideos'
    BY DEF PrepareWorkspace, InputsInv, MetaOfDecoder, InputVideos, Usable
  <1> QED BY <1>2, <1>3

LEMMA BeginStep ==
    ASSUME InputsInv, NEW c \in Cases, Begin(c)
    PROVE  OneCaseAtATime' /\ MetaOfDecoder' /\ InputCases' /\ InputVideos'
  <1> SUFFICES ASSUME ~shared' PROVE OneCaseAtATime' /\ MetaOfDecoder' /\ InputCases' /\ InputVideos'
    BY SharedClaimsNothing
  <1>1. InputTypes /\ ~shared /\ pc' = [pc EXCEPT ![c] = "check"] /\ pc'[c] = "check"
    BY DEF Begin, InputsInv, InputTypes
  <1>2. \A d \in Cases \ {c} : ~Active(d)
    BY DEF Begin, Alone
  <1>3. DoneSoFar(c)'
    BY <1>1 DEF DoneSoFar
  <1>4. OneCaseAtATime' /\ InputCases'
    BY <1>1, <1>2, <1>3, AloneStep DEF CaseLines
  <1>5. MetaOfDecoder'
    BY <1>1 DEF Begin, stage, InputsInv, MetaOfDecoder
  <1>6. \A d \in Cases : pc[d] # "decoding"
    BY <1>2 DEF Begin, Active, Over
  <1>7. InputVideos'
    BY <1>1, <1>6 DEF Begin, stage, InputsInv, InputVideos, Usable, RightVideo
  <1> QED BY <1>4, <1>5, <1>7

\* A video whose decoder is stopped is one that is cut.
LEMMA MishapStep ==
    ASSUME InputsInv, NEW c \in Cases, Mishap(c)
    PROVE  OneCaseAtATime' /\ MetaOfDecoder' /\ InputCases' /\ InputVideos'
  <1> SUFFICES ASSUME ~shared' PROVE OneCaseAtATime' /\ MetaOfDecoder' /\ InputCases' /\ InputVideos'
    BY SharedClaimsNothing
  <1>1. InputTypes /\ ~shared /\ pc' = [pc EXCEPT ![c] = "idle"] /\ pc'[c] = "idle"
    BY DEF Mishap, InputsInv, InputTypes
  <1>2. \A d \in Cases \ {c} : ~Active(d)
    BY <1>1, OthersOver DEF Mishap, InputsInv
  <1>3. DoneSoFar(c)'
    BY <1>1 DEF DoneSoFar
  <1>4. OneCaseAtATime' /\ InputCases'
    BY <1>1, <1>2, <1>3, AloneStep DEF CaseLines
  <1>5. MetaOfDecoder'
    BY <1>1 DEF Mishap, stage, InputsInv, MetaOfDecoder
  <1>6. \A d \in Cases \ {c} : pc[d] # "decoding"
    BY <1>2 DEF Active, Over
  <1>7. pc[c] = "decoding" => Data(c) \in cut'
    BY <1>1 DEF Mishap, InputsInv, InputCases, DoneSoFar
  <1>8. \A v \in Videos : Usable(v)' => Usable(v)
    BY <1>6, <1>7 DEF Mishap, stage, Usable
  <1>9. InputVideos'
    BY <1>1, <1>8 DEF Mishap, stage, InputsInv, InputVideos, RightVideo
  <1> QED BY <1>4, <1>5, <1>9

LEMMA InputsIdleStep == InputsInv /\ (Rest \/ UNCHANGED x264Vars) => InputsInv'
  BY DEF Rest, x264Vars, stage, bounds, InputsInv, InputTypes, OneCaseAtATime, Active, MetaOfDecoder,
     InputCases, DoneSoFar,
         InputVideos, Usable, RightVideo

\* The inductive invariant holds from the empty directory on, whatever the
\* workspaces are and wherever cases are stopped.
THEOREM InputsInvariance == X264Spec => []InputsInv
  <1>1. X264Init => InputsInv
    <2>1. X264Init => InputTypes
      BY DEF X264Init, InputTypes, CaseLines
    <2>2. X264Init => OneCaseAtATime /\ MetaOfDecoder /\ InputCases /\ InputVideos
      BY DEF X264Init, OneCaseAtATime, Active, Over, MetaOfDecoder, InputCases, DoneSoFar,
         InputVideos, Usable
    <2> QED BY <2>1, <2>2 DEF InputsInv
  <1>2. InputsInv /\ [X264Next]_x264Vars => InputsInv'
    <2> SUFFICES ASSUME InputsInv, [X264Next]_x264Vars PROVE InputsInv'
      OBVIOUS
    <2>1. InputTypes'
      BY InputTypesStep DEF InputsInv
    <2>2. CASE \E i \in Isos : PrepareWorkspace(i)
      BY <2>1, <2>2, PrepareStep DEF InputsInv
    <2>3. CASE \E c \in Cases : Begin(c)
      BY <2>1, <2>3, BeginStep DEF InputsInv
    <2>4. CASE \E c \in Cases : Mishap(c)
      BY <2>1, <2>4, MishapStep DEF InputsInv
    <2>5. CASE Rest \/ UNCHANGED x264Vars
      BY <2>5, InputsIdleStep
    <2>6. CASE \E c \in Cases :
                 \/ Reuse(c) \/ StartClear(c) \/ FinishClear(c) \/ FailClear(c)
                 \/ Compile(c) \/ StartLink(c) \/ FailLink(c)
                 \/ FinishLink(c) \/ WriteMeta(c)
                 \/ Skip(c) \/ StartDecode(c) \/ FailDecode(c) \/ FinishDecode(c)
                 \/ Populate(c) \/ FailPopulate(c)
      BY <2>1, <2>6, InputCaseStep, SharedClaimsNothing DEF InputsInv
    <2> QED BY <2>2, <2>3, <2>4, <2>5, <2>6 DEF X264Next
  <1> QED BY <1>1, <1>2, PTL DEF X264Spec

LEMMA RightVideoStep ==
    ASSUME InputsInv, X264Next, NEW c \in Cases, pc[c] # "packaged", pc'[c] = "packaged"
    PROVE  \/ shared \/ Data(c) \in cut
           \/ /\ got'[c].amount = "whole"
              /\ got'[c].decoder = iso.sources /\ got'[c].bitstream = iso.bitstream
  <1>1. Populate(c)
    BY DEF InputsInv, InputTypes, X264Next, PrepareWorkspace, Begin, Mishap, Rest, x264Vars, At,
       Reuse, StartClear, FinishClear,
           FailClear, Compile, StartLink, FailLink, FinishLink, WriteMeta, Skip, StartDecode,
           FailDecode,
           FinishDecode, Populate, FailPopulate
  <1>2. got'[c] = video[Data(c)] /\ pc[c] = "populate"
    BY <1>1 DEF Populate, At, InputsInv, InputTypes
  <1> QED BY <1>2 DEF InputsInv, InputCases, DoneSoFar, RightVideo

\* A case that packages a video has passed its check of it, or decoded it, alone:
\* the video is whole and this workspace's, for any cases and workspaces.
THEOREM PackagedVideosAreRight == X264Spec => PackagedVideoRight
  <1>1. InputsInv /\ [X264Next]_x264Vars =>
          [\A c \in Cases :
              pc[c] # "packaged" /\ pc'[c] = "packaged" =>
                  \/ shared \/ Data(c) \in cut
                  \/ /\ got'[c].amount = "whole"
                     /\ got'[c].decoder = iso.sources /\ got'[c].bitstream = iso.bitstream]_x264Vars
    BY RightVideoStep
  <1> QED BY <1>1, InputsInvariance, PTL DEF X264Spec, PackagedVideoRight

LEMMA RefusedStep ==
    ASSUME InputsInv, X264Next, NEW c \in Cases, pc[c] # "refused", pc'[c] = "refused"
    PROVE  shared
  <1>1. pc \in [Cases -> CaseLines]
    BY DEF InputsInv, InputTypes
  <1>2. ~\E i \in Isos : PrepareWorkspace(i)
    BY DEF PrepareWorkspace
  <1>3. ASSUME NEW d \in Cases PROVE ~Begin(d) /\ ~Mishap(d)
    BY <1>1 DEF Begin, Mishap
  <1>4. ASSUME NEW d \in Cases
        PROVE  /\ ~Reuse(d) /\ ~StartClear(d) /\ ~FinishClear(d) /\ ~Compile(d)
               /\ ~StartLink(d) /\ ~FinishLink(d) /\ ~WriteMeta(d)
               /\ ~Skip(d) /\ ~StartDecode(d) /\ ~FinishDecode(d) /\ ~Populate(d)
    BY <1>1 DEF At, Reuse, StartClear, FinishClear, Compile, StartLink, FinishLink, WriteMeta, Skip,
           StartDecode, FinishDecode, Populate
  <1>5. ~Rest
    BY DEF Rest, x264Vars
  <1>6. \E d \in Cases : FailClear(d) \/ FailLink(d) \/ FailDecode(d) \/ FailPopulate(d)
    BY <1>2, <1>3, <1>4, <1>5 DEF X264Next
  <1> QED BY <1>6, NotRefused DEF InputsInv, InputTypes

\* Whatever stopped cases have left there, no later case is refused for it.
THEOREM LeftoversAreHarmless == X264Spec => LeftoversHarmless
  <1>1. InputsInv /\ [X264Next]_x264Vars =>
          [\A c \in Cases : pc[c] # "refused" /\ pc'[c] = "refused" => shared]_x264Vars
    BY RefusedStep
  <1> QED BY <1>1, InputsInvariance, PTL DEF X264Spec, LeftoversHarmless

===============================================================================
