---------------------------- MODULE MakeBuildProofs ----------------------------
(***************************************************************************)
(* Proofs about MakeBuild, for any command lines, any edits and any        *)
(* bounds.                                                                 *)
(***************************************************************************)
EXTENDS MakeBuild, TLAPS

\* The stamp through which the configuration reaches target t.
StampOf(t, c) ==
    CASE t.kind = "gcptBin" -> GcptConfigStamp(c)
      [] t.kind = "sbiBin" -> SbiConfigStamp(c)
      [] t.kind = "rootfs" -> RootfsVars(c)
      [] OTHER -> FirmwareVars(c)

Own(t, c) == <<t.kind, Setting(t, c)>>

SbiSettings(c) == {Own(SbiBin(c), c), Own(SbiConfigStamp(c), c)}

\* What target t holds when it is built for c.
Expected(t, c) ==
    CASE t.kind = "sbiBin" -> SbiSettings(c)
      [] t.kind = "gcptBin" -> {Own(t, c), Own(GcptConfigStamp(c), c)}
                               \cup (IF c.multihart THEN SbiSettings(c) ELSE {})
      [] t.kind = "rootfs" -> {Own(t, c), Own(RootfsVars(c), c)}
      [] t.kind = "firmware" -> Settings(c)
      [] OTHER -> {Own(t, c)}

Contents == [exists   : BOOLEAN,
             settings : SUBSET {Own(t, c) : t \in Targets, c \in Configs},
             sources  : SUBSET Sources,
             stale    : SUBSET Sources,
             tainted  : BOOLEAN]

Types ==
    /\ make \in [state : {"idle", "building", "failing"}, config : Configs,
                 exit : {"none", "ok", "failed", "killed"}]
    /\ missed \in [Targets -> SUBSET Sources]
    /\ made \in [Targets -> Contents]
    /\ newer \in [Targets -> SUBSET (Sources \cup Targets)]
    /\ quiet \in BOOLEAN
    /\ mishaps \in Nat

\* A recipe runs once, after all it reads has been brought up to date.
Scheduled ==
    /\ make.state = "idle" => running = {} /\ done = {}
    /\ running \subseteq GoalTable[make.config] \ Stamps
    /\ done \subseteq GoalTable[make.config] \ running
    /\ \A t \in running \cup done : InputTable[make.config][t] \subseteq done
    /\ \A t \in Targets : missed[t] # {} => t \in running /\ ~quiet

\* Of the stamps for one thing there is never more than one.
StampsUnique ==
    \A s \in Stamps : made[s].exists =>
        /\ made[s].settings = {<<s.kind, <<>> >>}
        /\ made[s].sources = {} /\ made[s].stale = {} /\ ~made[s].tainted
        /\ \A r \in SiblingTable[s] : made[r].exists => r = s

\* A target that is newer than a stamp that is there was built for what the
\* stamp says; and while nothing it was built from has been built again, what
\* is stale in it is stale in one of them, or newer than it.
NewerThanStamp(t, c) ==
    /\ made[t].exists /\ ~made[t].tainted
    /\ made[StampOf(t, c)].exists /\ StampOf(t, c) \notin newer[t]

Untouched(t, c) == \A p \in InputTable[c][t] : made[p].exists /\ p \notin newer[t]

Traced(t, c) ==
    /\ \A p \in InputTable[c][t] : ~made[p].tainted
    /\ made[t].sources \subseteq ReadTable[c][t] \cup UNION {made[p].sources : p \in InputTable[c][t]}
    /\ made[t].stale \subseteq {OpenSbi} \cup (newer[t] \cap PrereqTable[c][t])
                                 \cup UNION {made[p].stale : p \in InputTable[c][t]}

Matches(t, c) ==
    NewerThanStamp(t, c) => made[t].settings = Expected(t, c) /\ (Untouched(t, c) => Traced(t, c))

BuiltForStamp == \A c \in Configs : \A t \in GoalTable[c] \ Stamps : Matches(t, c)

\* What a target is that this make has brought up to date.
Good(t) ==
    LET c == make.config
    IN  /\ made[t].exists
        /\ newer[t] \cap InputTable[c][t] = {}
        /\ quiet => newer[t] \cap PrereqTable[c][t] = {}
        /\ ~made[t].tainted => /\ made[t].settings = Expected(t, c)
                               /\ quiet => made[t].stale \subseteq {OpenSbi}

DoneGood == \A t \in done : Good(t)
EndedGood == make.exit = "ok" => make.state = "idle" /\ \A t \in GoalTable[make.config] : Good(t)

IInv ==
    /\ Types
    /\ Scheduled
    /\ StampsUnique
    /\ BuiltForStamp
    /\ DoneGood
    /\ EndedGood

\* Where nothing was edited or interrupted, the rootfs is of the configuration
\* that its stamp names, unless this make has just written the stamp.
RootfsKept ==
    mishaps = 0 =>
        /\ make.state # "failing"
        /\ newer[Rootfs] \cap Sources = {}
        /\ ~made[Rootfs].tainted /\ \A t \in Targets : missed[t] = {}
        /\ \A c \in Configs : made[Rootfs].exists /\ Own(Rootfs, c) \in made[Rootfs].settings =>
               /\ made[RootfsVars(c)].exists => RootfsVars(c) \notin newer[Rootfs]
               /\ RootfsVars(make.config) \notin done => made[RootfsVars(c)].exists

-----------------------------------------------------------------------------
(* The graph *)

SourceKinds == {"dts", "gcptSources", "workload", "linuxImage", "openSbi"}
StampKinds == {"gcptStamp", "sbiStamp", "rootfsStamp", "firmwareStamp"}
BinKinds == {"gcptBin", "sbiBin", "rootfs", "firmware"}

LEMMA KindsOf ==
    /\ \A f \in Sources : f.kind \in SourceKinds
    /\ \A t \in Targets : t.kind \in StampKinds \cup BinKinds
    /\ \A t \in Targets : t \in Stamps <=> t.kind \in StampKinds
    /\ Sources \cap Targets = {}
<1>1. \A f \in Sources : f.kind \in SourceKinds
  BY DEF Sources, AllDts, Dts, GcptSources, Workload, LinuxImage, OpenSbi, File, SourceKinds
<1>2. \A s \in Stamps : s.kind \in StampKinds
  BY DEF Stamps, GcptConfigStamp, SbiConfigStamp, RootfsVars, FirmwareVars, File, StampKinds
<1>3. \A t \in Targets \ Stamps : t.kind \in BinKinds
  BY DEF Targets, GcptBin, SbiBin, Rootfs, Firmware, File, BinKinds
<1>4. SourceKinds \cap (StampKinds \cup BinKinds) = {} /\ StampKinds \cap BinKinds = {}
  BY DEF SourceKinds, StampKinds, BinKinds
<1>5. Stamps \subseteq Targets
  BY DEF Targets
<1>. QED  BY <1>1, <1>2, <1>3, <1>4, <1>5

\* The goals of a command line, one by one.
LEMMA GoalsOf ==
    ASSUME NEW c \in Configs
    PROVE  /\ GoalTable[c] = Goals(c)
           /\ Goals(c) \subseteq Targets
           /\ Goals(c) \cap Stamps = {GcptConfigStamp(c), SbiConfigStamp(c), RootfsVars(c), FirmwareVars(c)}
           /\ Goals(c) \ Stamps = {GcptBin(c), SbiBin(c), Rootfs, Firmware(c)}
<1>1. {GcptConfigStamp(c), SbiConfigStamp(c), RootfsVars(c), FirmwareVars(c)} \subseteq Stamps
  BY DEF Stamps
<1>2. {GcptBin(c), SbiBin(c), Rootfs, Firmware(c)} \subseteq Targets
  BY DEF Targets
<1>3. {GcptBin(c), SbiBin(c), Rootfs, Firmware(c)} \cap Stamps = {}
  BY <1>2, KindsOf DEF GcptBin, SbiBin, Rootfs, Firmware, File, StampKinds
<1>. QED  BY <1>1, <1>2, <1>3 DEF Goals, GoalTable, Targets

LEMMA GoalKinds ==
    ASSUME NEW c \in Configs
    PROVE  /\ GcptConfigStamp(c).kind = "gcptStamp" /\ SbiConfigStamp(c).kind = "sbiStamp"
           /\ RootfsVars(c).kind = "rootfsStamp" /\ FirmwareVars(c).kind = "firmwareStamp"
           /\ GcptBin(c).kind = "gcptBin" /\ SbiBin(c).kind = "sbiBin"
           /\ Rootfs.kind = "rootfs" /\ Firmware(c).kind = "firmware"
  BY DEF GcptConfigStamp, SbiConfigStamp, RootfsVars, FirmwareVars, GcptBin, SbiBin, Rootfs,
         Firmware, File

\* What each is built from.
LEMMA PrereqsOf ==
    ASSUME NEW c \in Configs
    PROVE  /\ Prereqs(GcptBin(c), c) = {GcptSources(c), GcptConfigStamp(c)} \cup
                  (IF c.multihart THEN {SbiBin(c)} ELSE {Dts(c.dtb)})
           /\ Prereqs(SbiBin(c), c) =
                  {SbiConfigStamp(c)} \cup (IF c.multihart THEN {} ELSE {Dts(c.dtb)})
           /\ Prereqs(Rootfs, c) = {Workload, RootfsVars(c)}
           /\ Prereqs(Firmware(c), c) =
                  AllDts \cup {GcptBin(c), SbiBin(c), Rootfs, LinuxImage, FirmwareVars(c)}
  BY DEF Prereqs, GcptBin, SbiBin, Rootfs, Firmware, File

LEMMA StampPrereqs == \A s \in Stamps, c \in Configs : Prereqs(s, c) = {} /\ Reads(s, c) = {}
<1>1. \A s \in Stamps : s.kind \in StampKinds
  BY KindsOf DEF Targets
<1>. QED  BY <1>1 DEF Prereqs, Reads, StampKinds

LEMMA TablesOf ==
    ASSUME NEW c \in Configs, NEW t \in Targets
    PROVE  /\ PrereqTable[c][t] = Prereqs(t, c)
           /\ InputTable[c][t] = Prereqs(t, c) \cap Targets
           /\ ReadTable[c][t] = Reads(t, c) \cap Sources
           /\ Prereqs(t, c) \subseteq EverPrereqs[t]
           /\ ReadTable[c][t] \subseteq Prereqs(t, c) \cup {OpenSbi}
  BY DEF PrereqTable, InputTable, ReadTable, EverPrereqs, Reads

LEMMA InputsOf ==
    ASSUME NEW c \in Configs
    PROVE  /\ InputTable[c][GcptBin(c)] =
                  {GcptConfigStamp(c)} \cup (IF c.multihart THEN {SbiBin(c)} ELSE {})
           /\ InputTable[c][SbiBin(c)] = {SbiConfigStamp(c)}
           /\ InputTable[c][Rootfs] = {RootfsVars(c)}
           /\ InputTable[c][Firmware(c)] = {GcptBin(c), SbiBin(c), Rootfs, FirmwareVars(c)}
<1>1. /\ {GcptConfigStamp(c), SbiConfigStamp(c), RootfsVars(c), FirmwareVars(c)} \subseteq Targets
      /\ {GcptBin(c), SbiBin(c), Rootfs, Firmware(c)} \subseteq Targets
  BY GoalsOf
<1>2. {GcptSources(c), Dts(c.dtb), Workload, LinuxImage} \cup AllDts \subseteq Sources
  BY DEF Sources, AllDts
<1>3. ({GcptSources(c), Dts(c.dtb), Workload, LinuxImage} \cup AllDts) \cap Targets = {}
  BY <1>2, KindsOf
<1>. QED  BY <1>1, <1>3, PrereqsOf, TablesOf

LEMMA StampsOf ==
    ASSUME NEW c \in Configs
    PROVE  /\ StampOf(GcptBin(c), c) = GcptConfigStamp(c)
           /\ StampOf(SbiBin(c), c) = SbiConfigStamp(c)
           /\ StampOf(Rootfs, c) = RootfsVars(c)
           /\ StampOf(Firmware(c), c) = FirmwareVars(c)
  BY DEF StampOf, GcptBin, SbiBin, Rootfs, Firmware, File

\* A target depends on its stamp, and on nothing else that a make may not build.
LEMMA StampIsInput ==
    ASSUME NEW c \in Configs, NEW t \in Goals(c) \ Stamps
    PROVE  /\ StampOf(t, c) \in InputTable[c][t] \cap Stamps
           /\ InputTable[c][t] \subseteq Goals(c)
           /\ \A p \in InputTable[c][t] : p \in EverPrereqs[t] /\ p.kind # "firmware"
<1>1. t \in {GcptBin(c), SbiBin(c), Rootfs, Firmware(c)}
  BY GoalsOf
<1>2. StampOf(t, c) \in InputTable[c][t] /\ InputTable[c][t] \subseteq Goals(c)
  BY <1>1, InputsOf, StampsOf DEF Goals
<1>3. StampOf(t, c) \in Stamps
  BY <1>1, StampsOf, GoalsOf
<1>4. \A p \in InputTable[c][t] : p.kind # "firmware"
  BY <1>1, InputsOf, GoalKinds
<1>5. \A p \in InputTable[c][t] : p \in EverPrereqs[t]
  BY GoalsOf, TablesOf
<1>. QED  BY <1>2, <1>3, <1>4, <1>5

LEMMA SettingsOf ==
    ASSUME NEW c \in Configs
    PROVE  /\ Own(GcptBin(c), c) =
                  <<"gcptBin", IF c.multihart THEN <<Variant(c)>> ELSE <<Variant(c), c.dtb>> >>
           /\ Own(SbiBin(c), c) =
                  <<"sbiBin", IF c.multihart THEN <<Variant(c)>> ELSE <<Variant(c), c.dtb>> >>
           /\ Own(Rootfs, c) = <<"rootfs", <<Variant(c), Harts(c)>> >>
           /\ Own(Firmware(c), c) = <<"firmware", <<Variant(c), Harts(c), c.dtb>> >>
           /\ \A s \in Stamps : Own(s, c) = <<s.kind, <<>> >>
<1>1. \A s \in Stamps : Setting(s, c) = <<>>
  BY KindsOf DEF Targets, StampKinds, Setting
<1>. QED  BY <1>1, GoalKinds DEF Own, Setting

LEMMA ExpectedValues ==
    ASSUME NEW c \in Configs
    PROVE  /\ Expected(GcptBin(c), c) = {Own(GcptBin(c), c), Own(GcptConfigStamp(c), c)}
                                           \cup (IF c.multihart THEN SbiSettings(c) ELSE {})
           /\ Expected(SbiBin(c), c) = SbiSettings(c)
           /\ Expected(Rootfs, c) = {Own(Rootfs, c), Own(RootfsVars(c), c)}
           /\ Expected(Firmware(c), c) = Settings(c)
           /\ \A s \in Stamps : Expected(s, c) = {Own(s, c)}
<1>1. \A s \in Stamps : Expected(s, c) = {Own(s, c)}
  BY KindsOf DEF Targets, StampKinds, Expected
<1>. QED  BY <1>1, GoalKinds DEF Expected

LEMMA SettingsAre ==
    ASSUME NEW c \in Configs
    PROVE  Settings(c) = {Own(GcptConfigStamp(c), c), Own(SbiConfigStamp(c), c), Own(RootfsVars(c), c),
                          Own(FirmwareVars(c), c), Own(GcptBin(c), c), Own(SbiBin(c), c),
                          Own(Rootfs, c), Own(Firmware(c), c)}
  BY DEF Settings, Goals, Own

\* A target that two command lines share is of the same kind for both.
LEMMA SharedGoal ==
    ASSUME NEW c \in Configs, NEW d \in Configs, NEW t \in (Goals(c) \cap Goals(d)) \ Stamps
    PROVE  \/ t = GcptBin(c) /\ t = GcptBin(d)
           \/ t = SbiBin(c) /\ t = SbiBin(d)
           \/ t = Rootfs
           \/ t = Firmware(c) /\ t = Firmware(d)
<1>1. t \in {GcptBin(c), SbiBin(c), Rootfs, Firmware(c)} /\ t \in {GcptBin(d), SbiBin(d), Rootfs, Firmware(d)}
  BY GoalsOf
<1>. QED  BY <1>1, GoalKinds

LEMMA VariantOf ==
    ASSUME NEW c \in Configs, NEW d \in Configs
    PROVE  /\ Variant(c) = Variant(d) <=> c.multihart = d.multihart
           /\ c.multihart \in BOOLEAN /\ d.multihart \in BOOLEAN
<1>1. c.multihart \in BOOLEAN /\ d.multihart \in BOOLEAN
  BY ConfigsAssumption
<1>. QED  BY <1>1 DEF Variant

\* The key of a stamp says all that the recipe takes from the command line.
LEMMA StampDetermines ==
    ASSUME NEW c \in Configs, NEW d \in Configs, NEW t \in (Goals(c) \cap Goals(d)) \ Stamps,
           StampOf(t, c) = StampOf(t, d)
    PROVE  /\ Prereqs(t, c) = Prereqs(t, d)
           /\ InputTable[c][t] = InputTable[d][t]
           /\ ReadTable[c][t] = ReadTable[d][t]
           /\ Expected(t, c) = Expected(t, d)
<1>2. \A s \in Stamps : Own(s, c) = Own(s, d)
  BY SettingsOf
<1>3. {GcptConfigStamp(c), SbiConfigStamp(c), RootfsVars(c), FirmwareVars(c)} \subseteq Stamps
  BY GoalsOf
<1>4. ASSUME t = GcptBin(c), t = GcptBin(d)
      PROVE  Prereqs(t, c) = Prereqs(t, d) /\ Expected(t, c) = Expected(t, d)
  <2>1. GcptConfigStamp(c) = GcptConfigStamp(d)
    BY <1>4, StampsOf
  <2>2. Variant(c) = Variant(d) /\ c.multihart = d.multihart
    BY <1>4, VariantOf DEF GcptBin, File
  <2>3. ~c.multihart => c.dtb = d.dtb
    BY <2>1, <2>2 DEF GcptConfigStamp, File
  <2>4. SbiBin(c) = SbiBin(d) /\ GcptSources(c) = GcptSources(d)
    BY <2>2 DEF SbiBin, GcptSources
  <2>5. c.multihart => SbiConfigStamp(c) = SbiConfigStamp(d)
    BY <2>2 DEF SbiConfigStamp
  <2>6. Own(SbiBin(c), c) = Own(SbiBin(d), d) /\ Own(t, c) = Own(t, d)
    BY <1>4, <2>2, <2>3, SettingsOf
  <2>7. c.multihart => SbiSettings(c) = SbiSettings(d)
    BY <1>2, <1>3, <2>5, <2>6 DEF SbiSettings
  <2>8. Expected(t, c) = Expected(t, d)
    <3>1. Expected(t, c) = {Own(t, c), Own(GcptConfigStamp(c), c)}
                              \cup (IF c.multihart THEN SbiSettings(c) ELSE {})
      BY <1>4, ExpectedValues
    <3>2. Expected(t, d) = {Own(t, d), Own(GcptConfigStamp(d), d)}
                              \cup (IF d.multihart THEN SbiSettings(d) ELSE {})
      BY <1>4, ExpectedValues
    <3>3. Own(GcptConfigStamp(c), c) = Own(GcptConfigStamp(d), d)
      BY <1>2, <1>3, <2>1
    <3>. QED  BY <2>2, <2>6, <2>7, <3>1, <3>2, <3>3
  <2>9. Prereqs(t, c) = Prereqs(t, d)
    BY <1>4, <2>1, <2>2, <2>3, <2>4, PrereqsOf
  <2>. QED  BY <2>8, <2>9
<1>5. ASSUME t = SbiBin(c), t = SbiBin(d)
      PROVE  Prereqs(t, c) = Prereqs(t, d) /\ Expected(t, c) = Expected(t, d)
  <2>1. SbiConfigStamp(c) = SbiConfigStamp(d)
    BY <1>5, StampsOf
  <2>2. Variant(c) = Variant(d) /\ c.multihart = d.multihart
    BY <1>5, VariantOf DEF SbiBin, File
  <2>3. ~c.multihart => c.dtb = d.dtb
    BY <2>1, <2>2 DEF SbiConfigStamp, File
  <2>4. Own(t, c) = Own(t, d)
    BY <1>5, <2>2, <2>3, SettingsOf
  <2>5. Expected(t, c) = Expected(t, d)
    <3>1. Expected(t, c) = {Own(t, c), Own(SbiConfigStamp(c), c)}
      BY <1>5, ExpectedValues DEF SbiSettings
    <3>2. Expected(t, d) = {Own(t, d), Own(SbiConfigStamp(d), d)}
      BY <1>5, ExpectedValues DEF SbiSettings
    <3>3. Own(SbiConfigStamp(c), c) = Own(SbiConfigStamp(d), d)
      BY <1>2, <1>3, <2>1
    <3>. QED  BY <2>4, <3>1, <3>2, <3>3
  <2>6. Prereqs(t, c) = Prereqs(t, d)
    BY <1>5, <2>1, <2>2, <2>3, PrereqsOf
  <2>. QED  BY <2>5, <2>6
<1>6. ASSUME t = Rootfs
      PROVE  Prereqs(t, c) = Prereqs(t, d) /\ Expected(t, c) = Expected(t, d)
  <2>1. RootfsVars(c) = RootfsVars(d)
    BY <1>6, StampsOf
  <2>2. Variant(c) = Variant(d) /\ Harts(c) = Harts(d)
    BY <2>1 DEF RootfsVars, File
  <2>3. Own(t, c) = Own(t, d)
    BY <1>6, <2>2, SettingsOf
  <2>. QED  BY <1>2, <1>3, <1>6, <2>1, <2>3, ExpectedValues, PrereqsOf
<1>7. ASSUME t = Firmware(c), t = Firmware(d)
      PROVE  Prereqs(t, c) = Prereqs(t, d) /\ Expected(t, c) = Expected(t, d)
  <2>1. FirmwareVars(c) = FirmwareVars(d)
    BY <1>7, StampsOf
  <2>2. Variant(c) = Variant(d) /\ c.multihart = d.multihart /\ Harts(c) = Harts(d) /\ c.dtb = d.dtb
    BY <2>1, VariantOf DEF FirmwareVars, File
  <2>3. /\ GcptBin(c) = GcptBin(d) /\ SbiBin(c) = SbiBin(d)
        /\ GcptConfigStamp(c) = GcptConfigStamp(d) /\ SbiConfigStamp(c) = SbiConfigStamp(d)
        /\ RootfsVars(c) = RootfsVars(d)
    BY <2>2 DEF GcptBin, SbiBin, GcptConfigStamp, SbiConfigStamp, RootfsVars
  <2>4. /\ Own(GcptBin(c), c) = Own(GcptBin(d), d) /\ Own(SbiBin(c), c) = Own(SbiBin(d), d)
        /\ Own(Rootfs, c) = Own(Rootfs, d) /\ Own(Firmware(c), c) = Own(Firmware(d), d)
    BY <2>2, SettingsOf
  <2>5. Settings(c) = Settings(d)
    BY <1>2, <1>3, <2>1, <2>3, <2>4, SettingsAre
  <2>. QED  BY <1>7, <2>1, <2>3, <2>5, ExpectedValues, PrereqsOf
<1>8. Prereqs(t, c) = Prereqs(t, d) /\ Expected(t, c) = Expected(t, d)
  BY <1>4, <1>5, <1>6, <1>7, SharedGoal
<1>9. t \in Targets
  BY GoalsOf
<1>10. Reads(t, c) = Reads(t, d)
  BY <1>8 DEF Reads
<1>11. /\ InputTable[c][t] = Prereqs(t, c) \cap Targets /\ InputTable[d][t] = Prereqs(t, d) \cap Targets
       /\ ReadTable[c][t] = Reads(t, c) \cap Sources /\ ReadTable[d][t] = Reads(t, d) \cap Sources
  BY <1>9, TablesOf
<1>. QED  BY <1>8, <1>10, <1>11

LEMMA StampsOfKind ==
    ASSUME NEW c \in Configs
    PROVE  /\ GcptConfigStamp(c).key[1] = Variant(c)
           /\ SbiConfigStamp(c).key[1] = Variant(c)
  BY DEF GcptConfigStamp, SbiConfigStamp, Variant, File

LEMMA SiblingsOf ==
    /\ \A s \in Stamps : SiblingTable[s] = Siblings(s) /\ SiblingTable[s] \subseteq Stamps /\ s \in SiblingTable[s]
    /\ \A s, r \in Stamps : r \in SiblingTable[s] => SiblingTable[r] = SiblingTable[s]
    /\ \A c \in Configs : \A s \in Goals(c) \cap Stamps : SiblingTable[s] \cap Goals(c) = {s}
<1>1. \A s \in Stamps : SiblingTable[s] = Siblings(s)
  BY DEF SiblingTable
<1>2. \A s \in Stamps : Siblings(s) \subseteq Stamps /\ s \in Siblings(s)
  BY DEF Siblings
<1>3. \A s, r \in Stamps : r \in Siblings(s) => Siblings(r) = Siblings(s)
  BY DEF Siblings
<1>4. ASSUME NEW c \in Configs, NEW s \in Goals(c) \cap Stamps PROVE Siblings(s) \cap Goals(c) = {s}
  <2>1. Siblings(s) \cap Goals(c) \subseteq {r \in Goals(c) \cap Stamps : r.kind = s.kind}
    BY DEF Siblings
  <2>2. \A r \in Goals(c) \cap Stamps : r.kind = s.kind => r = s
    BY GoalsOf, GoalKinds
  <2>. QED  BY <2>1, <2>2, <1>2
<1>. QED  BY <1>1, <1>2, <1>3, <1>4

\* The stamps of one target are siblings.
LEMMA StampsAreSiblings ==
    ASSUME NEW c \in Configs, NEW d \in Configs, NEW t \in (Goals(c) \cap Goals(d)) \ Stamps
    PROVE  StampOf(t, c) \in SiblingTable[StampOf(t, d)]
<1>1. StampOf(t, c) \in Stamps /\ StampOf(t, d) \in Stamps
  BY StampIsInput
<1>2. ASSUME t = GcptBin(c), t = GcptBin(d) PROVE StampOf(t, c) \in Siblings(StampOf(t, d))
  <2>1. Variant(c) = Variant(d)
    BY <1>2 DEF GcptBin, File
  <2>2. StampOf(t, c) = GcptConfigStamp(c) /\ StampOf(t, d) = GcptConfigStamp(d)
    BY <1>2, StampsOf
  <2>3. /\ StampOf(t, c).kind = StampOf(t, d).kind
        /\ StampOf(t, c).key[1] = StampOf(t, d).key[1]
    BY <2>1, <2>2, StampsOfKind, GoalKinds
  <2>. QED  BY <1>1, <2>3 DEF Siblings
<1>3. ASSUME t = SbiBin(c), t = SbiBin(d) PROVE StampOf(t, c) \in Siblings(StampOf(t, d))
  <2>1. Variant(c) = Variant(d)
    BY <1>3 DEF SbiBin, File
  <2>2. StampOf(t, c) = SbiConfigStamp(c) /\ StampOf(t, d) = SbiConfigStamp(d)
    BY <1>3, StampsOf
  <2>3. /\ StampOf(t, c).kind = StampOf(t, d).kind
        /\ StampOf(t, c).key[1] = StampOf(t, d).key[1]
    BY <2>1, <2>2, StampsOfKind, GoalKinds
  <2>. QED  BY <1>1, <2>3 DEF Siblings
<1>4. ASSUME t = Rootfs PROVE StampOf(t, c) \in Siblings(StampOf(t, d))
  BY <1>1, <1>4, StampsOf, GoalKinds DEF Siblings
<1>5. ASSUME t = Firmware(c), t = Firmware(d) PROVE StampOf(t, c) \in Siblings(StampOf(t, d))
  BY <1>1, <1>5, StampsOf, GoalKinds DEF Siblings
<1>. QED  BY <1>1, <1>2, <1>3, <1>4, <1>5, SharedGoal, SiblingsOf

\* A target holds its own setting and what the targets it is built from hold.
LEMMA ExpectedOf ==
    ASSUME NEW c \in Configs, NEW t \in Goals(c) \ Stamps
    PROVE  Expected(t, c) = {Own(t, c)} \cup UNION {Expected(p, c) : p \in InputTable[c][t]}
<1>1. {GcptConfigStamp(c), SbiConfigStamp(c), RootfsVars(c), FirmwareVars(c)} \subseteq Stamps
  BY GoalsOf
<1>2. CASE t = SbiBin(c)
  BY <1>1, <1>2, InputsOf, ExpectedValues DEF SbiSettings
<1>3. CASE t = Rootfs
  BY <1>1, <1>3, InputsOf, ExpectedValues
<1>4. CASE t = GcptBin(c)
  <2>1. CASE c.multihart
    <3>1. InputTable[c][t] = {GcptConfigStamp(c), SbiBin(c)}
      BY <1>4, <2>1, InputsOf
    <3>. QED  BY <1>1, <1>4, <2>1, <3>1, ExpectedValues
  <2>2. CASE ~c.multihart
    <3>1. InputTable[c][t] = {GcptConfigStamp(c)}
      BY <1>4, <2>2, InputsOf
    <3>. QED  BY <1>1, <1>4, <2>2, <3>1, ExpectedValues
  <2>. QED  BY <2>1, <2>2
<1>5. CASE t = Firmware(c)
  <2>1. InputTable[c][t] = {GcptBin(c), SbiBin(c), Rootfs, FirmwareVars(c)}
    BY <1>5, InputsOf
  <2>2. UNION {Expected(p, c) : p \in InputTable[c][t]} =
          Expected(GcptBin(c), c) \cup Expected(SbiBin(c), c) \cup Expected(Rootfs, c)
            \cup Expected(FirmwareVars(c), c)
    BY <2>1
  <2>. QED  BY <1>1, <1>5, <2>2, ExpectedValues, SettingsAre DEF SbiSettings
<1>. QED  BY <1>2, <1>3, <1>4, <1>5, GoalsOf

-----------------------------------------------------------------------------
(* The steps *)

LEMMA ConfigGoals ==
    ASSUME Types
    PROVE  /\ make.config \in Configs
           /\ GoalTable[make.config] = Goals(make.config) /\ Goals(make.config) \subseteq Targets
<1>1. make.config \in Configs
  BY DEF Types
<1>. QED  BY <1>1, GoalsOf

\* What is known of a target whose recipe is at work.
LEMMA AtWork ==
    ASSUME Types, Scheduled, NEW t \in Targets, Working(t)
    PROVE  /\ t \in Goals(make.config) /\ t \notin done
           /\ make.state # "idle" /\ make.exit \in {"none", "ok", "failed", "killed"}
           /\ InputTable[make.config][t] \subseteq done
           /\ t \in Stamps => ~made[t].exists /\ t \notin running
           /\ t \notin Stamps => t \in running
<1>1. t \in Stamps => t \notin running
  BY DEF Scheduled
<1>2. t \in Stamps => PrereqTable[make.config][t] = {}
  BY ConfigGoals, TablesOf, StampPrereqs
<1>3. t \in Stamps => ~made[t].exists
  BY <1>1, <1>2 DEF Working, OutOfDate
<1>4. CASE t \in running
  BY <1>1, <1>4, ConfigGoals DEF Scheduled, Types
<1>5. CASE t \in Stamps
  BY <1>1, <1>3, <1>5, ConfigGoals DEF Working, Ready, Types
<1>. QED  BY <1>4, <1>5 DEF Working

\* What interrupted recipes leave: no target, a tainted one, or what was there.
LEMMA Left ==
    ASSUME Types, NEW lost \in SUBSET Targets, Interrupted(lost), NEW t \in Targets
    PROVE  /\ made'[t].exists /\ ~made'[t].tainted => made'[t] = made[t] /\ t \notin lost
           /\ made'[t].exists =>
                \/ made'[t] = made[t] /\ t \notin lost
                \/ t \in lost /\ t.kind \in {"rootfs", "firmware"}
           /\ t \notin lost /\ (\A s \in lost \cap Stamps : t \notin SiblingTable[s]) => made'[t] = made[t]
           /\ t \notin lost => newer'[t] = newer[t] \cup (lost \cap EverPrereqs[t] \cap {Rootfs})
<1>1. made[t] \in Contents
  BY DEF Types
<1>2. CASE t \in lost /\ t.kind \in {"rootfs", "firmware"}
  <2>1. made'[t] = [made[t] EXCEPT !.exists = TRUE, !.tainted = TRUE]
    BY <1>2 DEF Interrupted
  <2>2. made'[t].tainted
    BY <1>1, <2>1 DEF Contents
  <2>. QED  BY <1>2, <2>2
<1>3. CASE ~(t \in lost /\ t.kind \in {"rootfs", "firmware"})
           /\ (t \in lost \/ \E s \in lost \cap Stamps : t \in SiblingTable[s])
  <2>1. made'[t] = NoTarget
    BY <1>3 DEF Interrupted
  <2>2. ~made'[t].exists
    BY <2>1 DEF NoTarget
  <2>. QED  BY <1>3, <2>2 DEF Interrupted
<1>4. CASE t \notin lost /\ \A s \in lost \cap Stamps : t \notin SiblingTable[s]
  BY <1>4 DEF Interrupted
<1>. QED  BY <1>2, <1>3, <1>4

LEMMA ProductIsContents ==
    ASSUME Types, NEW t \in Targets
    PROVE  Product(t) \in Contents
<1>1. make.config \in Configs
  BY DEF Types
<1>2. InputTable[make.config][t] \subseteq Targets /\ ReadTable[make.config][t] \subseteq Sources
  BY <1>1, TablesOf
<1>3. \A p \in InputTable[make.config][t] : made[p] \in Contents
  BY <1>2 DEF Types
<1>4. <<t.kind, Setting(t, make.config)>> \in {Own(r, c) : r \in Targets, c \in Configs}
  BY <1>1 DEF Own
<1>5. Product(t).settings \subseteq {Own(r, c) : r \in Targets, c \in Configs}
  BY <1>3, <1>4 DEF Product, Contents
<1>6. Product(t).sources \subseteq Sources /\ Product(t).stale \subseteq Sources
  BY <1>2, <1>3 DEF Product, Contents, Types
<1>7. Product(t).tainted \in BOOLEAN /\ Product(t).exists \in BOOLEAN
  BY <1>3 DEF Product, Contents
<1>8. Product(t) = [exists |-> Product(t).exists, settings |-> Product(t).settings,
                    sources |-> Product(t).sources, stale |-> Product(t).stale,
                    tainted |-> Product(t).tainted]
  BY DEF Product
<1>. QED  BY <1>5, <1>6, <1>7, <1>8 DEF Contents

LEMMA WrittenAfterType ==
    ASSUME Types, NEW f \in Sources \cup Targets
    PROVE  WrittenAfter(f) \in [Targets -> SUBSET (Sources \cup Targets)]
  BY DEF Types, WrittenAfter

\* Contents whose marks are changed.
LEMMA ContentsFields ==
    ASSUME NEW r \in Contents
    PROVE  /\ r = [exists |-> r.exists, settings |-> r.settings, sources |-> r.sources,
                   stale |-> r.stale, tainted |-> r.tainted]
           /\ r.settings \in SUBSET {Own(t, c) : t \in Targets, c \in Configs}
           /\ r.sources \in SUBSET Sources /\ r.stale \in SUBSET Sources
  BY DEF Contents

LEMMA ContentsWith ==
    ASSUME NEW r \in Contents, NEW x, NEW y
    PROVE  [r EXCEPT !.exists = x, !.tainted = y] =
             [exists |-> x, settings |-> r.settings, sources |-> r.sources, stale |-> r.stale,
              tainted |-> y]
<1>. DEFINE e == [r EXCEPT !.exists = x]
<1>1. e = [exists |-> x, settings |-> r.settings, sources |-> r.sources, stale |-> r.stale,
           tainted |-> r.tainted]
  BY ContentsFields
<1>2. [r EXCEPT !.exists = x, !.tainted = y] = [e EXCEPT !.tainted = y]
  OBVIOUS
<1>. HIDE DEF e
<1>. QED  BY <1>1, <1>2

LEMMA ContentsTainted ==
    ASSUME NEW r \in Contents
    PROVE  [r EXCEPT !.exists = TRUE, !.tainted = TRUE] \in Contents
<1>. DEFINE e == [r EXCEPT !.exists = TRUE, !.tainted = TRUE]
<1>1. e = [exists |-> TRUE, settings |-> r.settings, sources |-> r.sources, stale |-> r.stale,
           tainted |-> TRUE]
  BY ContentsWith
<1>. HIDE DEF e
<1>2. e \in Contents
  BY <1>1, ContentsFields DEF Contents
<1>. QED  BY <1>2 DEF e

LEMMA ContentsStale ==
    ASSUME NEW r \in Contents, NEW f \in Sources,
           NEW e, e = [r EXCEPT !.stale = @ \cup ({f} \cap r.sources)]
    PROVE  /\ e \in Contents
           /\ e.exists = r.exists /\ e.settings = r.settings
           /\ e.sources = r.sources /\ e.tainted = r.tainted
           /\ e.stale = r.stale \cup ({f} \cap r.sources)
<1>1. e = [exists |-> r.exists, settings |-> r.settings, sources |-> r.sources,
           stale |-> r.stale \cup ({f} \cap r.sources), tainted |-> r.tainted]
  BY ContentsFields
<1>2. e \in Contents
  BY <1>1, ContentsFields DEF Contents
<1>. QED  BY <1>1, <1>2

\* What an edit does to the targets.
LEMMA AfterEdit ==
    ASSUME Types, NEW f \in Edited, Edit(f), NEW t \in Targets
    PROVE  /\ f \in Sources /\ made'[t] \in Contents
           /\ made'[t].exists = made[t].exists /\ made'[t].settings = made[t].settings
           /\ made'[t].sources = made[t].sources /\ made'[t].tainted = made[t].tainted
           /\ made'[t].stale = made[t].stale \cup ({f} \cap made[t].sources)
           /\ newer'[t] = newer[t] \cup ({f} \cap EverPrereqs[t])
<1>1. f \in Sources /\ f # t
  BY EditedAssumption, KindsOf
<1>2. made[t] \in Contents
  BY DEF Types
<1>3. made'[t] = [made[t] EXCEPT !.stale = @ \cup ({f} \cap made[t].sources)]
  BY DEF Edit
<1>4. newer'[t] = newer[t] \cup ({f} \cap EverPrereqs[t])
  BY <1>1 DEF Edit, WrittenAfter
<1>. QED  BY <1>1, <1>2, <1>3, <1>4, ContentsStale

LEMMA InterruptedTypes ==
    ASSUME Types, NEW lost \in SUBSET Targets, Interrupted(lost)
    PROVE  /\ made' \in [Targets -> Contents]
           /\ newer' \in [Targets -> SUBSET (Sources \cup Targets)]
<1>1. NoTarget \in Contents
  BY DEF NoTarget, Contents
<1>2. \A t \in Targets : [made[t] EXCEPT !.exists = TRUE, !.tainted = TRUE] \in Contents
  BY ContentsTainted DEF Types
<1>3. made' \in [Targets -> Contents]
  BY <1>1, <1>2 DEF Interrupted, Types
<1>4. newer' \in [Targets -> SUBSET (Sources \cup Targets)]
  BY DEF Interrupted, Types
<1>. QED  BY <1>3, <1>4

\* Every step preserves the types.
LEMMA TypesStep ==
    ASSUME Types, Scheduled, [Next]_vars
    PROVE  Types'
<1>1. ASSUME NEW c \in Configs, Start(c) PROVE Types'
  BY <1>1 DEF Types, Start
<1>2. ASSUME NEW t \in Targets, Begin(t) PROVE Types'
  BY <1>2 DEF Types, Begin
<1>3. ASSUME NEW t \in Targets, Finish(t) PROVE Types'
  <2>1. NoTarget \in Contents
    BY DEF NoTarget, Contents
  <2>2. made' \in [Targets -> Contents]
    BY <1>3, <2>1, ProductIsContents DEF Finish, Types
  <2>3. newer' \in [Targets -> SUBSET (Sources \cup Targets)]
    BY <1>3, WrittenAfterType DEF Finish
  <2>. QED  BY <1>3, <2>2, <2>3 DEF Types, Finish
<1>4. ASSUME NEW t \in Targets, Fail(t) PROVE Types'
  <2>1. /\ made' \in [Targets -> Contents]
        /\ newer' \in [Targets -> SUBSET (Sources \cup Targets)]
    BY <1>4, InterruptedTypes DEF Fail
  <2>2. make' \in [state : {"idle", "building", "failing"}, config : Configs,
                   exit : {"none", "ok", "failed", "killed"}]
    BY <1>4 DEF Types, Fail
  <2>3. missed' \in [Targets -> SUBSET Sources]
    BY <1>4 DEF Types, Fail
  <2>4. mishaps' \in Nat /\ quiet' = quiet
    BY <1>4 DEF Types, Fail
  <2>. QED  BY <2>1, <2>2, <2>3, <2>4 DEF Types
<1>5. ASSUME Keep PROVE Types'
  BY <1>5 DEF Types, Keep
<1>6. ASSUME Kill PROVE Types'
  <2>1. /\ made' \in [Targets -> Contents]
        /\ newer' \in [Targets -> SUBSET (Sources \cup Targets)]
    BY <1>6, InterruptedTypes DEF Kill
  <2>2. make' \in [state : {"idle", "building", "failing"}, config : Configs,
                   exit : {"none", "ok", "failed", "killed"}]
    BY <1>6 DEF Types, Kill
  <2>. QED  BY <1>6, <2>1, <2>2 DEF Types, Kill
<1>7. ASSUME Exit PROVE Types'
  BY <1>7 DEF Types, Exit
<1>8. ASSUME NEW f \in Edited, Edit(f) PROVE Types'
  <2>1. f \in Sources
    BY EditedAssumption
  <2>2. newer' \in [Targets -> SUBSET (Sources \cup Targets)]
    BY <1>8, <2>1, WrittenAfterType DEF Edit
  <2>3. made' \in [Targets -> Contents]
    <3>1. \A t \in Targets : made'[t] \in Contents
      BY <1>8, AfterEdit
    <3>. QED  BY <1>8, <3>1 DEF Edit
  <2>4. missed' \in [Targets -> SUBSET Sources]
    BY <1>8, <2>1 DEF Types, Edit
  <2>5. mishaps' = mishaps + 1 /\ quiet' = FALSE /\ make' = make
    BY <1>8 DEF Edit
  <2>6. mishaps' \in Nat
    BY <2>5 DEF Types
  <2>7. quiet' \in BOOLEAN
    BY <2>5
  <2>. QED  BY <2>2, <2>3, <2>4, <2>5, <2>6, <2>7 DEF Types
<1>9. ASSUME Stop \/ UNCHANGED vars PROVE Types'
  BY <1>9 DEF Types, Stop, vars
<1>. QED  BY <1>1, <1>2, <1>3, <1>4, <1>5, <1>6, <1>7, <1>8, <1>9 DEF Next

\* Every step preserves the order of the recipes.
LEMMA ScheduledStep ==
    ASSUME Types, Scheduled, [Next]_vars
    PROVE  Scheduled'
<1>1. ASSUME NEW c \in Configs, Start(c) PROVE Scheduled'
  BY <1>1 DEF Types, Scheduled, Start
<1>2. ASSUME NEW t \in Targets, Begin(t) PROVE Scheduled'
  BY <1>2 DEF Types, Scheduled, Begin, Ready
<1>3. ASSUME NEW t \in Targets, Finish(t) PROVE Scheduled'
  <2>1. /\ t \in GoalTable[make.config] /\ make.state # "idle"
        /\ InputTable[make.config][t] \subseteq done
    BY <1>3, AtWork, ConfigGoals DEF Finish
  <2>. QED  BY <1>3, <2>1 DEF Types, Scheduled, Finish
<1>4. ASSUME NEW t \in Targets, Fail(t) PROVE Scheduled'
  BY <1>4 DEF Types, Scheduled, Fail
<1>5. ASSUME Keep PROVE Scheduled'
  BY <1>5 DEF Types, Scheduled, Keep, Ready
<1>6. ASSUME Kill PROVE Scheduled'
  BY <1>6 DEF Types, Scheduled, Kill
<1>7. ASSUME Exit PROVE Scheduled'
  BY <1>7 DEF Types, Scheduled, Exit
<1>8. ASSUME NEW f \in Edited, Edit(f) PROVE Scheduled'
  BY <1>8 DEF Types, Scheduled, Edit
<1>9. ASSUME Stop \/ UNCHANGED vars PROVE Scheduled'
  BY <1>9 DEF Scheduled, Stop, vars
<1>. QED  BY <1>1, <1>2, <1>3, <1>4, <1>5, <1>6, <1>7, <1>8, <1>9 DEF Next

\* The stamps that an interruption leaves are as they were.
LEMMA StampsLeft ==
    ASSUME Types, StampsUnique, NEW lost \in SUBSET Targets, Interrupted(lost)
    PROVE  StampsUnique'
<1>1. \A s \in Stamps : s \in Targets /\ s.kind \notin {"rootfs", "firmware"}
  BY KindsOf DEF StampKinds, Targets
<1>2. \A s \in Stamps : made'[s].exists => made'[s] = made[s]
  BY <1>1, Left
<1>. QED  BY <1>2, SiblingsOf DEF StampsUnique

\* Every step preserves that a stamp is alone.
LEMMA StampsStep ==
    ASSUME Types, Scheduled, StampsUnique, [Next]_vars
    PROVE  StampsUnique'
<1>1. ASSUME NEW t \in Targets, Finish(t) PROVE StampsUnique'
  <2>1. CASE t \in Stamps
    <3>1. t \notin running /\ make.config \in Configs
      BY <1>1, <2>1, AtWork, ConfigGoals DEF Finish
    <3>2. missed[t] = {} /\ InputTable[make.config][t] = {} /\ ReadTable[make.config][t] = {}
      BY <2>1, <3>1, TablesOf, StampPrereqs DEF Scheduled
    <3>3. /\ made'[t].settings = {<<t.kind, Setting(t, make.config)>>}
          /\ made'[t].sources = {} /\ made'[t].stale = {} /\ ~made'[t].tainted
      BY <1>1, <3>2 DEF Finish, Product
    <3>4. <<t.kind, Setting(t, make.config)>> = <<t.kind, <<>> >>
      BY <2>1, <3>1, SettingsOf DEF Own
    <3>5. \A s \in Stamps \ {t} : made'[s].exists => made'[s] = made[s] /\ s \notin SiblingTable[t]
      BY <1>1, <2>1 DEF Finish, NoTarget, Targets
    <3>6. \A s \in Stamps : t \in SiblingTable[s] => s \in SiblingTable[t]
      BY <2>1, SiblingsOf
    <3>7. \A s \in Stamps : SiblingTable[s] \subseteq Stamps
      BY SiblingsOf
    <3>8. ASSUME NEW s \in Stamps, made'[s].exists, NEW r \in SiblingTable[s], made'[r].exists
          PROVE  r = s
      BY <2>1, <3>5, <3>6, <3>7, <3>8 DEF StampsUnique
    <3>. QED  BY <3>3, <3>4, <3>5, <3>8 DEF StampsUnique
  <2>2. CASE t \notin Stamps
    <3>1. \A s \in Stamps : made'[s] = made[s]
      BY <1>1, <2>2 DEF Finish, Targets
    <3>. QED  BY <3>1, SiblingsOf DEF StampsUnique
  <2>. QED  BY <2>1, <2>2
<1>2. ASSUME NEW t \in Targets, Fail(t) PROVE StampsUnique'
  BY <1>2, StampsLeft DEF Fail
<1>3. ASSUME Kill PROVE StampsUnique'
  BY <1>3, StampsLeft DEF Kill
<1>4. ASSUME NEW f \in Edited, Edit(f) PROVE StampsUnique'
  <2>1. \A s \in Stamps : /\ made'[s].exists = made[s].exists
                         /\ made'[s].settings = made[s].settings /\ made'[s].sources = made[s].sources
                         /\ made'[s].stale = made[s].stale \cup ({f} \cap made[s].sources)
                         /\ made'[s].tainted = made[s].tainted
    BY <1>4, AfterEdit DEF Targets
  <2>. QED  BY <2>1, SiblingsOf DEF StampsUnique
<1>5. ASSUME UNCHANGED made PROVE StampsUnique'
  BY <1>5 DEF StampsUnique
<1>. QED  BY <1>1, <1>2, <1>3, <1>4, <1>5 DEF Next, Start, Begin, Keep, Exit, Stop, vars

-----------------------------------------------------------------------------
(* What make brings up to date *)

\* A target that make keeps is good: also one that an earlier make has left.
LEMMA KeptIsGood ==
    ASSUME Types, Scheduled, StampsUnique, BuiltForStamp, DoneGood,
           NEW t \in Targets, Ready(t), ~OutOfDate(t)
    PROVE  Good(t)
<1>. DEFINE c == make.config
<1>1. c \in Configs /\ t \in Goals(c) /\ t \in GoalTable[c] /\ InputTable[c][t] \subseteq done
  BY ConfigGoals DEF Ready
<1>2. made[t].exists /\ newer[t] \cap PrereqTable[c][t] = {}
  BY DEF OutOfDate
<1>3. InputTable[c][t] \subseteq PrereqTable[c][t]
  BY <1>1, TablesOf
<1>4. CASE t \in Stamps
  <2>1. made[t].settings = {<<t.kind, <<>> >>} /\ made[t].stale = {}
    BY <1>2, <1>4 DEF StampsUnique
  <2>2. Expected(t, c) = {<<t.kind, <<>> >>}
    BY <1>1, <1>4, ExpectedValues, SettingsOf
  <2>. QED  BY <1>2, <1>3, <2>1, <2>2 DEF Good
<1>5. CASE t \notin Stamps
  <2>. SUFFICES ASSUME ~made[t].tainted
                PROVE  made[t].settings = Expected(t, c) /\ (quiet => made[t].stale \subseteq {OpenSbi})
    BY <1>2, <1>3 DEF Good
  <2>1. StampOf(t, c) \in InputTable[c][t]
    BY <1>1, <1>5, StampIsInput
  <2>2. \A p \in InputTable[c][t] : made[p].exists /\ p \notin newer[t] /\ Good(p)
    BY <1>1, <1>2, <1>3 DEF DoneGood, Good
  <2>3. Untouched(t, c)
    BY <2>2 DEF Untouched
  <2>4. /\ made[t].settings = Expected(t, c)
        /\ \A p \in InputTable[c][t] : ~made[p].tainted
        /\ made[t].stale \subseteq {OpenSbi} \cup (newer[t] \cap PrereqTable[c][t])
                                     \cup UNION {made[p].stale : p \in InputTable[c][t]}
    BY <1>1, <1>2, <1>5, <2>1, <2>2, <2>3 DEF BuiltForStamp, Matches, NewerThanStamp, Traced
  <2>5. quiet => \A p \in InputTable[c][t] : made[p].stale \subseteq {OpenSbi}
    BY <2>2, <2>4 DEF Good
  <2>. QED  BY <1>2, <2>4, <2>5
<1>. QED  BY <1>4, <1>5

\* What Finish makes of a target that is no stamp, unless it is tainted.
LEMMA FinishedHolds ==
    ASSUME Types, Scheduled, DoneGood, NEW t \in Targets \ Stamps, Working(t), ~Product(t).tainted
    PROVE  LET c == make.config
           IN  /\ Product(t).settings = Expected(t, c)
               /\ \A p \in InputTable[c][t] : made[p].exists /\ ~made[p].tainted
               /\ Product(t).sources =
                    ReadTable[c][t] \cup UNION {made[p].sources : p \in InputTable[c][t]}
               /\ Product(t).stale = UNION {made[p].stale : p \in InputTable[c][t]}
<1>. DEFINE c == make.config
<1>1. c \in Configs /\ t \in Goals(c) \ Stamps /\ InputTable[c][t] \subseteq done
  BY AtWork, ConfigGoals
<1>2. missed[t] = {} /\ \A p \in InputTable[c][t] : ~made[p].tainted
  BY DEF Product
<1>3. \A p \in InputTable[c][t] : made[p].exists /\ made[p].settings = Expected(p, c)
  BY <1>1, <1>2 DEF DoneGood, Good
<1>4. Product(t).settings = {Own(t, c)} \cup UNION {made[p].settings : p \in InputTable[c][t]}
  BY DEF Product, Own
<1>5. UNION {made[p].settings : p \in InputTable[c][t]} = UNION {Expected(p, c) : p \in InputTable[c][t]}
  BY <1>3
<1>6. Product(t).settings = Expected(t, c)
  BY <1>1, <1>4, <1>5, ExpectedOf
<1>7. /\ Product(t).sources = ReadTable[c][t] \cup UNION {made[p].sources : p \in InputTable[c][t]}
      /\ Product(t).stale = UNION {made[p].stale : p \in InputTable[c][t]}
  BY <1>2 DEF Product
<1>. QED  BY <1>2, <1>3, <1>6, <1>7

\* A target whose recipe has ended is good.
LEMMA FinishedIsGood ==
    ASSUME Types, Scheduled, StampsUnique, DoneGood, NEW t \in Targets, Finish(t), Types', StampsUnique'
    PROVE  Good(t)'
<1>. DEFINE c == make.config
<1>1. c \in Configs /\ make' = make /\ quiet' = quiet /\ Working(t)
  BY ConfigGoals DEF Finish
<1>2. made'[t] = Product(t) /\ newer'[t] = {}
  BY DEF Finish, WrittenAfter
<1>3. made'[t].exists
  BY <1>2 DEF Product
<1>4. ASSUME ~made'[t].tainted
      PROVE  made'[t].settings = Expected(t, c) /\ (quiet => made'[t].stale \subseteq {OpenSbi})
  <2>1. CASE t \in Stamps
    <3>1. made'[t].settings = {<<t.kind, <<>> >>} /\ made'[t].stale = {}
      BY <1>3, <2>1 DEF StampsUnique
    <3>2. Expected(t, c) = {<<t.kind, <<>> >>}
      BY <1>1, <2>1, ExpectedValues, SettingsOf
    <3>. QED  BY <3>1, <3>2
  <2>2. CASE t \notin Stamps
    <3>1. /\ made'[t].settings = Expected(t, c)
          /\ \A p \in InputTable[c][t] : made[p].exists /\ ~made[p].tainted
          /\ made'[t].stale = UNION {made[p].stale : p \in InputTable[c][t]}
      BY <1>1, <1>2, <1>4, <2>2, FinishedHolds
    <3>2. InputTable[c][t] \subseteq done
      BY <1>1, AtWork
    <3>3. quiet => \A p \in InputTable[c][t] : made[p].stale \subseteq {OpenSbi}
      BY <3>1, <3>2 DEF DoneGood, Good
    <3>. QED  BY <3>1, <3>3
  <2>. QED  BY <2>1, <2>2
<1>. QED  BY <1>1, <1>2, <1>3, <1>4 DEF Good

\* Another target that is up to date is not disturbed by it.
LEMMA OthersStayGood ==
    ASSUME Types, Scheduled, DoneGood, NEW t \in Targets, Finish(t), NEW d \in done
    PROVE  Good(d)'
<1>. DEFINE c == make.config
<1>1. /\ c \in Configs /\ make' = make /\ quiet' = quiet /\ Working(t)
      /\ t \in Goals(c) /\ t \notin done
  BY ConfigGoals, AtWork DEF Finish
<1>2. d \in Goals(c) /\ d \in Targets /\ d # t /\ InputTable[c][d] \subseteq done
  BY <1>1, ConfigGoals DEF Scheduled
<1>3. t \in Stamps => d \notin SiblingTable[t]
  BY <1>1, <1>2, SiblingsOf
<1>4. made'[d] = made[d]
  BY <1>2, <1>3 DEF Finish
<1>5. newer'[d] = newer[d] \cup ({t} \cap EverPrereqs[d])
  BY <1>2 DEF Finish, WrittenAfter
<1>6. t \notin InputTable[c][d] /\ t \notin PrereqTable[c][d]
  BY <1>1, <1>2, TablesOf
<1>. QED  BY <1>1, <1>4, <1>5, <1>6 DEF DoneGood, Good

\* An edit leaves it good, but for what it says of a make that nobody disturbs.
LEMMA EditedStaysGood ==
    ASSUME Types, NEW f \in Edited, Edit(f), NEW t \in Targets, Good(t)
    PROVE  Good(t)'
<1>. DEFINE c == make.config
<1>1. c \in Configs /\ make' = make /\ ~quiet'
  BY ConfigGoals DEF Edit
<1>2. f \notin InputTable[c][t]
  BY <1>1, TablesOf, KindsOf, AfterEdit
<1>. QED  BY <1>1, <1>2, AfterEdit DEF Good

\* Every step preserves that what is done is good.
LEMMA DoneStep ==
    ASSUME Types, Scheduled, StampsUnique, BuiltForStamp, DoneGood, [Next]_vars, Types', StampsUnique'
    PROVE  DoneGood'
<1>1. ASSUME NEW t \in Targets, Finish(t) PROVE DoneGood'
  BY <1>1, FinishedIsGood, OthersStayGood DEF DoneGood, Finish
<1>2. ASSUME Keep PROVE DoneGood'
  <2>1. \A t \in done' : Good(t)
    BY <1>2, KeptIsGood DEF DoneGood, Keep
  <2>. QED  BY <1>2, <2>1 DEF DoneGood, Good, Keep
<1>3. ASSUME NEW t \in Targets, Fail(t) PROVE DoneGood'
  <2>. DEFINE c == make.config
  <2>1. PICK lost \in SUBSET {t} : Interrupted(lost)
    BY <1>3 DEF Fail
  <2>2. t \in Goals(c) /\ t \notin done /\ c \in Configs /\ make'.config = c /\ quiet' = quiet /\ done' = done
    BY <1>3, AtWork, ConfigGoals DEF Fail, Types
  <2>3. ASSUME NEW d \in done PROVE Good(d)'
    <3>1. d \in Goals(c) /\ d \in Targets /\ d # t /\ InputTable[c][d] \subseteq done
      BY <2>2, ConfigGoals DEF Scheduled
    <3>2. \A s \in lost \cap Stamps : d \notin SiblingTable[s]
      BY <2>2, <3>1, SiblingsOf
    <3>3. made'[d] = made[d] /\ newer'[d] \subseteq newer[d] \cup {t}
      BY <2>1, <3>1, <3>2, Left
    <3>4. t \notin InputTable[c][d] /\ t \notin PrereqTable[c][d]
      BY <2>2, <3>1, TablesOf
    <3>. QED  BY <2>2, <3>3, <3>4 DEF DoneGood, Good
  <2>. QED  BY <2>2, <2>3 DEF DoneGood
<1>4. ASSUME NEW f \in Edited, Edit(f) PROVE DoneGood'
  <2>1. done' = done /\ done \subseteq Targets
    BY <1>4, ConfigGoals DEF Scheduled, Edit
  <2>2. \A t \in done : Good(t)'
    BY <1>4, <2>1, EditedStaysGood DEF DoneGood
  <2>. QED  BY <2>1, <2>2 DEF DoneGood
<1>5. ASSUME NEW t \in Targets, Begin(t) PROVE DoneGood'
  BY <1>5 DEF DoneGood, Good, Begin
<1>6. ASSUME done' = {} PROVE DoneGood'
  BY <1>6 DEF DoneGood
<1>7. ASSUME Stop \/ UNCHANGED vars PROVE DoneGood'
  BY <1>7 DEF DoneGood, Good, Stop, vars
<1>. QED  BY <1>1, <1>2, <1>3, <1>4, <1>5, <1>6, <1>7 DEF Next, Start, Kill, Exit

\* Every step preserves that all is good once a make has ended well.
LEMMA EndedStep ==
    ASSUME Types, Scheduled, DoneGood, EndedGood, [Next]_vars
    PROVE  EndedGood'
<1>1. ASSUME NEW c \in Configs, Start(c) PROVE EndedGood'
  BY <1>1 DEF EndedGood, Start
<1>2. ASSUME NEW t \in Targets, Begin(t) PROVE EndedGood'
  BY <1>2 DEF EndedGood, Begin, Ready
<1>3. ASSUME NEW t \in Targets, Finish(t) PROVE EndedGood'
  BY <1>3, AtWork DEF EndedGood, Finish
<1>4. ASSUME NEW t \in Targets, Fail(t) PROVE EndedGood'
  BY <1>4, AtWork DEF EndedGood, Fail, Types
<1>5. ASSUME Keep PROVE EndedGood'
  BY <1>5 DEF EndedGood, Keep, Ready
<1>6. ASSUME Kill PROVE EndedGood'
  BY <1>6 DEF EndedGood, Kill, Types
<1>7. ASSUME Exit PROVE EndedGood'
  <2>1. CASE make.state = "building" /\ done = GoalTable[make.config]
             /\ make' = [make EXCEPT !.state = "idle", !.exit = "ok"]
    <3>1. make'.state = "idle" /\ make'.config = make.config
      BY <2>1 DEF Types
    <3>. QED  BY <1>7, <2>1, <3>1 DEF EndedGood, DoneGood, Good, Exit
  <2>2. CASE make' = [make EXCEPT !.state = "idle", !.exit = "failed"]
    BY <2>2 DEF EndedGood, Types
  <2>. QED  BY <1>7, <2>1, <2>2 DEF Exit
<1>8. ASSUME NEW f \in Edited, Edit(f) PROVE EndedGood'
  BY <1>8, EditedStaysGood, ConfigGoals DEF EndedGood, Edit
<1>9. ASSUME Stop \/ UNCHANGED vars PROVE EndedGood'
  BY <1>9 DEF EndedGood, Good, Stop, vars
<1>. QED  BY <1>1, <1>2, <1>3, <1>4, <1>5, <1>6, <1>7, <1>8, <1>9 DEF Next

-----------------------------------------------------------------------------
(* Targets and their stamps *)

\* It is preserved where the target, its stamp and its inputs stay as they are,
\* or become newer than the target.
LEMMA UndisturbedMatches ==
    ASSUME Types, NEW c \in Configs, NEW t \in Goals(c) \ Stamps, Matches(t, c),
           made'[t].exists /\ ~made'[t].tainted => made'[t] = made[t] /\ newer[t] \subseteq newer'[t],
           \A p \in InputTable[c][t] :
               made'[p].exists /\ p \notin newer'[t] => made'[p] = made[p]
    PROVE  Matches(t, c)'
<1>. SUFFICES ASSUME NewerThanStamp(t, c)'
              PROVE  made'[t].settings = Expected(t, c) /\ (Untouched(t, c)' => Traced(t, c)')
  BY DEF Matches
<1>1. made'[t] = made[t] /\ newer[t] \subseteq newer'[t]
  BY DEF NewerThanStamp
<1>2. StampOf(t, c) \in InputTable[c][t]
  BY StampIsInput
<1>3. NewerThanStamp(t, c)
  BY <1>1, <1>2 DEF NewerThanStamp
<1>4. made[t].settings = Expected(t, c)
  BY <1>3 DEF Matches
<1>5. ASSUME Untouched(t, c)' PROVE Traced(t, c)'
  <2>1. \A p \in InputTable[c][t] : made'[p] = made[p] /\ made[p].exists /\ p \notin newer[t]
    BY <1>1, <1>5 DEF Untouched
  <2>2. Traced(t, c)
    BY <1>3, <2>1 DEF Matches, Untouched
  <2>. QED  BY <1>1, <2>1, <2>2 DEF Traced
<1>. QED  BY <1>1, <1>4, <1>5

\* A target whose recipe has ended is of every command line with its stamp.
LEMMA FinishedMatches ==
    ASSUME Types, Scheduled, StampsUnique, DoneGood, NEW t \in Targets \ Stamps, Finish(t),
           NEW d \in Configs, t \in Goals(d)
    PROVE  Matches(t, d)'
<1>. DEFINE c == make.config
<1>. SUFFICES ASSUME NewerThanStamp(t, d)'
              PROVE  made'[t].settings = Expected(t, d) /\ Traced(t, d)'
  BY DEF Matches
<1>1. /\ Working(t) /\ c \in Configs /\ t \in Goals(c) \ Stamps
      /\ InputTable[c][t] \subseteq done /\ t \notin done
  BY AtWork, ConfigGoals DEF Finish
<1>2. made'[t] = Product(t) /\ \A r \in Targets \ {t} : made'[r] = made[r]
  BY DEF Finish
<1>3. /\ StampOf(t, c) \in InputTable[c][t] /\ StampOf(t, c) \in Stamps
      /\ StampOf(t, d) \in Stamps
      /\ StampOf(t, d) \in SiblingTable[StampOf(t, c)]
  BY <1>1, StampIsInput, StampsAreSiblings
<1>4. made[StampOf(t, c)].exists /\ made[StampOf(t, d)].exists
  BY <1>1, <1>2, <1>3 DEF DoneGood, Good, NewerThanStamp, Targets
<1>5. StampOf(t, d) = StampOf(t, c)
  BY <1>3, <1>4 DEF StampsUnique
<1>6. /\ InputTable[d][t] = InputTable[c][t] /\ ReadTable[d][t] = ReadTable[c][t]
      /\ Expected(t, d) = Expected(t, c)
  BY <1>1, <1>5, StampDetermines
<1>7. /\ made'[t].settings = Expected(t, c)
      /\ \A p \in InputTable[c][t] : ~made[p].tainted
      /\ made'[t].sources = ReadTable[c][t] \cup UNION {made[p].sources : p \in InputTable[c][t]}
      /\ made'[t].stale = UNION {made[p].stale : p \in InputTable[c][t]}
  BY <1>1, <1>2, FinishedHolds DEF NewerThanStamp
<1>8. InputTable[c][t] \subseteq Targets \ {t}
  BY <1>1, TablesOf
<1>9. \A p \in InputTable[c][t] : made'[p] = made[p]
  BY <1>2, <1>8
<1>. QED  BY <1>6, <1>7, <1>9 DEF Traced

\* What interrupted recipes leave is of its stamp, or tainted.
LEMMA LeftMatches ==
    ASSUME Types, NEW lost \in SUBSET Targets, Interrupted(lost), BuiltForStamp
    PROVE  BuiltForStamp'
<1>. SUFFICES ASSUME NEW c \in Configs, NEW t \in Goals(c) \ Stamps PROVE Matches(t, c)'
  BY GoalsOf DEF BuiltForStamp
<1>1. t \in Targets /\ Matches(t, c)
  BY GoalsOf DEF BuiltForStamp
<1>2. made'[t].exists /\ ~made'[t].tainted => made'[t] = made[t] /\ newer[t] \subseteq newer'[t]
  BY <1>1, Left
<1>3. ASSUME NEW p \in InputTable[c][t], made'[p].exists, p \notin newer'[t],
             made'[t].exists, ~made'[t].tainted
      PROVE  made'[p] = made[p]
  <2>1. p \in Goals(c) /\ p \in Targets /\ p \in EverPrereqs[t] /\ p.kind # "firmware"
    BY StampIsInput, GoalsOf
  <2>2. ASSUME p \in lost, p.kind = "rootfs" PROVE FALSE
    <3>1. p = Rootfs
      BY <2>1, <2>2, GoalsOf, GoalKinds
    <3>2. t \notin lost
      BY <1>1, <1>3, Left
    <3>. QED  BY <1>1, <1>3, <2>1, <2>2, <3>1, <3>2, Left
  <2>. QED  BY <1>3, <2>1, <2>2, Left
<1>4. CASE made'[t].exists /\ ~made'[t].tainted
  BY <1>1, <1>2, <1>3, <1>4, UndisturbedMatches
<1>5. CASE ~(made'[t].exists /\ ~made'[t].tainted)
  BY <1>5 DEF Matches, NewerThanStamp
<1>. QED  BY <1>4, <1>5

\* Every step preserves that a target that is newer than its stamp is of it.
LEMMA BuiltStep ==
    ASSUME Types, Scheduled, StampsUnique, BuiltForStamp, DoneGood, [Next]_vars
    PROVE  BuiltForStamp'
<1>1. ASSUME NEW t \in Targets, Finish(t) PROVE BuiltForStamp'
  <2>. SUFFICES ASSUME NEW c \in Configs, NEW u \in Goals(c) \ Stamps PROVE Matches(u, c)'
    BY GoalsOf DEF BuiltForStamp
  <2>1. u \in Targets /\ Matches(u, c)
    BY GoalsOf DEF BuiltForStamp
  <2>2. CASE u = t
    BY <1>1, <2>1, <2>2, FinishedMatches
  <2>3. CASE u # t
    <3>1. made'[u] = made[u] /\ newer'[u] = newer[u] \cup ({t} \cap EverPrereqs[u])
      BY <1>1, <2>1, <2>3, SiblingsOf DEF Finish, WrittenAfter
    <3>2. ASSUME NEW p \in InputTable[c][u], made'[p].exists, p \notin newer'[u]
          PROVE  made'[p] = made[p]
      <4>1. p \in EverPrereqs[u] /\ p \in Targets
        BY StampIsInput, GoalsOf
      <4>2. p # t
        BY <3>1, <3>2, <4>1
      <4>. QED  BY <1>1, <3>2, <4>1, <4>2 DEF Finish, NoTarget
    <3>. QED  BY <2>1, <3>1, <3>2, UndisturbedMatches
  <2>. QED  BY <2>2, <2>3
<1>2. ASSUME NEW t \in Targets, Fail(t) PROVE BuiltForStamp'
  BY <1>2, LeftMatches DEF Fail
<1>3. ASSUME Kill PROVE BuiltForStamp'
  BY <1>3, LeftMatches DEF Kill
<1>4. ASSUME NEW f \in Edited, Edit(f) PROVE BuiltForStamp'
  <2>. SUFFICES ASSUME NEW c \in Configs, NEW t \in Goals(c) \ Stamps, NewerThanStamp(t, c)'
                PROVE  made'[t].settings = Expected(t, c) /\ (Untouched(t, c)' => Traced(t, c)')
    BY GoalsOf DEF BuiltForStamp, Matches
  <2>1. t \in Targets /\ Matches(t, c) /\ InputTable[c][t] \subseteq Targets
    BY GoalsOf, TablesOf DEF BuiltForStamp
  <2>2. StampOf(t, c) \in InputTable[c][t]
    BY StampIsInput
  <2>3. NewerThanStamp(t, c)
    BY <1>4, <2>1, <2>2, AfterEdit DEF NewerThanStamp
  <2>4. made'[t].settings = Expected(t, c)
    BY <1>4, <2>1, <2>3, AfterEdit DEF Matches
  <2>5. ASSUME Untouched(t, c)' PROVE Traced(t, c)'
    <3>1. Untouched(t, c)
      BY <1>4, <2>1, <2>5, AfterEdit DEF Untouched
    <3>2. Traced(t, c)
      BY <2>1, <2>3, <3>1 DEF Matches
    <3>3. \A p \in InputTable[c][t] :
              /\ made'[p].tainted = made[p].tainted /\ made'[p].sources = made[p].sources
              /\ made'[p].stale = made[p].stale \cup ({f} \cap made[p].sources)
      BY <1>4, <2>1, AfterEdit
    <3>4. /\ made'[t].sources = made[t].sources
          /\ made'[t].stale = made[t].stale \cup ({f} \cap made[t].sources)
          /\ newer'[t] = newer[t] \cup ({f} \cap EverPrereqs[t])
      BY <1>4, <2>1, AfterEdit
    <3>5. ReadTable[c][t] \subseteq (PrereqTable[c][t] \cap EverPrereqs[t]) \cup {OpenSbi}
      BY <2>1, TablesOf
    <3>. QED  BY <3>2, <3>3, <3>4, <3>5 DEF Traced
  <2>. QED  BY <2>4, <2>5
<1>5. ASSUME UNCHANGED <<made, newer>> PROVE BuiltForStamp'
  BY <1>5 DEF BuiltForStamp, Matches, NewerThanStamp, Traced, Untouched
<1>. QED  BY <1>1, <1>2, <1>3, <1>4, <1>5 DEF Next, Start, Begin, Keep, Exit, Stop, vars

-----------------------------------------------------------------------------
(* The theorems *)

LEMMA InitInvariant == Init => IInv
<1>. SUFFICES ASSUME Init PROVE IInv
  OBVIOUS
<1>1. make.config \in Configs
  BY ConfigsAssumption DEF Init
<1>2. NoTarget \in Contents
  BY DEF NoTarget, Contents
<1>3. Types
  BY <1>1, <1>2 DEF Init, Types
<1>4. \A t \in Targets : ~made[t].exists
  BY DEF Init, NoTarget
<1>5. Scheduled /\ DoneGood /\ EndedGood
  BY DEF Init, Scheduled, DoneGood, EndedGood
<1>6. StampsUnique
  BY <1>4 DEF StampsUnique, Targets
<1>7. BuiltForStamp
  BY <1>4, GoalsOf DEF BuiltForStamp, Matches, NewerThanStamp
<1>. QED  BY <1>3, <1>5, <1>6, <1>7 DEF IInv

LEMMA StepInvariant == IInv /\ [Next]_vars => IInv'
  BY TypesStep, ScheduledStep, StampsStep, BuiltStep, DoneStep, EndedStep DEF IInv

LEMMA Invariance == Spec => []IInv
  BY InitInvariant, StepInvariant, PTL DEF Spec

\* When make ends well, the firmware is the one that a build from scratch would
\* give, for any command lines and any history of builds, edits, failures and
\* kills.
THEOREM FirmwareIsAlwaysCurrent == Spec => []FirmwareIsCurrent
<1>1. ASSUME IInv PROVE FirmwareIsCurrent
  <2>1. /\ make.config \in Configs /\ Firmware(make.config) \in GoalTable[make.config]
    BY <1>1, ConfigGoals DEF IInv, Goals
  <2>2. make.exit = "ok" => Good(Firmware(make.config))
    BY <1>1, <2>1 DEF IInv, EndedGood
  <2>3. Expected(Firmware(make.config), make.config) = Settings(make.config)
    BY <2>1, ExpectedValues
  <2>. QED  BY <2>2, <2>3 DEF Good, FirmwareIsCurrent
<1>. QED  BY <1>1, Invariance, PTL

\* And then nothing is left to be done, however the parallel recipes ended.
THEOREM SecondMakeIsAlwaysIdle == Spec => []SecondMakeIsIdle
<1>1. ASSUME IInv PROVE SecondMakeIsIdle
  BY <1>1 DEF IInv, EndedGood, Good, SecondMakeIsIdle, OutOfDate
<1>. QED  BY <1>1, Invariance, PTL

-----------------------------------------------------------------------------
(* The two platforms *)

LEMMA RootfsGoal ==
    ASSUME Types
    PROVE  /\ Rootfs \in Targets /\ Rootfs \in Goals(make.config) \ Stamps
           /\ Rootfs.kind = "rootfs"
           /\ \A c \in Configs : /\ RootfsVars(c) \in Stamps /\ RootfsVars(c) \in EverPrereqs[Rootfs]
                                 /\ \A d \in Configs : RootfsVars(c) \in SiblingTable[RootfsVars(d)]
<1>1. Rootfs \in Goals(make.config) \ Stamps /\ Rootfs \in Targets
  BY ConfigGoals, GoalsOf
<1>2. \A c \in Configs : Rootfs \in Goals(c) \ Stamps
  BY GoalsOf
<1>3. \A c \in Configs : /\ RootfsVars(c) \in Stamps /\ RootfsVars(c) \in EverPrereqs[Rootfs]
                         /\ \A d \in Configs : RootfsVars(c) \in SiblingTable[RootfsVars(d)]
  <2>. SUFFICES ASSUME NEW c \in Configs
                PROVE  /\ RootfsVars(c) \in Stamps /\ RootfsVars(c) \in EverPrereqs[Rootfs]
                       /\ \A d \in Configs : RootfsVars(c) \in SiblingTable[RootfsVars(d)]
    OBVIOUS
  <2>1. RootfsVars(c) \in Stamps /\ RootfsVars(c) \in EverPrereqs[Rootfs]
    BY <1>2, StampIsInput, StampsOf
  <2>2. \A d \in Configs : RootfsVars(c) \in SiblingTable[RootfsVars(d)]
    BY <1>2, StampsAreSiblings, StampsOf
  <2>. QED  BY <2>1, <2>2
<1>. QED  BY <1>1, <1>3, KindsOf DEF Rootfs, File

\* The setting of a rootfs and the key of its stamp say the same.
LEMMA RootfsSetting ==
    ASSUME NEW c \in Configs, NEW d \in Configs
    PROVE  /\ Own(Rootfs, c) = Own(Rootfs, d) <=> RootfsVars(c) = RootfsVars(d)
           /\ Own(Rootfs, c) \in Expected(Rootfs, d) <=> RootfsVars(c) = RootfsVars(d)
<1>1. Own(Rootfs, c) = Own(Rootfs, d) <=> Variant(c) = Variant(d) /\ Harts(c) = Harts(d)
  BY SettingsOf
<1>2. RootfsVars(c) = RootfsVars(d) <=> Variant(c) = Variant(d) /\ Harts(c) = Harts(d)
  BY DEF RootfsVars, File
<1>3. Own(Rootfs, c) # Own(RootfsVars(d), d)
  BY GoalKinds DEF Own
<1>. QED  BY <1>1, <1>2, <1>3, ExpectedValues

\* Every step preserves that an undisturbed rootfs is of its stamp.
LEMMA RootfsStep ==
    ASSUME IInv, RootfsKept, [Next]_vars
    PROVE  RootfsKept'
<1>. SUFFICES ASSUME mishaps' = 0 PROVE RootfsKept'
  BY DEF RootfsKept
<1>1. Types /\ Scheduled /\ StampsUnique /\ DoneGood /\ EndedGood /\ make.config \in Configs
  BY ConfigGoals DEF IInv
<1>2. ASSUME NEW c \in Configs, Start(c) PROVE RootfsKept'
  <2>1. done = {}
    BY <1>1, <1>2 DEF Scheduled, Start
  <2>. QED  BY <1>2, <2>1 DEF RootfsKept, Start
<1>3. ASSUME NEW t \in Targets, Begin(t) PROVE RootfsKept'
  BY <1>3 DEF RootfsKept, Begin
<1>4. ASSUME NEW t \in Targets, Finish(t) PROVE RootfsKept'
  <2>1. /\ t \in Goals(make.config) /\ t \notin done /\ InputTable[make.config][t] \subseteq done
        /\ t \in Stamps => ~made[t].exists
    BY <1>1, <1>4, AtWork DEF Finish
  <2>2. mishaps = 0 /\ make' = make
    BY <1>4 DEF Finish
  <2>3. make.state # "failing" /\ \A r \in Targets : missed'[r] = {}
    BY <1>4, <2>2 DEF RootfsKept, Finish, Types
  <2>4. newer'[Rootfs] \cap Sources = {}
    BY <1>4, <2>2, RootfsGoal, <1>1, KindsOf DEF RootfsKept, Finish, WrittenAfter
  <2>5. CASE t = Rootfs
    <3>1. RootfsVars(make.config) \in done'
      BY <1>1, <1>4, <2>1, <2>5, InputsOf DEF Finish
    <3>2. newer'[Rootfs] = {}
      BY <1>1, <1>4, <2>5 DEF Finish, WrittenAfter
    <3>3. ~made'[Rootfs].tainted
      <4>1. \A p \in InputTable[make.config][t] : ~made[p].tainted
        BY <1>1, <2>1, <2>5, InputsOf, RootfsGoal DEF StampsUnique, DoneGood, Good
      <4>. QED  BY <1>4, <2>2, <2>5, <4>1 DEF Finish, Product, RootfsKept
    <3>. QED  BY <2>2, <2>3, <2>4, <3>1, <3>2, <3>3 DEF RootfsKept
  <2>6. CASE t # Rootfs
    <3>1. made'[Rootfs] = made[Rootfs] /\ newer'[Rootfs] = newer[Rootfs] \cup ({t} \cap EverPrereqs[Rootfs])
      BY <1>1, <1>4, <2>6, RootfsGoal, SiblingsOf DEF Finish, WrittenAfter
    <3>2. CASE \E d \in Configs : t = RootfsVars(d)
      <4>1. t = RootfsVars(make.config)
        BY <1>1, <2>1, <3>2, GoalsOf, GoalKinds
      <4>2. \A c \in Configs : made'[RootfsVars(c)].exists => RootfsVars(c) = t
        BY <1>1, <1>4, <4>1, RootfsGoal DEF Finish, NoTarget, Targets
      <4>3. made[Rootfs].exists => Own(Rootfs, make.config) \notin made[Rootfs].settings
        BY <1>1, <2>1, <2>2, <4>1, RootfsGoal DEF RootfsKept
      <4>4. \A c \in Configs : RootfsVars(c) = t => Own(Rootfs, c) = Own(Rootfs, make.config)
        BY <1>1, <4>1, RootfsSetting
      <4>5. RootfsVars(make.config) \in done'
        BY <1>4, <4>1 DEF Finish
      <4>. QED  BY <2>2, <2>3, <2>4, <3>1, <4>2, <4>3, <4>4, <4>5 DEF RootfsKept
    <3>3. CASE \A d \in Configs : t # RootfsVars(d)
      <4>1. \A c \in Configs : made'[RootfsVars(c)] = made[RootfsVars(c)]
        <5>1. t \in Stamps => \A c \in Configs : RootfsVars(c) \notin SiblingTable[t]
          BY <1>1, <2>1, <3>3, GoalsOf, GoalKinds, SiblingsOf DEF Siblings
        <5>. QED  BY <1>1, <1>4, <3>3, <5>1, RootfsGoal DEF Finish, Targets
      <4>2. \A c \in Configs : RootfsVars(c) \in newer'[Rootfs] => RootfsVars(c) \in newer[Rootfs]
        BY <3>1, <3>3
      <4>3. RootfsVars(make.config) \notin done' => RootfsVars(make.config) \notin done
        BY <1>4 DEF Finish
      <4>. QED  BY <2>2, <2>3, <2>4, <3>1, <4>1, <4>2, <4>3 DEF RootfsKept
    <3>. QED  BY <3>2, <3>3
  <2>. QED  BY <2>5, <2>6
<1>5. ASSUME Keep PROVE RootfsKept'
  BY <1>5 DEF RootfsKept, Keep
<1>6. ASSUME Exit PROVE RootfsKept'
  <2>1. /\ mishaps = 0 /\ make.state = "building" /\ done = GoalTable[make.config]
        /\ make' = [make EXCEPT !.state = "idle", !.exit = "ok"]
    BY <1>6 DEF RootfsKept, Exit
  <2>2. make'.state = "idle" /\ make'.config = make.config
    BY <1>1, <2>1 DEF Types
  <2>3. RootfsVars(make.config) \in done /\ Rootfs \in done
    BY <1>1, <2>1, GoalsOf
  <2>4. made[RootfsVars(make.config)].exists /\ made[Rootfs].settings = Expected(Rootfs, make.config)
    BY <1>1, <2>1, <2>3 DEF DoneGood, Good, RootfsKept
  <2>5. \A c \in Configs : Own(Rootfs, c) \in made[Rootfs].settings => made[RootfsVars(c)].exists
    BY <1>1, <2>4, RootfsSetting
  <2>. QED  BY <1>6, <2>1, <2>2, <2>5 DEF RootfsKept, Exit
<1>7. ASSUME \/ \E t \in Targets : Fail(t)
             \/ Kill
             \/ \E f \in Edited : Edit(f)
      PROVE  FALSE
  <2>1. mishaps' = mishaps + 1 /\ mishaps \in Nat
    BY <1>1, <1>7 DEF Fail, Kill, Edit, Types
  <2>. QED  BY <2>1
<1>8. ASSUME Stop \/ UNCHANGED vars PROVE RootfsKept'
  BY <1>8 DEF RootfsKept, Stop, vars
<1>. QED  BY <1>2, <1>3, <1>4, <1>5, <1>6, <1>7, <1>8 DEF Next

LEMMA RootfsInvariance == Spec => [](IInv /\ RootfsKept)
<1>1. Init => RootfsKept
  <2>. SUFFICES ASSUME Init PROVE RootfsKept
    OBVIOUS
  <2>1. Types
    BY InitInvariant DEF IInv
  <2>2. Rootfs \in Targets
    BY <2>1, RootfsGoal
  <2>3. made[Rootfs] = NoTarget /\ newer[Rootfs] = {}
    BY <2>2 DEF Init
  <2>4. ~made[Rootfs].exists /\ ~made[Rootfs].tainted
    BY <2>3 DEF NoTarget
  <2>5. make.state = "idle" /\ \A t \in Targets : missed[t] = {}
    BY DEF Init
  <2>. QED  BY <2>2, <2>3, <2>4, <2>5 DEF RootfsKept
<1>. QED  BY <1>1, InitInvariant, StepInvariant, RootfsStep, PTL DEF Spec

\* Only a make for a platform writes its firmware; and where nothing was
\* disturbed, a rootfs that was built for the same harts is not built again for
\* the other platform (README.md:37-39).
THEOREM PlatformsAlwaysShareRootfs == Spec => PlatformsShareRootfs
<1>. DEFINE Firm(p) == File("firmware", <<p>>)
            Rest(r) == [r EXCEPT !.stale = {}]
<1>1. ASSUME IInv, RootfsKept, Next, NEW p \in {"nemu", "qemu"}, Firm(p) \in Targets,
             Rest(made'[Firm(p)]) # Rest(made[Firm(p)])
      PROVE  p = make.config.platform
  <2>1. Types /\ Scheduled /\ make.config \in Configs
    BY <1>1, ConfigGoals DEF IInv
  <2>2. Firm(p).kind = "firmware" /\ Firm(p) \notin Stamps /\ \A s \in Stamps : Firm(p) \notin SiblingTable[s]
    BY <1>1, KindsOf, SiblingsOf DEF File, StampKinds
  <2>3. Firm(p) \in Goals(make.config) => p = make.config.platform
    <3>1. Firm(p) \in Goals(make.config) => Firm(p) = Firmware(make.config)
      BY <2>1, <2>2, GoalsOf, GoalKinds
    <3>. QED  BY <3>1 DEF Firmware, File
  <2>4. made'[Firm(p)] # made[Firm(p)]
    BY <1>1
  <2>5. ASSUME NEW t \in Targets, Finish(t) PROVE Firm(p) \in Goals(make.config)
    BY <1>1, <2>1, <2>2, <2>4, <2>5, AtWork DEF Finish
  <2>6. ASSUME NEW lost \in SUBSET Targets, Interrupted(lost), \A t \in lost : Working(t)
        PROVE  Firm(p) \in Goals(make.config)
    BY <1>1, <2>1, <2>2, <2>4, <2>6, AtWork, Left
  <2>7. ASSUME NEW t \in Targets, Fail(t) PROVE Firm(p) \in Goals(make.config)
    BY <2>6, <2>7 DEF Fail
  <2>8. ASSUME Kill PROVE Firm(p) \in Goals(make.config)
    BY <2>6, <2>8 DEF Kill
  <2>9. ASSUME NEW f \in Edited, Edit(f) PROVE FALSE
    <3>1. made'[Firm(p)] = [made[Firm(p)] EXCEPT !.stale = @ \cup ({f} \cap made[Firm(p)].sources)]
      BY <1>1, <2>9 DEF Edit
    <3>2. made[Firm(p)] \in Contents
      BY <1>1, <2>1 DEF Types
    <3>. QED  BY <1>1, <3>1, <3>2 DEF Contents
  <2>. QED
    BY <1>1, <2>3, <2>4, <2>5, <2>7, <2>8, <2>9 DEF Next, Start, Begin, Keep, Exit, Stop, vars
<1>2. ASSUME IInv, RootfsKept, Next, Rootfs \in running' \ running, made[Rootfs].exists, mishaps = 0
      PROVE  <<"rootfs", Setting(Rootfs, make.config)>> \notin made[Rootfs].settings
  <2>1. Types /\ Scheduled /\ DoneGood /\ make.config \in Configs
    BY <1>2, ConfigGoals DEF IInv
  <2>2. Begin(Rootfs)
    BY <1>2 DEF Next, Start, Begin, Finish, Fail, Keep, Kill, Exit, Edit, Stop, vars
  <2>3. newer[Rootfs] \cap Prereqs(Rootfs, make.config) # {} /\ RootfsVars(make.config) \in done
    BY <1>2, <2>1, <2>2, RootfsGoal, TablesOf, InputsOf DEF Begin, Ready, OutOfDate
  <2>4. RootfsVars(make.config) \in newer[Rootfs]
    <3>1. Workload \in Sources
      BY DEF Sources
    <3>. QED  BY <1>2, <2>1, <2>3, <3>1, PrereqsOf DEF RootfsKept
  <2>5. made[RootfsVars(make.config)].exists
    BY <2>1, <2>3 DEF DoneGood, Good
  <2>6. Own(Rootfs, make.config) \notin made[Rootfs].settings
    BY <1>2, <2>1, <2>4, <2>5 DEF RootfsKept
  <2>. QED  BY <2>1, <2>6, RootfsGoal DEF Own
<1>3. ASSUME IInv /\ RootfsKept /\ [Next]_vars
      PROVE  [/\ \A p \in {"nemu", "qemu"} :
                   LET t == File("firmware", <<p>>)
                   IN  t \in Targets /\ [made'[t] EXCEPT !.stale = {}] # [made[t] EXCEPT !.stale = {}] =>
                           p = make.config.platform
              /\ Rootfs \in running' \ running /\ made[Rootfs].exists /\ mishaps = 0 =>
                   <<"rootfs", Setting(Rootfs, make.config)>> \notin made[Rootfs].settings]_vars
  BY <1>1, <1>2, <1>3
<1>. QED  BY <1>3, RootfsInvariance, PTL DEF Spec, PlatformsShareRootfs

================================================================================
