------------------------------- MODULE MakeBuild -------------------------------
(***************************************************************************)
(* The rules of the Makefile for one generic Linux workload: successive    *)
(* invocations of make -jN, each with a configuration of its own, over one *)
(* build tree.  The configuration reaches the files through the names of   *)
(* stamp files.  In between, or meanwhile, sources are edited, recipes     *)
(* fail and make is killed.                                                *)
(*                                                                         *)
(* A file is a kind and a key.  Modification times are kept as the set of  *)
(* prerequisites written since a target was.  Of a target's content the    *)
(* model keeps the configuration it and its prerequisites were built for,  *)
(* the sources it was built from, and which of those have changed since.   *)
(***************************************************************************)
EXTENDS Naturals, FiniteSets

CONSTANTS Configs,     \* the command lines: multihart, platform, harts, dtb
          Edited,      \* the sources that may be edited
          MaxMakes,    \* bound on the invocations
          MaxMishaps   \* bound on the edits, failures and kills together

File(kind, key) == [kind |-> kind, key |-> key]

\* Lines 8-35.
ConfigAccepted(c) ==
    /\ c.platform \in {"nemu", "qemu"}
    /\ c.multihart => c.platform = "qemu" /\ c.harts # "1" /\ c.dtb # ""

ASSUME ConfigsAssumption ==
    /\ Configs \subseteq [multihart : BOOLEAN, platform : {"nemu", "qemu"},
                          harts : STRING, dtb : STRING]
    /\ \A c \in Configs : ConfigAccepted(c)
    /\ Configs # {}
ASSUME BoundsAssumption == MaxMakes \in Nat /\ MaxMishaps \in Nat

-----------------------------------------------------------------------------
(* The files *)

Variant(c) == IF c.multihart THEN "multihart" ELSE "single"
Harts(c) == IF c.multihart THEN c.harts ELSE "1"

Dts(d) == File("dts", <<d>>)
GcptSources(c) == File("gcptSources", <<Variant(c)>>)
Workload == File("workload", <<>>)
LinuxImage == File("linuxImage", <<>>)
OpenSbi == File("openSbi", <<>>)       \* bootloader/opensbi and opensbi.patch

\* The serial port and the mode are the same for every multi-hart build.
GcptConfigStamp(c) ==
    File("gcptStamp", IF c.multihart THEN <<"multihart">> ELSE <<"single", c.dtb>>)
GcptBin(c) == File("gcptBin", <<Variant(c)>>)

SbiConfigStamp(c) ==
    File("sbiStamp", IF c.multihart THEN <<"multihart">> ELSE <<"single", c.dtb>>)
SbiBin(c) == File("sbiBin", <<Variant(c)>>)

\* Mutant: the platform becomes part of the rootfs variables.
RootfsVarsWithPlatform(c) == File("rootfsStamp", <<Variant(c), Harts(c), c.platform>>)

RootfsVars(c) == File("rootfsStamp", <<Variant(c), Harts(c)>>)
Rootfs == File("rootfs", <<>>)
FirmwareVars(c) == File("firmwareStamp", <<Variant(c), Harts(c), c.dtb>>)

Firmware(c) == File("firmware", <<c.platform>>)

AllDts == {Dts(c.dtb) : c \in Configs}
Sources == AllDts \cup {GcptSources(c) : c \in Configs} \cup {Workload, LinuxImage, OpenSbi}
Stamps == UNION {{GcptConfigStamp(c), SbiConfigStamp(c), RootfsVars(c), FirmwareVars(c)}
                 : c \in Configs}
Targets == Stamps \cup UNION {{GcptBin(c), SbiBin(c), Rootfs, Firmware(c)} : c \in Configs}

ASSUME EditedAssumption == Edited \subseteq Sources

\* What one invocation may build.
Goals(c) == {GcptConfigStamp(c), SbiConfigStamp(c), RootfsVars(c), FirmwareVars(c),
             GcptBin(c), SbiBin(c), Rootfs, Firmware(c)}

Prereqs(t, c) ==
    CASE t.kind = "gcptBin" ->
           {GcptSources(c), GcptConfigStamp(c)} \cup
           (IF c.multihart THEN {SbiBin(c)} ELSE {Dts(c.dtb)})
      [] t.kind = "sbiBin" ->
           {SbiConfigStamp(c)} \cup (IF c.multihart THEN {} ELSE {Dts(c.dtb)})
      [] t.kind = "rootfs" -> {Workload, RootfsVars(c)}
      [] t.kind = "firmware" ->
           AllDts \cup {GcptBin(c), SbiBin(c), Rootfs, LinuxImage, FirmwareVars(c)}
      [] OTHER -> {}

\* The OpenSBI script reads sources that are no prerequisites, lines 29 and 34.
Reads(t, c) == Prereqs(t, c) \cup (IF t.kind = "sbiBin" THEN {OpenSbi} ELSE {})

\* Mutant: the workload's stamps are removed together, rm -f *-vars.*.stamp.
SiblingsAllVars(s) ==
    {r \in Stamps : IF s.kind \in {"gcptStamp", "sbiStamp"}
                    THEN r.kind = s.kind /\ r.key[1] = s.key[1]
                    ELSE r.kind \in {"rootfsStamp", "firmwareStamp"}}

\* The stamps that the recipe of stamp s removes.
Siblings(s) == {r \in Stamps : /\ r.kind = s.kind
                               /\ s.kind \in {"gcptStamp", "sbiStamp"} => r.key[1] = s.key[1]}

\* Tables of the above.
GoalTable == [c \in Configs |-> Goals(c)]
PrereqTable == [c \in Configs |-> [t \in Targets |-> Prereqs(t, c)]]
InputTable == [c \in Configs |-> [t \in Targets |-> Prereqs(t, c) \cap Targets]]
ReadTable == [c \in Configs |-> [t \in Targets |-> Reads(t, c) \cap Sources]]
EverPrereqs == [t \in Targets |-> UNION {Prereqs(t, c) : c \in Configs}]
SiblingTable == [s \in Stamps |-> Siblings(s)]

\* What the recipe of t takes from the command line.
Setting(t, c) ==
    CASE t.kind \in {"gcptBin", "sbiBin"} ->
           IF c.multihart THEN <<Variant(c)>> ELSE <<Variant(c), c.dtb>>
      [] t.kind = "rootfs" -> <<Variant(c), Harts(c)>>
      [] t.kind = "firmware" -> <<Variant(c), Harts(c), c.dtb>>
      [] OTHER -> <<>>

-----------------------------------------------------------------------------
VARIABLES
    make,      \* the invocation: its state, its configuration, how the last ended
    done,      \* the targets it has brought up to date
    running,   \* the targets whose recipe is running
    missed,    \* for these, the prerequisites edited meanwhile
    made,      \* target -> what it was made of, NoTarget when there is no file
    newer,     \* target -> the files written since it was
    quiet,     \* no source was edited since the invocation started
    makes,     \* invocations so far
    mishaps    \* edits, failed recipes and kills so far

vars == <<make, done, running, missed, made, newer, quiet, makes, mishaps>>

NoTarget == [exists |-> FALSE, settings |-> {}, sources |-> {}, stale |-> {}, tainted |-> FALSE]

\* The build tree starts clean.
Init ==
    /\ make = [state |-> "idle", config |-> CHOOSE c \in Configs : TRUE, exit |-> "none"]
    /\ done = {} /\ running = {}
    /\ missed = [t \in Targets |-> {}]
    /\ made = [t \in Targets |-> NoTarget]
    /\ newer = [t \in Targets |-> {}]
    /\ quiet = TRUE
    /\ makes = 0 /\ mishaps = 0

Start(c) ==
    /\ make.state = "idle"
    /\ makes < MaxMakes
    /\ make' = [state |-> "building", config |-> c, exit |-> "none"]
    /\ done' = {}
    /\ quiet' = TRUE
    /\ makes' = makes + 1
    /\ UNCHANGED <<running, missed, made, newer, mishaps>>

OutOfDate(t) ==
    ~made[t].exists \/ newer[t] \cap PrereqTable[make.config][t] # {}

Ready(t) ==
    /\ make.state = "building"
    /\ t \in GoalTable[make.config] \ (done \cup running)
    /\ InputTable[make.config][t] \subseteq done

\* make goes through the graph as far as it can while recipes run.
Keep ==
    /\ LET upToDate == {t \in Targets : Ready(t) /\ ~OutOfDate(t)}
       IN  upToDate # {} /\ done' = done \cup upToDate
    /\ UNCHANGED <<make, running, missed, made, newer, quiet, makes, mishaps>>

\* The three commands of a stamp are one step, unless they are cut short.
Begin(t) ==
    /\ t \notin Stamps
    /\ Ready(t)
    /\ OutOfDate(t)
    /\ running' = running \cup {t}
    /\ UNCHANGED <<make, done, missed, made, newer, quiet, makes, mishaps>>

Working(t) == t \in running \/ (t \in Stamps /\ Ready(t) /\ OutOfDate(t))

\* What the recipe of t makes of its prerequisites as they are.
Product(t) ==
    LET c == make.config
        inputs == InputTable[c][t]
        direct == ReadTable[c][t]
    IN  [exists   |-> TRUE,
         settings |-> {<<t.kind, Setting(t, c)>>} \cup UNION {made[p].settings : p \in inputs},
         sources  |-> direct \cup UNION {made[p].sources : p \in inputs},
         stale    |-> missed[t] \cup UNION {made[p].stale : p \in inputs},
         tainted  |-> missed[t] # {} \/ \E p \in inputs : made[p].tainted]

\* newer, after file f was written.
WrittenAfter(f) ==
    [t \in Targets |-> IF t = f THEN {} ELSE newer[t] \cup ({f} \cap EverPrereqs[t])]

\* Mutant: the other stamps are left in place.
FinishKeepingSiblings(t) ==
    /\ Working(t)
    /\ running' = running \ {t}
    /\ done' = done \cup {t}
    /\ missed' = [missed EXCEPT ![t] = {}]
    /\ made' = [made EXCEPT ![t] = Product(t)]
    /\ newer' = WrittenAfter(t)
    /\ UNCHANGED <<make, quiet, makes, mishaps>>

Finish(t) ==
    /\ Working(t)
    /\ running' = running \ {t}
    /\ done' = done \cup {t}
    /\ missed' = [missed EXCEPT ![t] = {}]
    /\ made' = [r \in Targets |-> IF r = t THEN Product(t)
                                  ELSE IF t \in Stamps /\ r \in SiblingTable[t] THEN NoTarget
                                  ELSE made[r]]
    /\ newer' = WrittenAfter(t)
    /\ UNCHANGED <<make, quiet, makes, mishaps>>

\* What recipes that stop half-way leave.  cpio and dd have a part of the
\* file written, as new as a whole one; the GCPT and OpenSBI scripts begin
\* with rm -rf, and the stamps with rm -f.
Interrupted(lost) ==
    /\ made' = [t \in Targets |->
                  IF t \in lost /\ t.kind \in {"rootfs", "firmware"}
                  THEN [made[t] EXCEPT !.exists = TRUE, !.tainted = TRUE]
                  ELSE IF t \in lost \/ \E s \in lost \cap Stamps : t \in SiblingTable[s]
                  THEN NoTarget
                  ELSE made[t]]
    /\ newer' = [t \in Targets |->
                  IF t \in lost THEN {}
                  ELSE newer[t] \cup (lost \cap EverPrereqs[t] \cap {Rootfs})]

\* A recipe fails; make waits for the others and starts none.
Fail(t) ==
    /\ Working(t)
    /\ mishaps < MaxMishaps
    /\ mishaps' = mishaps + 1
    /\ running' = running \ {t}
    /\ make' = [make EXCEPT !.state = "failing"]
    /\ missed' = [missed EXCEPT ![t] = {}]
    /\ \E lost \in SUBSET {t} : Interrupted(lost)
    /\ UNCHANGED <<done, quiet, makes>>

\* SIGKILL, or the machine goes down.
Kill ==
    /\ make.state # "idle"
    /\ mishaps < MaxMishaps
    /\ mishaps' = mishaps + 1
    /\ make' = [make EXCEPT !.state = "idle", !.exit = "killed"]
    /\ done' = {} /\ running' = {}
    /\ missed' = [t \in Targets |-> {}]
    /\ \E lost \in SUBSET {t \in Targets : Working(t)} : Interrupted(lost)
    /\ UNCHANGED <<quiet, makes>>

Exit ==
    /\ running = {}
    /\ \/ /\ make.state = "building"
          /\ done = GoalTable[make.config]
          /\ make' = [make EXCEPT !.state = "idle", !.exit = "ok"]
       \/ /\ make.state = "failing"
          /\ make' = [make EXCEPT !.state = "idle", !.exit = "failed"]
    /\ done' = {}
    /\ UNCHANGED <<running, missed, made, newer, quiet, makes, mishaps>>

Edit(f) ==
    /\ mishaps < MaxMishaps
    /\ mishaps' = mishaps + 1
    /\ newer' = WrittenAfter(f)
    /\ made' = [t \in Targets |-> [made[t] EXCEPT !.stale = @ \cup ({f} \cap made[t].sources)]]
    /\ missed' = [t \in Targets |->
                    IF t \in running /\ f \in ReadTable[make.config][t]
                    THEN missed[t] \cup {f} ELSE missed[t]]
    /\ quiet' = FALSE
    /\ UNCHANGED <<make, done, running, makes>>

Stop == make.state = "idle" /\ makes = MaxMakes /\ UNCHANGED vars

Next ==
    \/ \E c \in Configs : Start(c)
    \/ \E t \in Targets : Begin(t) \/ Finish(t) \/ Fail(t)
    \/ Keep
    \/ Kill
    \/ Exit
    \/ \E f \in Edited : Edit(f)
    \/ Stop

Spec == Init /\ [][Next]_vars

-----------------------------------------------------------------------------
(* Properties *)

\* What a build from scratch would have used.
Settings(c) == {<<t.kind, Setting(t, c)>> : t \in Goals(c)}

\* When make says it is done, and nobody edited a source meanwhile, the
\* firmware is the one a build from scratch would give: it and everything
\* in it was built for this command line, whatever was built before, and no
\* source changed since, but for OpenSBI's, which no rule names.  Except
\* when a recipe was torn or ran while its source was being edited: the file
\* it leaves looks up to date.
FirmwareIsCurrent ==
    LET product == made[Firmware(make.config)]
    IN  make.exit = "ok" /\ quiet /\ ~product.tainted =>
            /\ product.exists
            /\ product.settings = Settings(make.config)
            /\ product.stale \subseteq {OpenSbi}

\* A second make with the same command line has nothing to do: the order in
\* which parallel recipes end never leaves a target older than its
\* prerequisites.
SecondMakeIsIdle ==
    make.exit = "ok" /\ quiet => \A t \in GoalTable[make.config] : ~OutOfDate(t)

\* README.md:37-39: building for one platform leaves the firmware of the
\* other alone.  Unless a source changed or something was interrupted, it
\* does not rebuild the rootfs either, if that was built for as many harts.
PlatformsShareRootfs ==
    [][/\ \A p \in {"nemu", "qemu"} :
            LET t == File("firmware", <<p>>)
            IN  t \in Targets /\ [made'[t] EXCEPT !.stale = {}] # [made[t] EXCEPT !.stale = {}] =>
                    p = make.config.platform
       /\ Rootfs \in running' \ running /\ made[Rootfs].exists /\ mishaps = 0 =>
            <<"rootfs", Setting(Rootfs, make.config)>> \notin made[Rootfs].settings]_vars

=============================================================================
