---------------------------- MODULE BenchBuildProofs ----------------------------
(***************************************************************************)
(* Proofs about BenchBuild, for any cases, any keys and any bounds.        *)
(***************************************************************************)
EXTENDS BenchBuild, TLAPS

\* The steps at which a case changes the directory.
Working == {"clearConfig", "config", "state", "runcpu", "installing", "select", "meta"}
Exporting == {"export", "exported", "done", "packaged"}
Steps == Over \cup Building \cup {"check", "export", "exported"}

Types ==
    /\ resumes \in Resuming /\ resumes \in BOOLEAN
    /\ running \in BOOLEAN /\ key \in Keys
    /\ pc \in [Cases -> Steps]
    /\ exe \in Elf \cup {Nothing}
    /\ cfg \in Json /\ meta \in Json /\ state \in Json
    /\ elf \in [Cases -> Elf \cup {Nothing}]
    /\ runs \in [Cases -> RunDir \cup {Nothing}] /\ newest \in Cases \cup {Nothing}
    /\ package \in [Cases -> RunDir \cup {Nothing}]
    /\ how \in [Cases -> {"none", "built", "reused", "resumed", "recovered"}]
    /\ joined \subseteq Cases
    /\ cut \subseteq {"shared", "installing", "metadata", "foreign"}
    /\ makes \in 0..MaxMakes /\ mishaps \in 0..MaxMishaps

\* Where each way leads; and in spec2026 no case meets another.
Ways ==
    /\ \A p \in Cases :
        /\ pc[p] \in {"clear", "clearConfig"} => how[p] = "built"
        /\ pc[p] \in Working \ {"meta"} => how[p] \in {"built", "resumed"}
        /\ pc[p] = "meta" => how[p] \in {"built", "resumed", "recovered"}
        /\ pc[p] = "state" => resumes
        /\ how[p] \in {"resumed", "recovered"} => resumes
        /\ ~running => pc[p] \in Over
    /\ resumes =>
        /\ joined = {} /\ "shared" \notin cut
        /\ \A p, q \in Cases : p # q => pc[p] \in Over \/ pc[q] \in Over

\* A case that was not joined, or is in a directory that was not shared, works
\* there alone; and what it finds is not about to be cleared.
Alone ==
    \A p \in Cases :
        /\ pc[p] \in Working =>
             /\ p \notin joined => "shared" \notin cut
             /\ "shared" \notin cut => \A q \in Cases \ {p} : pc[q] \in Over
        /\ pc[p] = "check" /\ p \notin joined =>
             \A q \in Cases : pc[q] \notin Working /\ (pc[q] = "clear" => ~Reusable)

\* How far a build has got.
BuiltSoFar ==
    "shared" \notin cut => \A p \in Cases :
        /\ pc[p] \in Working /\ how[p] = "built" =>
             /\ cut = {}
             /\ pc[p] \in {"clearConfig", "config", "state", "runcpu"} => exe = Nothing
             /\ pc[p] = "config" => cfg = Nothing
             /\ pc[p] \notin {"clearConfig", "config"} => cfg = key
        /\ pc[p] \in Working /\ how[p] = "resumed" /\ "foreign" \notin cut =>
             cfg = key \/ (pc[p] = "config" /\ cfg = Nothing)
        /\ pc[p] = "runcpu" /\ resumes => state = key
        /\ pc[p] \in {"installing", "select", "meta"} => exe # Nothing
        /\ pc[p] \in {"select", "meta"} /\ how[p] # "recovered" => exe.whole
        /\ pc[p] = "meta" /\ how[p] = "recovered" => state = key

\* What the files of the directory say of the executable.
ConfigSound == exe # Nothing /\ "shared" \notin cut => cfg = exe.of

StateSound == resumes /\ exe # Nothing /\ state \in Keys /\ "foreign" \notin cut => state = cfg

WholeSound ==
    exe # Nothing /\ cut \cap {"shared", "installing"} = {} /\ ~Someone({"installing"}) => exe.whole

MetaSound ==
    exe # Nothing /\ meta \in Keys /\ cut = {} /\ ~Someone({"installing", "select", "meta"})
      => exe.of = meta

\* What a case that was not joined exports stays as it is until make ends.
Settled ==
    \A p \in Cases : pc[p] \in Exporting /\ p \notin joined => Reusable /\ ~Someone(Building)

Trusted(p) ==
    \/ how[p] = "built"
    \/ how[p] = "reused" /\ cut = {}
    \/ /\ "foreign" \notin cut
       /\ how[p] = "resumed" \/ (how[p] = "recovered" /\ "installing" \notin cut)

RightSoFar ==
    \A p \in Cases : pc[p] \in Exporting /\ p \notin joined /\ Trusted(p) =>
        /\ exe = [of |-> key, whole |-> TRUE]
        /\ Has(p) => Right(p)

\* There is a newest directory when there is one at all.
NewestThere == \A p \in Cases : runs[p] # Nothing => newest # Nothing /\ runs[newest] # Nothing

PackagedSoFar ==
    \A p \in Cases : p \notin joined /\ pc[p] \in {"exported", "packaged"} /\ elf[p].whole =>
        /\ pc[p] = "exported" => exe = elf[p]
        /\ pc[p] = "packaged" =>
             \/ package[p].input = p /\ package[p].elf = elf[p]
             \/ runs[p] # Nothing /\ ~runs[p].touched

IInv ==
    /\ Types
    /\ Ways
    /\ Alone
    /\ BuiltSoFar
    /\ ConfigSound
    /\ StateSound
    /\ WholeSound
    /\ MetaSound
    /\ Settled
    /\ RightSoFar
    /\ NewestThere
    /\ PackagedSoFar

-----------------------------------------------------------------------------
(* The operators *)

\* An executable is there, and of a configuration that was there.
LEMMA ElfIsThere ==
    ASSUME NEW e \in Elf
    PROVE  /\ e # Nothing /\ e.of \in Keys \cup {Torn} /\ e.of # Nothing /\ e.whole \in BOOLEAN
           /\ e = [of |-> e.of, whole |-> e.whole]
  BY NamesAssumption DEF Elf

\* An executable of a configuration that is there.
LEMMA ElfOf ==
    ASSUME NEW c \in Json, c # Nothing, NEW w \in BOOLEAN
    PROVE  /\ [of |-> c, whole |-> w] \in Elf
           /\ [of |-> c, whole |-> w].of = c /\ [of |-> c, whole |-> w].whole = w
  BY DEF Json, Elf

\* Completing the configuration changes nothing where there is an executable.
LEMMA ConfigKept ==
    ASSUME Types, Ways, ConfigSound, exe # Nothing, Completed
    PROVE  cfg' = cfg
<1>1. CASE resumes
  <2>1. exe \in Elf /\ cfg = exe.of
    BY <1>1 DEF Types, Ways, ConfigSound
  <2>. QED  BY <2>1, ElfIsThere DEF Completed
<1>2. CASE ~resumes
  BY <1>2 DEF Completed
<1>. QED  BY <1>1, <1>2

\* When runcpu has copied the executable, it is whole.
LEMMA InstalledElf ==
    ASSUME Types, NEW p \in Cases, Installed(p), exe # Nothing
    PROVE  exe' \in Elf /\ exe' # Nothing /\ exe'.of = exe.of /\ exe'.whole
<1>1. exe \in Elf /\ exe' = [exe EXCEPT !.whole = TRUE]
  BY DEF Types, Installed
<1>2. exe' \in Elf /\ exe'.of = exe.of /\ exe'.whole
  BY <1>1 DEF Elf
<1>. QED  BY <1>2, ElfIsThere

\* While it copies it, the executable is torn.
LEMMA InstallElf ==
    ASSUME Types, NEW p \in Cases, Install(p)
    PROVE  exe' \in Elf /\ exe' # Nothing /\ exe'.of = cfg /\ ~exe'.whole
<1>1. cfg \in Json /\ cfg # Nothing /\ exe' = [of |-> cfg, whole |-> FALSE]
  BY DEF Types, Install
<1>2. exe' \in Elf /\ exe'.of = cfg /\ exe'.whole = FALSE
  BY <1>1, ElfOf
<1>. QED  BY <1>2, ElfIsThere

\* runcpu runsetup builds only an executable that is torn again.
LEMMA SetupElf ==
    ASSUME Types, NEW p \in Cases, Setup(p)
    PROVE  /\ exe \in Elf /\ exe' \in Elf /\ exe # Nothing /\ exe' # Nothing
           /\ exe' = exe \/ (~exe.whole /\ exe'.of = cfg /\ exe'.whole)
<1>1. exe \in Elf /\ exe # Nothing /\ cfg \in Json
  BY DEF Types, Setup
<1>2. CASE exe' = exe
  BY <1>1, <1>2
<1>3. CASE exe' # exe
  <2>1. ~exe.whole /\ cfg # Nothing /\ exe' = [of |-> cfg, whole |-> TRUE]
    BY <1>3 DEF Setup
  <2>2. exe' \in Elf /\ exe'.of = cfg /\ exe'.whole = TRUE
    BY <1>1, <2>1, ElfOf
  <2>. QED  BY <1>1, <2>1, <2>2, ElfIsThere
<1>. QED  BY <1>2, <1>3

\* The fields of a run directory.
LEMMA DirIsThere ==
    ASSUME NEW p \in Cases, NEW e \in Elf, NEW t \in BOOLEAN
    PROVE  /\ Dir(p, e, t) \in RunDir /\ Dir(p, e, t) # Nothing
           /\ Dir(p, e, t).input = p /\ Dir(p, e, t).elf = e /\ Dir(p, e, t).touched = t
  BY NamesAssumption DEF Dir, RunDir

\* The run directory of p is the newest then, or it was not touched.
LEMMA Prepared ==
    ASSUME Types, NewestThere, NEW p \in Cases, NEW e \in Elf, Prepare(p, e)
    PROVE  /\ runs' \in [Cases -> RunDir \cup {Nothing}]
           /\ newest' \in Cases /\ runs'[newest'] # Nothing
           /\ \A q \in Cases \ {p} : runs'[q] = runs[q]
           /\ runs'[p] # Nothing
           /\ \/ newest' = p /\ runs'[p].input = p /\ runs'[p].elf = e
              \/ ~runs'[p].touched
<1>1. CASE runs' = [runs EXCEPT ![p] = Dir(p, e, TRUE)] /\ newest' = p
  <2>1. Dir(p, e, TRUE) \in RunDir /\ Dir(p, e, TRUE) # Nothing
        /\ Dir(p, e, TRUE).input = p /\ Dir(p, e, TRUE).elf = e
    BY DirIsThere
  <2>. QED  BY <1>1, <2>1 DEF Types
<1>2. CASE runs[p] # Nothing /\ runs' = [runs EXCEPT ![p] = Dir(p, e, FALSE)] /\ newest' = newest
  <2>1. Dir(p, e, FALSE) \in RunDir /\ Dir(p, e, FALSE) # Nothing /\ Dir(p, e, FALSE).touched = FALSE
    BY DirIsThere
  <2>2. newest \in Cases /\ runs[newest] # Nothing
    BY <1>2 DEF Types, NewestThere
  <2>. QED  BY <1>2, <2>1, <2>2 DEF Types
<1>. QED  BY <1>1, <1>2 DEF Prepare

-----------------------------------------------------------------------------
(* One lemma per part: every step preserves it *)

\* Every step preserves the types.
LEMMA TypesStep ==
    ASSUME Types, NewestThere, [Next]_vars
    PROVE  Types'
<1>. USE NamesAssumption, BoundsAssumption
<1>1. ASSUME NEW k \in Keys, Start(k) PROVE Types'
  BY <1>1 DEF json, dirs, results, Types, Steps, Json, Elf, RunDir, Over, Building, Start
<1>2. ASSUME NEW p \in Cases, Begin(p) PROVE Types'
  BY <1>2 DEF json, dirs, results, counters, history, Types, Steps, Json, Elf, RunDir, Over,
       Building, Begin, At, Goto, Others
<1>3. ASSUME NEW p \in Cases, Reuse(p) PROVE Types'
  BY <1>3 DEF json, dirs, results, counters, Types, Steps, Json, Elf, RunDir, Over, Building,
       Reuse, At, Chosen, Completed, Goto, Reusable
<1>4. ASSUME NEW p \in Cases, Recover(p) PROVE Types'
  BY <1>4 DEF json, dirs, results, counters, Types, Steps, Json, Elf, RunDir, Over, Building,
       Recover, At, Chosen, Completed, Goto, Recoverable
<1>5. ASSUME NEW p \in Cases, Resume(p) PROVE Types'
  BY <1>5 DEF json, dirs, results, counters, Types, Steps, Json, Elf, RunDir, Over, Building,
       Resume, At, Chosen, Goto, Resumable
<1>6. ASSUME NEW p \in Cases, Rebuild(p) PROVE Types'
  BY <1>6 DEF json, dirs, results, counters, Types, Steps, Json, Elf, RunDir, Over, Building,
       Rebuild, At, Chosen, Goto
<1>7. ASSUME NEW p \in Cases, ClearOutput(p) PROVE Types'
  BY <1>7 DEF json, counters, Types, Steps, Json, Elf, RunDir, Over, Building, ClearOutput, At,
       Goto, Others
<1>8. ASSUME NEW p \in Cases, ClearConfig(p) PROVE Types'
  BY <1>8 DEF json, dirs, results, counters, history, Types, Steps, Json, Elf, RunDir, Over,
       Building, ClearConfig, At, Goto
<1>9. ASSUME NEW p \in Cases, WriteConfig(p) PROVE Types'
  BY <1>9 DEF json, dirs, results, counters, history, Types, Steps, Json, Elf, RunDir, Over,
       Building, WriteConfig, At, Goto
<1>10. ASSUME NEW p \in Cases, WriteState(p) PROVE Types'
  BY <1>10 DEF dirs, results, counters, history, Types, Steps, Json, Elf, RunDir, Over, Building,
       WriteState, At, Goto
<1>11. ASSUME NEW p \in Cases, Install(p) PROVE Types'
  BY <1>11 DEF json, dirs, results, counters, history, Types, Steps, Json, Elf, RunDir, Over,
       Building, Install, At, Goto
<1>12. ASSUME NEW p \in Cases, Installed(p) PROVE Types'
  BY <1>12 DEF json, dirs, results, counters, history, Types, Steps, Json, Elf, RunDir, Over,
       Building, Installed, At, Goto
<1>13. ASSUME NEW p \in Cases, FailRuncpu(p) PROVE Types'
  BY <1>13 DEF json, dirs, results, Types, Steps, Json, Elf, RunDir, Over, Building, FailRuncpu,
       At, Fail, Mishap, Goto
<1>14. ASSUME NEW p \in Cases, FailMissing(p) PROVE Types'
  BY <1>14 DEF json, dirs, results, Types, Steps, Json, Elf, RunDir, Over, Building, FailMissing,
       At, Fail, Goto
<1>15. ASSUME NEW p \in Cases, Select(p) PROVE Types'
  BY <1>15 DEF json, dirs, results, counters, history, Types, Steps, Json, Elf, RunDir, Over,
       Building, Select, At, Goto
<1>16. ASSUME NEW p \in Cases, WriteMeta(p) PROVE Types'
  BY <1>16 DEF dirs, results, counters, Types, Steps, Json, Elf, RunDir, Over, Building, WriteMeta,
       At, Goto
<1>17. ASSUME NEW p \in Cases, Export(p) PROVE Types'
  BY <1>17 DEF json, dirs, counters, history, Types, Steps, Json, Elf, RunDir, Over, Building,
       Export, At, Goto
<1>18. ASSUME NEW p \in Cases, EndElf(p) PROVE Types'
  BY <1>18 DEF json, dirs, results, counters, history, Types, Steps, Json, Elf, RunDir, Over,
       Building, EndElf, At, Goto
<1>19. ASSUME NEW p \in Cases, Setup(p) PROVE Types'
  <2>1. exe \in Elf /\ exe' \in Elf
    BY <1>19, SetupElf
  <2>2. CASE resumes
    <3>1. /\ runs' \in [Cases -> RunDir \cup {Nothing}]
          /\ newest' \in Cases /\ runs'[newest'] # Nothing
      BY <1>19, <2>1, <2>2, Prepared DEF Setup
    <3>2. package' \in [Cases -> RunDir \cup {Nothing}]
      BY <1>19, <2>2, <3>1 DEF Setup, SelectRunDir, Types
    <3>. QED  BY <1>19, <2>1, <3>1, <3>2
          DEF Types, Steps, Over, Setup, Goto, json, history, counters
  <2>3. CASE ~resumes
    <3>1. Dir(p, exe', TRUE) \in RunDir
      BY <2>1, DirIsThere
    <3>2. package' \in [Cases -> RunDir \cup {Nothing}]
      BY <1>19, <2>3, <3>1 DEF Setup, SelectRunDir, Types
    <3>. QED  BY <1>19, <2>1, <2>3, <3>2
          DEF Types, Steps, Over, Setup, Goto, json, dirs, history, counters
  <2>. QED  BY <2>2, <2>3
<1>20. ASSUME NEW p \in Cases, FailSetup(p) PROVE Types'
  <2>1. runs' \in [Cases -> RunDir \cup {Nothing}] /\ newest' \in Cases \cup {Nothing}
    <3>1. CASE UNCHANGED dirs
      BY <3>1 DEF dirs, Types
    <3>2. CASE exe # Nothing /\ Prepare(p, exe)
      BY <3>2, Prepared DEF Types
    <3>. QED  BY <1>20, <3>1, <3>2 DEF FailSetup
  <2>2. package' \in [Cases -> RunDir \cup {Nothing}]
    BY <1>20 DEF FailSetup, Types
  <2>3. mishaps' \in 0..MaxMishaps
    BY <1>20 DEF FailSetup, Mishap, Types
  <2>. QED  BY <1>20, <2>1, <2>2, <2>3 DEF Types, Steps, Over, FailSetup, Fail, Goto, json
<1>21. ASSUME Finish PROVE Types'
  BY <1>21 DEF json, dirs, results, counters, history, Types, Steps, Json, Elf, RunDir, Over,
       Building, Finish
<1>22. ASSUME Kill PROVE Types'
  <2>1. mishaps' \in 0..MaxMishaps
    BY <1>22 DEF Kill, Mishap, Types
  <2>2. cfg' \in Json /\ meta' \in Json /\ state' \in Json
    BY <1>22 DEF Kill, Types, Json
  <2>3. cut' \subseteq {"shared", "installing", "metadata", "foreign"}
    BY <1>22 DEF Kill, Types
  <2>4. pc' \in [Cases -> Steps]
    BY <1>22 DEF Kill, Types, Steps, Over
  <2>5. running' \in BOOLEAN
    BY <1>22 DEF Kill
  <2>. QED  BY <1>22, <2>1, <2>2, <2>3, <2>4, <2>5 DEF Types, Kill, results, dirs
<1>23. ASSUME Stop \/ UNCHANGED vars PROVE Types'
  BY <1>23 DEF Types, Steps, Json, Elf, RunDir, Over, Building, Stop, vars
<1>. QED  BY <1>1, <1>2, <1>3, <1>4, <1>5, <1>6, <1>7, <1>8, <1>9, <1>10, <1>11, <1>12, <1>13,
      <1>14, <1>15, <1>16, <1>17, <1>18, <1>19, <1>20, <1>21, <1>22, <1>23 DEF Next

\* Every step preserves that there is a newest directory when there is one at all.
LEMMA NewestStep ==
    ASSUME Types, NewestThere, [Next]_vars
    PROVE  NewestThere'
<1>. USE NamesAssumption
<1>1. ASSUME NEW k \in Keys, Start(k) PROVE NewestThere'
  BY <1>1 DEF json, dirs, results, Types, NewestThere, Start
<1>2. ASSUME NEW p \in Cases, Begin(p) PROVE NewestThere'
  BY <1>2 DEF json, dirs, results, counters, history, Types, NewestThere, Begin, At, Goto, Others
<1>3. ASSUME NEW p \in Cases, Reuse(p) PROVE NewestThere'
  BY <1>3 DEF json, dirs, results, counters, Types, NewestThere, Reuse, At, Chosen, Completed,
       Goto, Reusable
<1>4. ASSUME NEW p \in Cases, Recover(p) PROVE NewestThere'
  BY <1>4 DEF json, dirs, results, counters, Types, NewestThere, Recover, At, Chosen, Completed,
       Goto, Recoverable
<1>5. ASSUME NEW p \in Cases, Resume(p) PROVE NewestThere'
  BY <1>5 DEF json, dirs, results, counters, Types, NewestThere, Resume, At, Chosen, Goto, Resumable
<1>6. ASSUME NEW p \in Cases, Rebuild(p) PROVE NewestThere'
  BY <1>6 DEF json, dirs, results, counters, Types, NewestThere, Rebuild, At, Chosen, Goto
<1>7. ASSUME NEW p \in Cases, ClearOutput(p) PROVE NewestThere'
  BY <1>7 DEF json, counters, Types, NewestThere, ClearOutput, At, Goto, Others
<1>8. ASSUME NEW p \in Cases, ClearConfig(p) PROVE NewestThere'
  BY <1>8 DEF json, dirs, results, counters, history, Types, NewestThere, ClearConfig, At, Goto
<1>9. ASSUME NEW p \in Cases, WriteConfig(p) PROVE NewestThere'
  BY <1>9 DEF json, dirs, results, counters, history, Types, NewestThere, WriteConfig, At, Goto
<1>10. ASSUME NEW p \in Cases, WriteState(p) PROVE NewestThere'
  BY <1>10 DEF dirs, results, counters, history, Types, NewestThere, WriteState, At, Goto
<1>11. ASSUME NEW p \in Cases, Install(p) PROVE NewestThere'
  BY <1>11 DEF json, dirs, results, counters, history, Types, NewestThere, Install, At, Goto
<1>12. ASSUME NEW p \in Cases, Installed(p) PROVE NewestThere'
  BY <1>12 DEF json, dirs, results, counters, history, Types, NewestThere, Installed, At, Goto
<1>13. ASSUME NEW p \in Cases, FailRuncpu(p) PROVE NewestThere'
  BY <1>13 DEF json, dirs, results, Types, NewestThere, FailRuncpu, At, Fail, Mishap, Goto
<1>14. ASSUME NEW p \in Cases, FailMissing(p) PROVE NewestThere'
  BY <1>14 DEF json, dirs, results, Types, NewestThere, FailMissing, At, Fail, Goto
<1>15. ASSUME NEW p \in Cases, Select(p) PROVE NewestThere'
  BY <1>15 DEF json, dirs, results, counters, history, Types, NewestThere, Select, At, Goto
<1>16. ASSUME NEW p \in Cases, WriteMeta(p) PROVE NewestThere'
  BY <1>16 DEF dirs, results, counters, Types, NewestThere, WriteMeta, At, Goto
<1>17. ASSUME NEW p \in Cases, Export(p) PROVE NewestThere'
  BY <1>17 DEF json, dirs, counters, history, Types, NewestThere, Export, At, Goto
<1>18. ASSUME NEW p \in Cases, EndElf(p) PROVE NewestThere'
  BY <1>18 DEF json, dirs, results, counters, history, Types, NewestThere, EndElf, At, Goto
<1>19. ASSUME NEW p \in Cases, Setup(p) PROVE NewestThere'
  <2>1. exe' \in Elf
    BY <1>19, SetupElf
  <2>2. CASE resumes
    BY <1>19, <2>1, <2>2, Prepared DEF Setup, NewestThere
  <2>3. CASE ~resumes
    BY <1>19, <2>3 DEF Setup, NewestThere, dirs
  <2>. QED  BY <2>2, <2>3
<1>20. ASSUME NEW p \in Cases, FailSetup(p) PROVE NewestThere'
  <2>1. CASE UNCHANGED dirs
    BY <2>1 DEF NewestThere, dirs
  <2>2. CASE exe # Nothing /\ Prepare(p, exe)
    <3>1. exe \in Elf
      BY <2>2 DEF Types
    <3>. QED  BY <2>2, <3>1, Prepared DEF NewestThere
  <2>. QED  BY <1>20, <2>1, <2>2 DEF FailSetup
<1>21. ASSUME Finish PROVE NewestThere'
  BY <1>21 DEF json, dirs, results, counters, history, Types, NewestThere, Finish
<1>22. ASSUME Kill PROVE NewestThere'
  BY <1>22 DEF dirs, results, Types, NewestThere, Kill, Mishap, Someone
<1>23. ASSUME Stop \/ UNCHANGED vars PROVE NewestThere'
  BY <1>23 DEF Types, NewestThere, Stop, vars
<1>. QED  BY <1>1, <1>2, <1>3, <1>4, <1>5, <1>6, <1>7, <1>8, <1>9, <1>10, <1>11, <1>12, <1>13,
      <1>14, <1>15, <1>16, <1>17, <1>18, <1>19, <1>20, <1>21, <1>22, <1>23 DEF Next

\* Every step preserves where each way leads, and that cases of spec2026 do not meet.
LEMMA WaysStep ==
    ASSUME Types, Ways, Alone, [Next]_vars
    PROVE  Ways'
<1>1. ASSUME NEW k \in Keys, Start(k) PROVE Ways'
  BY <1>1 DEF json, dirs, results, Types, Ways, Working, Steps, Someone, Over, Building, Start
<1>2. ASSUME NEW p \in Cases, Begin(p) PROVE Ways'
  BY <1>2 DEF json, dirs, results, counters, history, Types, Ways, Working, Steps, Someone, Over,
       Building, Begin, At, Goto, Others
<1>3. ASSUME NEW p \in Cases, Reuse(p) PROVE Ways'
  BY <1>3 DEF json, dirs, results, counters, Types, Ways, Working, Steps, Someone, Over, Building,
       Reuse, At, Chosen, Completed, Goto, Reusable
<1>4. ASSUME NEW p \in Cases, Recover(p) PROVE Ways'
  BY <1>4 DEF json, dirs, results, counters, Types, Ways, Working, Steps, Someone, Over, Building,
       Recover, At, Chosen, Completed, Goto, Recoverable
<1>5. ASSUME NEW p \in Cases, Resume(p) PROVE Ways'
  BY <1>5 DEF json, dirs, results, counters, Types, Ways, Working, Steps, Someone, Over, Building,
       Resume, At, Chosen, Goto, Resumable
<1>6. ASSUME NEW p \in Cases, Rebuild(p) PROVE Ways'
  BY <1>6 DEF json, dirs, results, counters, Types, Ways, Working, Steps, Someone, Over, Building,
       Rebuild, At, Chosen, Goto
<1>7. ASSUME NEW p \in Cases, ClearOutput(p) PROVE Ways'
  BY <1>7 DEF json, counters, Types, Ways, Working, Steps, Someone, Over, Building, ClearOutput,
       At, Goto, Others
<1>8. ASSUME NEW p \in Cases, ClearConfig(p) PROVE Ways'
  BY <1>8 DEF json, dirs, results, counters, history, Types, Ways, Working, Steps, Someone, Over,
       Building, ClearConfig, At, Goto
<1>9. ASSUME NEW p \in Cases, WriteConfig(p) PROVE Ways'
  BY <1>9 DEF json, dirs, results, counters, history, Types, Ways, Working, Steps, Someone, Over,
       Building, WriteConfig, At, Goto
<1>10. ASSUME NEW p \in Cases, WriteState(p) PROVE Ways'
  BY <1>10 DEF dirs, results, counters, history, Types, Ways, Working, Steps, Someone, Over,
       Building, WriteState, At, Goto
<1>11. ASSUME NEW p \in Cases, Install(p) PROVE Ways'
  BY <1>11 DEF json, dirs, results, counters, history, Types, Ways, Working, Steps, Someone, Over,
       Building, Install, At, Goto
<1>12. ASSUME NEW p \in Cases, Installed(p) PROVE Ways'
  BY <1>12 DEF json, dirs, results, counters, history, Types, Ways, Working, Steps, Someone, Over,
       Building, Installed, At, Goto
<1>13. ASSUME NEW p \in Cases, FailRuncpu(p) PROVE Ways'
  BY <1>13 DEF json, dirs, results, Types, Ways, Working, Steps, Someone, Over, Building,
       FailRuncpu, At, Fail, Mishap, Goto
<1>14. ASSUME NEW p \in Cases, FailMissing(p) PROVE Ways'
  BY <1>14 DEF json, dirs, results, Types, Ways, Working, Steps, Someone, Over, Building,
       FailMissing, At, Fail, Goto
<1>15. ASSUME NEW p \in Cases, Select(p) PROVE Ways'
  BY <1>15 DEF json, dirs, results, counters, history, Types, Ways, Working, Steps, Someone, Over,
       Building, Select, At, Goto
<1>16. ASSUME NEW p \in Cases, WriteMeta(p) PROVE Ways'
  BY <1>16 DEF dirs, results, counters, Types, Ways, Working, Steps, Someone, Over, Building,
       WriteMeta, At, Goto
<1>17. ASSUME NEW p \in Cases, Export(p) PROVE Ways'
  BY <1>17 DEF json, dirs, counters, history, Types, Ways, Working, Steps, Someone, Over, Building,
       Export, At, Goto
<1>18. ASSUME NEW p \in Cases, EndElf(p) PROVE Ways'
  BY <1>18 DEF json, dirs, results, counters, history, Types, Ways, Working, Steps, Someone, Over,
       Building, EndElf, At, Goto
<1>19. ASSUME NEW p \in Cases, Setup(p) PROVE Ways'
  BY <1>19 DEF json, dirs, counters, history, Types, Ways, Working, Steps, Someone, Over, Building,
       Setup, At, Goto, Prepare, Dir, SelectRunDir
<1>20. ASSUME NEW p \in Cases, FailSetup(p) PROVE Ways'
  BY <1>20 DEF json, dirs, Types, Ways, Working, Steps, Someone, Over, Building, FailSetup, At,
       Fail, Mishap, Goto, Prepare, Dir
<1>21. ASSUME Finish PROVE Ways'
  BY <1>21 DEF json, dirs, results, counters, history, Types, Ways, Working, Steps, Someone, Over,
       Building, Finish
<1>22. ASSUME Kill PROVE Ways'
  BY <1>22 DEF dirs, results, Types, Ways, Working, Steps, Someone, Over, Building, Kill, Mishap,
       Someone
<1>23. ASSUME Stop \/ UNCHANGED vars PROVE Ways'
  BY <1>23 DEF Types, Ways, Working, Steps, Someone, Over, Building, Stop, vars
<1>. QED  BY <1>1, <1>2, <1>3, <1>4, <1>5, <1>6, <1>7, <1>8, <1>9, <1>10, <1>11, <1>12, <1>13,
      <1>14, <1>15, <1>16, <1>17, <1>18, <1>19, <1>20, <1>21, <1>22, <1>23 DEF Next

\* Every step preserves that a case works alone.
LEMMA AloneStep ==
    ASSUME Types, Ways, Alone, [Next]_vars
    PROVE  Alone'
<1>1. ASSUME NEW k \in Keys, Start(k) PROVE Alone'
  BY <1>1
       DEF json, dirs, results, Types, Ways, Alone, Reusable, Working, Steps, Over, Building, Start
<1>2. ASSUME NEW p \in Cases, Begin(p) PROVE Alone'
  BY <1>2 DEF json, dirs, results, counters, history, Types, Ways, Alone, Reusable, Working, Steps,
       Over, Building, Begin, At, Goto, Others
<1>3. ASSUME NEW p \in Cases, Reuse(p) PROVE Alone'
  BY <1>3 DEF json, dirs, results, counters, Types, Ways, Alone, Reusable, Working, Steps, Over,
       Building, Reuse, At, Chosen, Completed, Goto, Reusable
<1>4. ASSUME NEW p \in Cases, Recover(p) PROVE Alone'
  BY <1>4 DEF json, dirs, results, counters, Types, Ways, Alone, Reusable, Working, Steps, Over,
       Building, Recover, At, Chosen, Completed, Goto, Recoverable
<1>5. ASSUME NEW p \in Cases, Resume(p) PROVE Alone'
  BY <1>5 DEF json, dirs, results, counters, Types, Ways, Alone, Reusable, Working, Steps, Over,
       Building, Resume, At, Chosen, Goto, Resumable
<1>6. ASSUME NEW p \in Cases, Rebuild(p) PROVE Alone'
  BY <1>6 DEF json, dirs, results, counters, Types, Ways, Alone, Reusable, Working, Steps, Over,
       Building, Rebuild, At, Chosen, Goto
<1>7. ASSUME NEW p \in Cases, ClearOutput(p) PROVE Alone'
  BY <1>7 DEF json, counters, Types, Ways, Alone, Reusable, Working, Steps, Over, Building,
       ClearOutput, At, Goto, Others
<1>8. ASSUME NEW p \in Cases, ClearConfig(p) PROVE Alone'
  BY <1>8 DEF json, dirs, results, counters, history, Types, Ways, Alone, Reusable, Working, Steps,
       Over, Building, ClearConfig, At, Goto
<1>9. ASSUME NEW p \in Cases, WriteConfig(p) PROVE Alone'
  BY <1>9 DEF json, dirs, results, counters, history, Types, Ways, Alone, Reusable, Working, Steps,
       Over, Building, WriteConfig, At, Goto
<1>10. ASSUME NEW p \in Cases, WriteState(p) PROVE Alone'
  BY <1>10 DEF dirs, results, counters, history, Types, Ways, Alone, Reusable, Working, Steps,
       Over, Building, WriteState, At, Goto
<1>11. ASSUME NEW p \in Cases, Install(p) PROVE Alone'
  BY <1>11 DEF json, dirs, results, counters, history, Types, Ways, Alone, Reusable, Working,
       Steps, Over, Building, Install, At, Goto
<1>12. ASSUME NEW p \in Cases, Installed(p) PROVE Alone'
  BY <1>12 DEF json, dirs, results, counters, history, Types, Ways, Alone, Reusable, Working,
       Steps, Over, Building, Installed, At, Goto
<1>13. ASSUME NEW p \in Cases, FailRuncpu(p) PROVE Alone'
  BY <1>13 DEF json, dirs, results, Types, Ways, Alone, Reusable, Working, Steps, Over, Building,
       FailRuncpu, At, Fail, Mishap, Goto
<1>14. ASSUME NEW p \in Cases, FailMissing(p) PROVE Alone'
  BY <1>14 DEF json, dirs, results, Types, Ways, Alone, Reusable, Working, Steps, Over, Building,
       FailMissing, At, Fail, Goto
<1>15. ASSUME NEW p \in Cases, Select(p) PROVE Alone'
  BY <1>15 DEF json, dirs, results, counters, history, Types, Ways, Alone, Reusable, Working,
       Steps, Over, Building, Select, At, Goto
<1>16. ASSUME NEW p \in Cases, WriteMeta(p) PROVE Alone'
  BY <1>16 DEF dirs, results, counters, Types, Ways, Alone, Reusable, Working, Steps, Over,
       Building, WriteMeta, At, Goto
<1>17. ASSUME NEW p \in Cases, Export(p) PROVE Alone'
  BY <1>17 DEF json, dirs, counters, history, Types, Ways, Alone, Reusable, Working, Steps, Over,
       Building, Export, At, Goto
<1>18. ASSUME NEW p \in Cases, EndElf(p) PROVE Alone'
  BY <1>18 DEF json, dirs, results, counters, history, Types, Ways, Alone, Reusable, Working,
       Steps, Over, Building, EndElf, At, Goto
<1>19. ASSUME NEW p \in Cases, Setup(p) PROVE Alone'
  BY <1>19 DEF json, dirs, counters, history, Types, Ways, Alone, Reusable, Working, Steps, Over,
       Building, Setup, At, Goto, Prepare, Dir, SelectRunDir
<1>20. ASSUME NEW p \in Cases, FailSetup(p) PROVE Alone'
  BY <1>20 DEF json, dirs, Types, Ways, Alone, Reusable, Working, Steps, Over, Building, FailSetup,
       At, Fail, Mishap, Goto, Prepare, Dir
<1>21. ASSUME Finish PROVE Alone'
  BY <1>21 DEF json, dirs, results, counters, history, Types, Ways, Alone, Reusable, Working,
       Steps, Over, Building, Finish
<1>22. ASSUME Kill PROVE Alone'
  BY <1>22 DEF dirs, results, Types, Ways, Alone, Reusable, Working, Steps, Over, Building, Kill,
       Mishap, Someone
<1>23. ASSUME Stop \/ UNCHANGED vars PROVE Alone'
  BY <1>23 DEF Types, Ways, Alone, Reusable, Working, Steps, Over, Building, Stop, vars
<1>. QED  BY <1>1, <1>2, <1>3, <1>4, <1>5, <1>6, <1>7, <1>8, <1>9, <1>10, <1>11, <1>12, <1>13,
      <1>14, <1>15, <1>16, <1>17, <1>18, <1>19, <1>20, <1>21, <1>22, <1>23 DEF Next

\* Every step preserves how far a build has got.
LEMMA BuiltStep ==
    ASSUME Types, Ways, Alone, BuiltSoFar, ConfigSound, StateSound, WholeSound, [Next]_vars
    PROVE  BuiltSoFar'
<1>. USE NamesAssumption
<1>1. ASSUME NEW k \in Keys, Start(k) PROVE BuiltSoFar'
  BY <1>1 DEF json, dirs, results, Types, Ways, Alone, BuiltSoFar, Working, Steps, Over, Building,
       Start
<1>2. ASSUME NEW p \in Cases, Begin(p) PROVE BuiltSoFar'
  BY <1>2 DEF json, dirs, results, counters, history, Types, Ways, Alone, BuiltSoFar, Working,
       Steps, Over, Building, Begin, At, Goto, Others
<1>3. ASSUME NEW p \in Cases, Reuse(p) PROVE BuiltSoFar'
  <2>1. cfg' = cfg
    BY <1>3, ConfigKept DEF Reuse, Reusable
  <2>. QED  BY <1>3, <2>1 DEF Types, BuiltSoFar, Working, Reuse, Chosen, Goto, json
<1>4. ASSUME NEW p \in Cases, Recover(p) PROVE BuiltSoFar'
  <2>1. cfg' = cfg /\ exe # Nothing /\ state = key
    BY <1>4, ConfigKept DEF Recover, Recoverable
  <2>2. pc' = [pc EXCEPT ![p] = "meta"] /\ how' = [how EXCEPT ![p] = "recovered"]
    BY <1>4 DEF Recover, Chosen, Goto
  <2>3. UNCHANGED <<resumes, key, exe, state, cut>>
    BY <1>4 DEF Recover, Chosen, Goto, json
  <2>. QED  BY <2>1, <2>2, <2>3 DEF Types, BuiltSoFar, Working
<1>5. ASSUME NEW p \in Cases, Resume(p) PROVE BuiltSoFar'
  BY <1>5 DEF json, dirs, results, counters, Types, Ways, Alone, BuiltSoFar, Working, Steps, Over,
       Building, Resume, At, Chosen, Goto, Resumable
<1>6. ASSUME NEW p \in Cases, Rebuild(p) PROVE BuiltSoFar'
  BY <1>6 DEF json, dirs, results, counters, Types, Ways, Alone, BuiltSoFar, Working, Steps, Over,
       Building, Rebuild, At, Chosen, Goto
<1>7. ASSUME NEW p \in Cases, ClearOutput(p) PROVE BuiltSoFar'
  BY <1>7 DEF json, counters, Types, Ways, Alone, BuiltSoFar, Working, Steps, Over, Building,
       ClearOutput, At, Goto, Others
<1>8. ASSUME NEW p \in Cases, ClearConfig(p) PROVE BuiltSoFar'
  BY <1>8 DEF json, dirs, results, counters, history, Types, Ways, Alone, BuiltSoFar, Working,
       Steps, Over, Building, ClearConfig, At, Goto
<1>9. ASSUME NEW p \in Cases, WriteConfig(p) PROVE BuiltSoFar'
  BY <1>9 DEF json, dirs, results, counters, history, Types, Ways, Alone, BuiltSoFar, Working,
       Steps, Over, Building, WriteConfig, At, Goto
<1>10. ASSUME NEW p \in Cases, WriteState(p) PROVE BuiltSoFar'
  BY <1>10 DEF dirs, results, counters, history, Types, Ways, Alone, BuiltSoFar, Working, Steps,
       Over, Building, WriteState, At, Goto
<1>11. ASSUME NEW p \in Cases, Install(p) PROVE BuiltSoFar'
  <2>1. exe' # Nothing /\ ~exe'.whole
    BY <1>11, InstallElf
  <2>2. pc[p] = "runcpu" /\ pc' = [pc EXCEPT ![p] = "installing"]
    BY <1>11 DEF Install, At, Goto
  <2>3. UNCHANGED <<resumes, key, cfg, state, how, cut>>
    BY <1>11 DEF Install, Goto, json, history
  <2>4. "shared" \notin cut => \A q \in Cases \ {p} : pc[q] \in Over
    BY <2>2 DEF Alone, Working
  <2>. QED  BY <2>1, <2>2, <2>3, <2>4 DEF Types, BuiltSoFar, Working, Over
<1>12. ASSUME NEW p \in Cases, Installed(p) PROVE BuiltSoFar'
  <2>1. "shared" \notin cut => exe # Nothing
    BY <1>12 DEF Installed, At, BuiltSoFar
  <2>2. "shared" \notin cut => exe' # Nothing /\ exe'.whole
    BY <1>12, <2>1, InstalledElf
  <2>3. pc[p] = "installing" /\ pc' = [pc EXCEPT ![p] = "select"]
    BY <1>12 DEF Installed, At, Goto
  <2>4. UNCHANGED <<resumes, key, cfg, state, how, cut>>
    BY <1>12 DEF Installed, Goto, json, history
  <2>5. "shared" \notin cut => \A q \in Cases \ {p} : pc[q] \in Over
    BY <2>3 DEF Alone, Working
  <2>. QED  BY <2>2, <2>3, <2>4, <2>5 DEF Types, BuiltSoFar, Working, Over
<1>13. ASSUME NEW p \in Cases, FailRuncpu(p) PROVE BuiltSoFar'
  BY <1>13 DEF json, dirs, results, Types, Ways, Alone, BuiltSoFar, Working, Steps, Over, Building,
       FailRuncpu, At, Fail, Mishap, Goto
<1>14. ASSUME NEW p \in Cases, FailMissing(p) PROVE BuiltSoFar'
  BY <1>14 DEF json, dirs, results, Types, Ways, Alone, BuiltSoFar, Working, Steps, Over, Building,
       FailMissing, At, Fail, Goto
<1>15. ASSUME NEW p \in Cases, Select(p) PROVE BuiltSoFar'
  BY <1>15 DEF json, dirs, results, counters, history, Types, Ways, Alone, BuiltSoFar, Working,
       Steps, Over, Building, Select, At, Goto
<1>16. ASSUME NEW p \in Cases, WriteMeta(p) PROVE BuiltSoFar'
  BY <1>16 DEF dirs, results, counters, Types, Ways, Alone, BuiltSoFar, Working, Steps, Over,
       Building, WriteMeta, At, Goto
<1>17. ASSUME NEW p \in Cases, Export(p) PROVE BuiltSoFar'
  BY <1>17 DEF json, dirs, counters, history, Types, Ways, Alone, BuiltSoFar, Working, Steps, Over,
       Building, Export, At, Goto
<1>18. ASSUME NEW p \in Cases, EndElf(p) PROVE BuiltSoFar'
  BY <1>18 DEF json, dirs, results, counters, history, Types, Ways, Alone, BuiltSoFar, Working,
       Steps, Over, Building, EndElf, At, Goto
<1>19. ASSUME NEW p \in Cases, Setup(p) PROVE BuiltSoFar'
  BY <1>19 DEF json, dirs, counters, history, Types, Ways, Alone, BuiltSoFar, Working, Steps, Over,
       Building, Setup, At, Goto, Prepare, Dir, SelectRunDir
<1>20. ASSUME NEW p \in Cases, FailSetup(p) PROVE BuiltSoFar'
  BY <1>20 DEF json, dirs, Types, Ways, Alone, BuiltSoFar, Working, Steps, Over, Building,
       FailSetup, At, Fail, Mishap, Goto, Prepare, Dir
<1>21. ASSUME Finish PROVE BuiltSoFar'
  BY <1>21 DEF json, dirs, results, counters, history, Types, Ways, Alone, BuiltSoFar, Working,
       Steps, Over, Building, Finish
<1>22. ASSUME Kill PROVE BuiltSoFar'
  BY <1>22 DEF dirs, results, Types, Ways, Alone, BuiltSoFar, Working, Steps, Over, Building, Kill,
       Mishap, Someone
<1>23. ASSUME Stop \/ UNCHANGED vars PROVE BuiltSoFar'
  BY <1>23 DEF Types, Ways, Alone, BuiltSoFar, Working, Steps, Over, Building, Stop, vars
<1>. QED  BY <1>1, <1>2, <1>3, <1>4, <1>5, <1>6, <1>7, <1>8, <1>9, <1>10, <1>11, <1>12, <1>13,
      <1>14, <1>15, <1>16, <1>17, <1>18, <1>19, <1>20, <1>21, <1>22, <1>23 DEF Next

\* Every step preserves what the configuration says of the executable.
LEMMA ConfigStep ==
    ASSUME Types, Ways, Alone, BuiltSoFar, ConfigSound, [Next]_vars
    PROVE  ConfigSound'
<1>. USE NamesAssumption
<1>1. ASSUME NEW k \in Keys, Start(k) PROVE ConfigSound'
  BY <1>1 DEF json, dirs, results, Types, Ways, Alone, BuiltSoFar, ConfigSound, Working, Steps,
       Over, Building, Start
<1>2. ASSUME NEW p \in Cases, Begin(p) PROVE ConfigSound'
  BY <1>2 DEF json, dirs, results, counters, history, Types, Ways, Alone, BuiltSoFar, ConfigSound,
       Working, Steps, Over, Building, Begin, At, Goto, Others
<1>3. ASSUME NEW p \in Cases, Reuse(p) PROVE ConfigSound'
  <2>1. cfg' = cfg
    BY <1>3, ConfigKept DEF Reuse, Reusable
  <2>. QED  BY <1>3, <2>1 DEF ConfigSound, Reuse, Chosen
<1>4. ASSUME NEW p \in Cases, Recover(p) PROVE ConfigSound'
  <2>1. cfg' = cfg
    BY <1>4, ConfigKept DEF Recover, Recoverable
  <2>. QED  BY <1>4, <2>1 DEF ConfigSound, Recover, Chosen
<1>5. ASSUME NEW p \in Cases, Resume(p) PROVE ConfigSound'
  BY <1>5 DEF json, dirs, results, counters, Types, Ways, Alone, BuiltSoFar, ConfigSound, Working,
       Steps, Over, Building, Resume, At, Chosen, Goto, Resumable
<1>6. ASSUME NEW p \in Cases, Rebuild(p) PROVE ConfigSound'
  BY <1>6 DEF json, dirs, results, counters, Types, Ways, Alone, BuiltSoFar, ConfigSound, Working,
       Steps, Over, Building, Rebuild, At, Chosen, Goto
<1>7. ASSUME NEW p \in Cases, ClearOutput(p) PROVE ConfigSound'
  BY <1>7 DEF json, counters, Types, Ways, Alone, BuiltSoFar, ConfigSound, Working, Steps, Over,
       Building, ClearOutput, At, Goto, Others
<1>8. ASSUME NEW p \in Cases, ClearConfig(p) PROVE ConfigSound'
  BY <1>8 DEF json, dirs, results, counters, history, Types, Ways, Alone, BuiltSoFar, ConfigSound,
       Working, Steps, Over, Building, ClearConfig, At, Goto
<1>9. ASSUME NEW p \in Cases, WriteConfig(p) PROVE ConfigSound'
  <2>1. CASE cfg' = cfg
    BY <1>9, <2>1 DEF ConfigSound, WriteConfig, history
  <2>2. CASE "shared" \notin cut /\ cfg' # cfg
    <3>1. pc[p] = "config" /\ (~resumes \/ cfg = Nothing)
      BY <1>9, <2>2 DEF WriteConfig, At
    <3>2. exe = Nothing
      <4>1. CASE resumes
        BY <2>2, <3>1, <4>1, ElfIsThere DEF ConfigSound, Types
      <4>2. CASE ~resumes
        BY <2>2, <3>1, <4>2 DEF Ways, BuiltSoFar, Working
      <4>. QED  BY <4>1, <4>2
    <3>. QED  BY <1>9, <3>2 DEF ConfigSound, WriteConfig
  <2>. QED  BY <1>9, <2>1, <2>2 DEF ConfigSound, WriteConfig, history
<1>10. ASSUME NEW p \in Cases, WriteState(p) PROVE ConfigSound'
  BY <1>10 DEF dirs, results, counters, history, Types, Ways, Alone, BuiltSoFar, ConfigSound,
       Working, Steps, Over, Building, WriteState, At, Goto
<1>11. ASSUME NEW p \in Cases, Install(p) PROVE ConfigSound'
  <2>1. exe'.of = cfg
    BY <1>11, InstallElf
  <2>. QED  BY <1>11, <2>1 DEF ConfigSound, Install
<1>12. ASSUME NEW p \in Cases, Installed(p) PROVE ConfigSound'
  <2>1. CASE exe # Nothing
    BY <1>12, <2>1, InstalledElf DEF ConfigSound, Installed, history
  <2>2. CASE exe = Nothing
    BY <1>12, <2>2 DEF ConfigSound, Installed
  <2>. QED  BY <2>1, <2>2
<1>13. ASSUME NEW p \in Cases, FailRuncpu(p) PROVE ConfigSound'
  BY <1>13 DEF json, dirs, results, Types, Ways, Alone, BuiltSoFar, ConfigSound, Working, Steps,
       Over, Building, FailRuncpu, At, Fail, Mishap, Goto
<1>14. ASSUME NEW p \in Cases, FailMissing(p) PROVE ConfigSound'
  BY <1>14 DEF json, dirs, results, Types, Ways, Alone, BuiltSoFar, ConfigSound, Working, Steps,
       Over, Building, FailMissing, At, Fail, Goto
<1>15. ASSUME NEW p \in Cases, Select(p) PROVE ConfigSound'
  BY <1>15 DEF json, dirs, results, counters, history, Types, Ways, Alone, BuiltSoFar, ConfigSound,
       Working, Steps, Over, Building, Select, At, Goto
<1>16. ASSUME NEW p \in Cases, WriteMeta(p) PROVE ConfigSound'
  BY <1>16 DEF dirs, results, counters, Types, Ways, Alone, BuiltSoFar, ConfigSound, Working,
       Steps, Over, Building, WriteMeta, At, Goto
<1>17. ASSUME NEW p \in Cases, Export(p) PROVE ConfigSound'
  BY <1>17 DEF json, dirs, counters, history, Types, Ways, Alone, BuiltSoFar, ConfigSound, Working,
       Steps, Over, Building, Export, At, Goto
<1>18. ASSUME NEW p \in Cases, EndElf(p) PROVE ConfigSound'
  BY <1>18 DEF json, dirs, results, counters, history, Types, Ways, Alone, BuiltSoFar, ConfigSound,
       Working, Steps, Over, Building, EndElf, At, Goto
<1>19. ASSUME NEW p \in Cases, Setup(p) PROVE ConfigSound'
  <2>1. exe # Nothing /\ (exe' = exe \/ exe'.of = cfg)
    BY <1>19, SetupElf
  <2>. QED  BY <1>19, <2>1 DEF ConfigSound, Setup, history
<1>20. ASSUME NEW p \in Cases, FailSetup(p) PROVE ConfigSound'
  BY <1>20 DEF json, dirs, Types, Ways, Alone, BuiltSoFar, ConfigSound, Working, Steps, Over,
       Building, FailSetup, At, Fail, Mishap, Goto, Prepare, Dir
<1>21. ASSUME Finish PROVE ConfigSound'
  BY <1>21 DEF json, dirs, results, counters, history, Types, Ways, Alone, BuiltSoFar, ConfigSound,
       Working, Steps, Over, Building, Finish
<1>22. ASSUME Kill PROVE ConfigSound'
  <2>1. "shared" \notin cut /\ exe # Nothing => cfg = exe.of /\ cfg # Nothing
    BY ElfIsThere DEF ConfigSound, Types
  <2>2. exe' = exe /\ cut \subseteq cut' /\ (cfg # Nothing => cfg' = cfg)
    BY <1>22 DEF Kill
  <2>. QED  BY <2>1, <2>2 DEF ConfigSound
<1>23. ASSUME Stop \/ UNCHANGED vars PROVE ConfigSound'
  BY <1>23
       DEF Types, Ways, Alone, BuiltSoFar, ConfigSound, Working, Steps, Over, Building, Stop, vars
<1>. QED  BY <1>1, <1>2, <1>3, <1>4, <1>5, <1>6, <1>7, <1>8, <1>9, <1>10, <1>11, <1>12, <1>13,
      <1>14, <1>15, <1>16, <1>17, <1>18, <1>19, <1>20, <1>21, <1>22, <1>23 DEF Next

\* Every step preserves what the state of a build says of the executable.
LEMMA StateStep ==
    ASSUME Types, Ways, Alone, BuiltSoFar, ConfigSound, StateSound, [Next]_vars
    PROVE  StateSound'
<1>. USE NamesAssumption
<1>1. ASSUME NEW k \in Keys, Start(k) PROVE StateSound'
  BY <1>1 DEF json, dirs, results, Types, Ways, Alone, BuiltSoFar, ConfigSound, StateSound,
       Working, Steps, Over, Building, Start
<1>2. ASSUME NEW p \in Cases, Begin(p) PROVE StateSound'
  BY <1>2 DEF json, dirs, results, counters, history, Types, Ways, Alone, BuiltSoFar, ConfigSound,
       StateSound, Working, Steps, Over, Building, Begin, At, Goto, Others
<1>3. ASSUME NEW p \in Cases, Reuse(p) PROVE StateSound'
  BY <1>3 DEF json, dirs, results, counters, Types, Ways, Alone, BuiltSoFar, ConfigSound,
       StateSound, Working, Steps, Over, Building, Reuse, At, Chosen, Completed, Goto, Reusable
<1>4. ASSUME NEW p \in Cases, Recover(p) PROVE StateSound'
  BY <1>4 DEF json, dirs, results, counters, Types, Ways, Alone, BuiltSoFar, ConfigSound,
       StateSound, Working, Steps, Over, Building, Recover, At, Chosen, Completed, Goto, Recoverable
<1>5. ASSUME NEW p \in Cases, Resume(p) PROVE StateSound'
  BY <1>5 DEF json, dirs, results, counters, Types, Ways, Alone, BuiltSoFar, ConfigSound,
       StateSound, Working, Steps, Over, Building, Resume, At, Chosen, Goto, Resumable
<1>6. ASSUME NEW p \in Cases, Rebuild(p) PROVE StateSound'
  BY <1>6 DEF json, dirs, results, counters, Types, Ways, Alone, BuiltSoFar, ConfigSound,
       StateSound, Working, Steps, Over, Building, Rebuild, At, Chosen, Goto
<1>7. ASSUME NEW p \in Cases, ClearOutput(p) PROVE StateSound'
  BY <1>7 DEF json, counters, Types, Ways, Alone, BuiltSoFar, ConfigSound, StateSound, Working,
       Steps, Over, Building, ClearOutput, At, Goto, Others
<1>8. ASSUME NEW p \in Cases, ClearConfig(p) PROVE StateSound'
  BY <1>8 DEF json, dirs, results, counters, history, Types, Ways, Alone, BuiltSoFar, ConfigSound,
       StateSound, Working, Steps, Over, Building, ClearConfig, At, Goto
<1>9. ASSUME NEW p \in Cases, WriteConfig(p) PROVE StateSound'
  BY <1>9 DEF json, dirs, results, counters, history, Types, Ways, Alone, BuiltSoFar, ConfigSound,
       StateSound, Working, Steps, Over, Building, WriteConfig, At, Goto
<1>10. ASSUME NEW p \in Cases, WriteState(p) PROVE StateSound'
  BY <1>10 DEF dirs, results, counters, history, Types, Ways, Alone, BuiltSoFar, ConfigSound,
       StateSound, Working, Steps, Over, Building, WriteState, At, Goto
<1>11. ASSUME NEW p \in Cases, Install(p) PROVE StateSound'
  BY <1>11 DEF json, dirs, results, counters, history, Types, Ways, Alone, BuiltSoFar, ConfigSound,
       StateSound, Working, Steps, Over, Building, Install, At, Goto
<1>12. ASSUME NEW p \in Cases, Installed(p) PROVE StateSound'
  BY <1>12 DEF json, dirs, results, counters, history, Types, Ways, Alone, BuiltSoFar, ConfigSound,
       StateSound, Working, Steps, Over, Building, Installed, At, Goto
<1>13. ASSUME NEW p \in Cases, FailRuncpu(p) PROVE StateSound'
  BY <1>13 DEF json, dirs, results, Types, Ways, Alone, BuiltSoFar, ConfigSound, StateSound,
       Working, Steps, Over, Building, FailRuncpu, At, Fail, Mishap, Goto
<1>14. ASSUME NEW p \in Cases, FailMissing(p) PROVE StateSound'
  BY <1>14 DEF json, dirs, results, Types, Ways, Alone, BuiltSoFar, ConfigSound, StateSound,
       Working, Steps, Over, Building, FailMissing, At, Fail, Goto
<1>15. ASSUME NEW p \in Cases, Select(p) PROVE StateSound'
  BY <1>15 DEF json, dirs, results, counters, history, Types, Ways, Alone, BuiltSoFar, ConfigSound,
       StateSound, Working, Steps, Over, Building, Select, At, Goto
<1>16. ASSUME NEW p \in Cases, WriteMeta(p) PROVE StateSound'
  BY <1>16 DEF dirs, results, counters, Types, Ways, Alone, BuiltSoFar, ConfigSound, StateSound,
       Working, Steps, Over, Building, WriteMeta, At, Goto
<1>17. ASSUME NEW p \in Cases, Export(p) PROVE StateSound'
  BY <1>17 DEF json, dirs, counters, history, Types, Ways, Alone, BuiltSoFar, ConfigSound,
       StateSound, Working, Steps, Over, Building, Export, At, Goto
<1>18. ASSUME NEW p \in Cases, EndElf(p) PROVE StateSound'
  BY <1>18 DEF json, dirs, results, counters, history, Types, Ways, Alone, BuiltSoFar, ConfigSound,
       StateSound, Working, Steps, Over, Building, EndElf, At, Goto
<1>19. ASSUME NEW p \in Cases, Setup(p) PROVE StateSound'
  BY <1>19 DEF json, dirs, counters, history, Types, Ways, Alone, BuiltSoFar, ConfigSound,
       StateSound, Working, Steps, Over, Building, Setup, At, Goto, Prepare, Dir, SelectRunDir
<1>20. ASSUME NEW p \in Cases, FailSetup(p) PROVE StateSound'
  BY <1>20 DEF json, dirs, Types, Ways, Alone, BuiltSoFar, ConfigSound, StateSound, Working, Steps,
       Over, Building, FailSetup, At, Fail, Mishap, Goto, Prepare, Dir
<1>21. ASSUME Finish PROVE StateSound'
  BY <1>21 DEF json, dirs, results, counters, history, Types, Ways, Alone, BuiltSoFar, ConfigSound,
       StateSound, Working, Steps, Over, Building, Finish
<1>22. ASSUME Kill PROVE StateSound'
  BY <1>22 DEF dirs, results, Types, Ways, Alone, BuiltSoFar, ConfigSound, StateSound, Working,
       Steps, Over, Building, Kill, Mishap, Someone
<1>23. ASSUME Stop \/ UNCHANGED vars PROVE StateSound'
  BY <1>23 DEF Types, Ways, Alone, BuiltSoFar, ConfigSound, StateSound, Working, Steps, Over,
       Building, Stop, vars
<1>. QED  BY <1>1, <1>2, <1>3, <1>4, <1>5, <1>6, <1>7, <1>8, <1>9, <1>10, <1>11, <1>12, <1>13,
      <1>14, <1>15, <1>16, <1>17, <1>18, <1>19, <1>20, <1>21, <1>22, <1>23 DEF Next

\* Every step preserves that an executable is whole unless it was cut.
LEMMA WholeStep ==
    ASSUME Types, Ways, Alone, BuiltSoFar, WholeSound, [Next]_vars
    PROVE  WholeSound'
<1>. USE NamesAssumption
<1>1. ASSUME NEW k \in Keys, Start(k) PROVE WholeSound'
  BY <1>1 DEF json, dirs, results, Types, Ways, Alone, BuiltSoFar, WholeSound, Working, Steps,
       Someone, Over, Building, Start
<1>2. ASSUME NEW p \in Cases, Begin(p) PROVE WholeSound'
  BY <1>2 DEF json, dirs, results, counters, history, Types, Ways, Alone, BuiltSoFar, WholeSound,
       Working, Steps, Someone, Over, Building, Begin, At, Goto, Others
<1>3. ASSUME NEW p \in Cases, Reuse(p) PROVE WholeSound'
  BY <1>3 DEF json, dirs, results, counters, Types, Ways, Alone, BuiltSoFar, WholeSound, Working,
       Steps, Someone, Over, Building, Reuse, At, Chosen, Completed, Goto, Reusable
<1>4. ASSUME NEW p \in Cases, Recover(p) PROVE WholeSound'
  BY <1>4 DEF json, dirs, results, counters, Types, Ways, Alone, BuiltSoFar, WholeSound, Working,
       Steps, Someone, Over, Building, Recover, At, Chosen, Completed, Goto, Recoverable
<1>5. ASSUME NEW p \in Cases, Resume(p) PROVE WholeSound'
  BY <1>5 DEF json, dirs, results, counters, Types, Ways, Alone, BuiltSoFar, WholeSound, Working,
       Steps, Someone, Over, Building, Resume, At, Chosen, Goto, Resumable
<1>6. ASSUME NEW p \in Cases, Rebuild(p) PROVE WholeSound'
  BY <1>6 DEF json, dirs, results, counters, Types, Ways, Alone, BuiltSoFar, WholeSound, Working,
       Steps, Someone, Over, Building, Rebuild, At, Chosen, Goto
<1>7. ASSUME NEW p \in Cases, ClearOutput(p) PROVE WholeSound'
  BY <1>7 DEF json, counters, Types, Ways, Alone, BuiltSoFar, WholeSound, Working, Steps, Someone,
       Over, Building, ClearOutput, At, Goto, Others
<1>8. ASSUME NEW p \in Cases, ClearConfig(p) PROVE WholeSound'
  BY <1>8 DEF json, dirs, results, counters, history, Types, Ways, Alone, BuiltSoFar, WholeSound,
       Working, Steps, Someone, Over, Building, ClearConfig, At, Goto
<1>9. ASSUME NEW p \in Cases, WriteConfig(p) PROVE WholeSound'
  BY <1>9 DEF json, dirs, results, counters, history, Types, Ways, Alone, BuiltSoFar, WholeSound,
       Working, Steps, Someone, Over, Building, WriteConfig, At, Goto
<1>10. ASSUME NEW p \in Cases, WriteState(p) PROVE WholeSound'
  BY <1>10 DEF dirs, results, counters, history, Types, Ways, Alone, BuiltSoFar, WholeSound,
       Working, Steps, Someone, Over, Building, WriteState, At, Goto
<1>11. ASSUME NEW p \in Cases, Install(p) PROVE WholeSound'
  BY <1>11 DEF json, dirs, results, counters, history, Types, Ways, Alone, BuiltSoFar, WholeSound,
       Working, Steps, Someone, Over, Building, Install, At, Goto
<1>12. ASSUME NEW p \in Cases, Installed(p) PROVE WholeSound'
  BY <1>12 DEF json, dirs, results, counters, history, Types, Ways, Alone, BuiltSoFar, WholeSound,
       Working, Steps, Someone, Over, Building, Installed, At, Goto
<1>13. ASSUME NEW p \in Cases, FailRuncpu(p) PROVE WholeSound'
  BY <1>13 DEF json, dirs, results, Types, Ways, Alone, BuiltSoFar, WholeSound, Working, Steps,
       Someone, Over, Building, FailRuncpu, At, Fail, Mishap, Goto
<1>14. ASSUME NEW p \in Cases, FailMissing(p) PROVE WholeSound'
  BY <1>14 DEF json, dirs, results, Types, Ways, Alone, BuiltSoFar, WholeSound, Working, Steps,
       Someone, Over, Building, FailMissing, At, Fail, Goto
<1>15. ASSUME NEW p \in Cases, Select(p) PROVE WholeSound'
  BY <1>15 DEF json, dirs, results, counters, history, Types, Ways, Alone, BuiltSoFar, WholeSound,
       Working, Steps, Someone, Over, Building, Select, At, Goto
<1>16. ASSUME NEW p \in Cases, WriteMeta(p) PROVE WholeSound'
  BY <1>16 DEF dirs, results, counters, Types, Ways, Alone, BuiltSoFar, WholeSound, Working, Steps,
       Someone, Over, Building, WriteMeta, At, Goto
<1>17. ASSUME NEW p \in Cases, Export(p) PROVE WholeSound'
  BY <1>17 DEF json, dirs, counters, history, Types, Ways, Alone, BuiltSoFar, WholeSound, Working,
       Steps, Someone, Over, Building, Export, At, Goto
<1>18. ASSUME NEW p \in Cases, EndElf(p) PROVE WholeSound'
  BY <1>18 DEF json, dirs, results, counters, history, Types, Ways, Alone, BuiltSoFar, WholeSound,
       Working, Steps, Someone, Over, Building, EndElf, At, Goto
<1>19. ASSUME NEW p \in Cases, Setup(p) PROVE WholeSound'
  BY <1>19 DEF json, dirs, counters, history, Types, Ways, Alone, BuiltSoFar, WholeSound, Working,
       Steps, Someone, Over, Building, Setup, At, Goto, Prepare, Dir, SelectRunDir
<1>20. ASSUME NEW p \in Cases, FailSetup(p) PROVE WholeSound'
  BY <1>20 DEF json, dirs, Types, Ways, Alone, BuiltSoFar, WholeSound, Working, Steps, Someone,
       Over, Building, FailSetup, At, Fail, Mishap, Goto, Prepare, Dir
<1>21. ASSUME Finish PROVE WholeSound'
  BY <1>21 DEF json, dirs, results, counters, history, Types, Ways, Alone, BuiltSoFar, WholeSound,
       Working, Steps, Someone, Over, Building, Finish
<1>22. ASSUME Kill PROVE WholeSound'
  BY <1>22 DEF dirs, results, Types, Ways, Alone, BuiltSoFar, WholeSound, Working, Steps, Someone,
       Over, Building, Kill, Mishap, Someone
<1>23. ASSUME Stop \/ UNCHANGED vars PROVE WholeSound'
  BY <1>23 DEF Types, Ways, Alone, BuiltSoFar, WholeSound, Working, Steps, Someone, Over, Building,
       Stop, vars
<1>. QED  BY <1>1, <1>2, <1>3, <1>4, <1>5, <1>6, <1>7, <1>8, <1>9, <1>10, <1>11, <1>12, <1>13,
      <1>14, <1>15, <1>16, <1>17, <1>18, <1>19, <1>20, <1>21, <1>22, <1>23 DEF Next

\* Every step preserves what the metadata say of the executable.
LEMMA MetaStep ==
    ASSUME Types, Ways, Alone, BuiltSoFar, ConfigSound, StateSound, MetaSound, [Next]_vars
    PROVE  MetaSound'
<1>. USE NamesAssumption
<1>1. ASSUME NEW k \in Keys, Start(k) PROVE MetaSound'
  BY <1>1 DEF json, dirs, results, Types, Ways, Alone, BuiltSoFar, MetaSound, Working, Steps,
       Someone, Over, Building, Start
<1>2. ASSUME NEW p \in Cases, Begin(p) PROVE MetaSound'
  BY <1>2 DEF json, dirs, results, counters, history, Types, Ways, Alone, BuiltSoFar, MetaSound,
       Working, Steps, Someone, Over, Building, Begin, At, Goto, Others
<1>3. ASSUME NEW p \in Cases, Reuse(p) PROVE MetaSound'
  BY <1>3 DEF json, dirs, results, counters, Types, Ways, Alone, BuiltSoFar, MetaSound, Working,
       Steps, Someone, Over, Building, Reuse, At, Chosen, Completed, Goto, Reusable
<1>4. ASSUME NEW p \in Cases, Recover(p) PROVE MetaSound'
  BY <1>4 DEF json, dirs, results, counters, Types, Ways, Alone, BuiltSoFar, MetaSound, Working,
       Steps, Someone, Over, Building, Recover, At, Chosen, Completed, Goto, Recoverable
<1>5. ASSUME NEW p \in Cases, Resume(p) PROVE MetaSound'
  BY <1>5 DEF json, dirs, results, counters, Types, Ways, Alone, BuiltSoFar, MetaSound, Working,
       Steps, Someone, Over, Building, Resume, At, Chosen, Goto, Resumable
<1>6. ASSUME NEW p \in Cases, Rebuild(p) PROVE MetaSound'
  BY <1>6 DEF json, dirs, results, counters, Types, Ways, Alone, BuiltSoFar, MetaSound, Working,
       Steps, Someone, Over, Building, Rebuild, At, Chosen, Goto
<1>7. ASSUME NEW p \in Cases, ClearOutput(p) PROVE MetaSound'
  BY <1>7 DEF json, counters, Types, Ways, Alone, BuiltSoFar, MetaSound, Working, Steps, Someone,
       Over, Building, ClearOutput, At, Goto, Others
<1>8. ASSUME NEW p \in Cases, ClearConfig(p) PROVE MetaSound'
  BY <1>8 DEF json, dirs, results, counters, history, Types, Ways, Alone, BuiltSoFar, MetaSound,
       Working, Steps, Someone, Over, Building, ClearConfig, At, Goto
<1>9. ASSUME NEW p \in Cases, WriteConfig(p) PROVE MetaSound'
  BY <1>9 DEF json, dirs, results, counters, history, Types, Ways, Alone, BuiltSoFar, MetaSound,
       Working, Steps, Someone, Over, Building, WriteConfig, At, Goto
<1>10. ASSUME NEW p \in Cases, WriteState(p) PROVE MetaSound'
  BY <1>10 DEF dirs, results, counters, history, Types, Ways, Alone, BuiltSoFar, MetaSound,
       Working, Steps, Someone, Over, Building, WriteState, At, Goto
<1>11. ASSUME NEW p \in Cases, Install(p) PROVE MetaSound'
  BY <1>11 DEF json, dirs, results, counters, history, Types, Ways, Alone, BuiltSoFar, MetaSound,
       Working, Steps, Someone, Over, Building, Install, At, Goto
<1>12. ASSUME NEW p \in Cases, Installed(p) PROVE MetaSound'
  BY <1>12 DEF json, dirs, results, counters, history, Types, Ways, Alone, BuiltSoFar, MetaSound,
       Working, Steps, Someone, Over, Building, Installed, At, Goto
<1>13. ASSUME NEW p \in Cases, FailRuncpu(p) PROVE MetaSound'
  BY <1>13 DEF json, dirs, results, Types, Ways, Alone, BuiltSoFar, MetaSound, Working, Steps,
       Someone, Over, Building, FailRuncpu, At, Fail, Mishap, Goto
<1>14. ASSUME NEW p \in Cases, FailMissing(p) PROVE MetaSound'
  BY <1>14 DEF json, dirs, results, Types, Ways, Alone, BuiltSoFar, MetaSound, Working, Steps,
       Someone, Over, Building, FailMissing, At, Fail, Goto
<1>15. ASSUME NEW p \in Cases, Select(p) PROVE MetaSound'
  BY <1>15 DEF json, dirs, results, counters, history, Types, Ways, Alone, BuiltSoFar, MetaSound,
       Working, Steps, Someone, Over, Building, Select, At, Goto
<1>16. ASSUME NEW p \in Cases, WriteMeta(p) PROVE MetaSound'
  <2>1. SUFFICES ASSUME exe' # Nothing, cut' = {}
        PROVE  exe'.of = meta'
    BY DEF MetaSound
  <2>2. exe' = exe /\ meta' = key /\ pc[p] = "meta" /\ key \in Keys
    BY <1>16 DEF WriteMeta, At, Types
  <2>3. /\ "shared" \notin cut /\ "foreign" \notin cut
        /\ how[p] = "recovered" => "installing" \notin cut
    BY <1>16, <2>1 DEF WriteMeta
  <2>4. cfg = exe.of
    BY <2>1, <2>2, <2>3 DEF ConfigSound
  <2>5. cfg = key
    <3>1. CASE how[p] = "recovered"
      BY <2>1, <2>2, <2>3, <3>1 DEF Ways, BuiltSoFar, StateSound
    <3>2. CASE how[p] # "recovered"
      BY <2>2, <2>3, <3>2 DEF Ways, BuiltSoFar, Working
    <3>. QED  BY <3>1, <3>2
  <2>. QED  BY <2>2, <2>4, <2>5
<1>17. ASSUME NEW p \in Cases, Export(p) PROVE MetaSound'
  BY <1>17 DEF json, dirs, counters, history, Types, Ways, Alone, BuiltSoFar, MetaSound, Working,
       Steps, Someone, Over, Building, Export, At, Goto
<1>18. ASSUME NEW p \in Cases, EndElf(p) PROVE MetaSound'
  BY <1>18 DEF json, dirs, results, counters, history, Types, Ways, Alone, BuiltSoFar, MetaSound,
       Working, Steps, Someone, Over, Building, EndElf, At, Goto
<1>19. ASSUME NEW p \in Cases, Setup(p) PROVE MetaSound'
  <2>1. exe # Nothing /\ (exe' = exe \/ exe'.of = cfg)
    BY <1>19, SetupElf
  <2>2. UNCHANGED <<meta, cut>> /\ pc' = [pc EXCEPT ![p] = "packaged"] /\ pc[p] = "exported"
    BY <1>19 DEF Setup, At, Goto, json, history
  <2>3. Someone({"installing", "select", "meta"}) => Someone({"installing", "select", "meta"})'
    BY <2>2 DEF Someone, Types
  <2>. QED  BY <2>1, <2>2, <2>3 DEF MetaSound, ConfigSound
<1>20. ASSUME NEW p \in Cases, FailSetup(p) PROVE MetaSound'
  BY <1>20 DEF json, dirs, Types, Ways, Alone, BuiltSoFar, MetaSound, Working, Steps, Someone,
       Over, Building, FailSetup, At, Fail, Mishap, Goto, Prepare, Dir
<1>21. ASSUME Finish PROVE MetaSound'
  BY <1>21 DEF json, dirs, results, counters, history, Types, Ways, Alone, BuiltSoFar, MetaSound,
       Working, Steps, Someone, Over, Building, Finish
<1>22. ASSUME Kill PROVE MetaSound'
  BY <1>22 DEF dirs, results, Types, Ways, Alone, BuiltSoFar, MetaSound, Working, Steps, Someone,
       Over, Building, Kill, Mishap, Someone
<1>23. ASSUME Stop \/ UNCHANGED vars PROVE MetaSound'
  BY <1>23 DEF Types, Ways, Alone, BuiltSoFar, MetaSound, Working, Steps, Someone, Over, Building,
       Stop, vars
<1>. QED  BY <1>1, <1>2, <1>3, <1>4, <1>5, <1>6, <1>7, <1>8, <1>9, <1>10, <1>11, <1>12, <1>13,
      <1>14, <1>15, <1>16, <1>17, <1>18, <1>19, <1>20, <1>21, <1>22, <1>23 DEF Next

\* Every step preserves that what is exported stays as it is.
LEMMA SettledStep ==
    ASSUME Types, Ways, Alone, BuiltSoFar, Settled, [Next]_vars
    PROVE  Settled'
<1>. USE NamesAssumption
<1>1. ASSUME NEW k \in Keys, Start(k) PROVE Settled'
  BY <1>1 DEF json, dirs, results, Types, Ways, Alone, BuiltSoFar, Settled, Exporting, Reusable,
       Working, Steps, Someone, Over, Building, Start
<1>2. ASSUME NEW p \in Cases, Begin(p) PROVE Settled'
  BY <1>2 DEF json, dirs, results, counters, history, Types, Ways, Alone, BuiltSoFar, Settled,
       Exporting, Reusable, Working, Steps, Someone, Over, Building, Begin, At, Goto, Others
<1>3. ASSUME NEW p \in Cases, Reuse(p) PROVE Settled'
  BY <1>3 DEF json, dirs, results, counters, Types, Ways, Alone, BuiltSoFar, Settled, Exporting,
       Reusable, Working, Steps, Someone, Over, Building, Reuse, At, Chosen, Completed, Goto,
       Reusable
<1>4. ASSUME NEW p \in Cases, Recover(p) PROVE Settled'
  BY <1>4 DEF json, dirs, results, counters, Types, Ways, Alone, BuiltSoFar, Settled, Exporting,
       Reusable, Working, Steps, Someone, Over, Building, Recover, At, Chosen, Completed, Goto,
       Recoverable
<1>5. ASSUME NEW p \in Cases, Resume(p) PROVE Settled'
  BY <1>5 DEF json, dirs, results, counters, Types, Ways, Alone, BuiltSoFar, Settled, Exporting,
       Reusable, Working, Steps, Someone, Over, Building, Resume, At, Chosen, Goto, Resumable
<1>6. ASSUME NEW p \in Cases, Rebuild(p) PROVE Settled'
  BY <1>6 DEF json, dirs, results, counters, Types, Ways, Alone, BuiltSoFar, Settled, Exporting,
       Reusable, Working, Steps, Someone, Over, Building, Rebuild, At, Chosen, Goto
<1>7. ASSUME NEW p \in Cases, ClearOutput(p) PROVE Settled'
  BY <1>7 DEF json, counters, Types, Ways, Alone, BuiltSoFar, Settled, Exporting, Reusable,
       Working, Steps, Someone, Over, Building, ClearOutput, At, Goto, Others
<1>8. ASSUME NEW p \in Cases, ClearConfig(p) PROVE Settled'
  BY <1>8 DEF json, dirs, results, counters, history, Types, Ways, Alone, BuiltSoFar, Settled,
       Exporting, Reusable, Working, Steps, Someone, Over, Building, ClearConfig, At, Goto
<1>9. ASSUME NEW p \in Cases, WriteConfig(p) PROVE Settled'
  BY <1>9 DEF json, dirs, results, counters, history, Types, Ways, Alone, BuiltSoFar, Settled,
       Exporting, Reusable, Working, Steps, Someone, Over, Building, WriteConfig, At, Goto
<1>10. ASSUME NEW p \in Cases, WriteState(p) PROVE Settled'
  BY <1>10 DEF dirs, results, counters, history, Types, Ways, Alone, BuiltSoFar, Settled,
       Exporting, Reusable, Working, Steps, Someone, Over, Building, WriteState, At, Goto
<1>11. ASSUME NEW p \in Cases, Install(p) PROVE Settled'
  BY <1>11 DEF json, dirs, results, counters, history, Types, Ways, Alone, BuiltSoFar, Settled,
       Exporting, Reusable, Working, Steps, Someone, Over, Building, Install, At, Goto
<1>12. ASSUME NEW p \in Cases, Installed(p) PROVE Settled'
  BY <1>12 DEF json, dirs, results, counters, history, Types, Ways, Alone, BuiltSoFar, Settled,
       Exporting, Reusable, Working, Steps, Someone, Over, Building, Installed, At, Goto
<1>13. ASSUME NEW p \in Cases, FailRuncpu(p) PROVE Settled'
  BY <1>13 DEF json, dirs, results, Types, Ways, Alone, BuiltSoFar, Settled, Exporting, Reusable,
       Working, Steps, Someone, Over, Building, FailRuncpu, At, Fail, Mishap, Goto
<1>14. ASSUME NEW p \in Cases, FailMissing(p) PROVE Settled'
  BY <1>14 DEF json, dirs, results, Types, Ways, Alone, BuiltSoFar, Settled, Exporting, Reusable,
       Working, Steps, Someone, Over, Building, FailMissing, At, Fail, Goto
<1>15. ASSUME NEW p \in Cases, Select(p) PROVE Settled'
  BY <1>15 DEF json, dirs, results, counters, history, Types, Ways, Alone, BuiltSoFar, Settled,
       Exporting, Reusable, Working, Steps, Someone, Over, Building, Select, At, Goto
<1>16. ASSUME NEW p \in Cases, WriteMeta(p) PROVE Settled'
  BY <1>16 DEF dirs, results, counters, Types, Ways, Alone, BuiltSoFar, Settled, Exporting,
       Reusable, Working, Steps, Someone, Over, Building, WriteMeta, At, Goto
<1>17. ASSUME NEW p \in Cases, Export(p) PROVE Settled'
  BY <1>17 DEF json, dirs, counters, history, Types, Ways, Alone, BuiltSoFar, Settled, Exporting,
       Reusable, Working, Steps, Someone, Over, Building, Export, At, Goto
<1>18. ASSUME NEW p \in Cases, EndElf(p) PROVE Settled'
  BY <1>18 DEF json, dirs, results, counters, history, Types, Ways, Alone, BuiltSoFar, Settled,
       Exporting, Reusable, Working, Steps, Someone, Over, Building, EndElf, At, Goto
<1>19. ASSUME NEW p \in Cases, Setup(p) PROVE Settled'
  <2>1. exe # Nothing /\ exe' # Nothing
    BY <1>19, SetupElf
  <2>2. UNCHANGED <<key, meta, joined>> /\ pc' = [pc EXCEPT ![p] = "packaged"] /\ pc[p] = "exported"
    BY <1>19 DEF Setup, At, Goto, json, history
  <2>. QED  BY <2>1, <2>2 DEF Types, Settled, Exporting, Reusable, Someone, Building
<1>20. ASSUME NEW p \in Cases, FailSetup(p) PROVE Settled'
  BY <1>20 DEF json, dirs, Types, Ways, Alone, BuiltSoFar, Settled, Exporting, Reusable, Working,
       Steps, Someone, Over, Building, FailSetup, At, Fail, Mishap, Goto, Prepare, Dir
<1>21. ASSUME Finish PROVE Settled'
  BY <1>21 DEF json, dirs, results, counters, history, Types, Ways, Alone, BuiltSoFar, Settled,
       Exporting, Reusable, Working, Steps, Someone, Over, Building, Finish
<1>22. ASSUME Kill PROVE Settled'
  BY <1>22 DEF dirs, results, Types, Ways, Alone, BuiltSoFar, Settled, Exporting, Reusable,
       Working, Steps, Someone, Over, Building, Kill, Mishap, Someone
<1>23. ASSUME Stop \/ UNCHANGED vars PROVE Settled'
  BY <1>23 DEF Types, Ways, Alone, BuiltSoFar, Settled, Exporting, Reusable, Working, Steps,
       Someone, Over, Building, Stop, vars
<1>. QED  BY <1>1, <1>2, <1>3, <1>4, <1>5, <1>6, <1>7, <1>8, <1>9, <1>10, <1>11, <1>12, <1>13,
      <1>14, <1>15, <1>16, <1>17, <1>18, <1>19, <1>20, <1>21, <1>22, <1>23 DEF Next

\* Every step preserves that what is exported is right.
LEMMA RightStep ==
    ASSUME Types, Ways, Alone, BuiltSoFar, ConfigSound, StateSound, WholeSound, MetaSound, Settled, RightSoFar, [Next]_vars
    PROVE  RightSoFar'
<1>. USE NamesAssumption
<1>1. ASSUME NEW k \in Keys, Start(k) PROVE RightSoFar'
  BY <1>1 DEF json, dirs, results, Types, Ways, Alone, Settled, RightSoFar, Trusted, Exporting,
       Has, Right, Reusable, Working, Steps, Someone, Over, Building, Start
<1>2. ASSUME NEW p \in Cases, Begin(p) PROVE RightSoFar'
  BY <1>2 DEF json, dirs, results, counters, history, Types, Ways, Alone, Settled, RightSoFar,
       Trusted, Exporting, Has, Right, Reusable, Working, Steps, Someone, Over, Building, Begin,
       At, Goto, Others
<1>3. ASSUME NEW p \in Cases, Reuse(p) PROVE RightSoFar'
  <2>1. meta = key /\ exe # Nothing /\ pc[p] = "check" /\ key \in Keys /\ exe \in Elf
    BY <1>3 DEF Reuse, Reusable, At, Types
  <2>2. pc' = [pc EXCEPT ![p] = "export"] /\ how' = [how EXCEPT ![p] = "reused"]
        /\ UNCHANGED <<key, exe, elf, joined, cut>>
    BY <1>3 DEF Reuse, Chosen, Goto, results
  <2>3. ASSUME p \notin joined, cut = {} PROVE exe = [of |-> key, whole |-> TRUE]
    <3>1. ~Someone({"installing"}) /\ ~Someone({"installing", "select", "meta"})
      BY <2>1, <2>3 DEF Alone, Someone, Working
    <3>2. exe.of = key /\ exe.whole
      BY <2>1, <2>3, <3>1 DEF MetaSound, WholeSound
    <3>. QED  BY <2>1, <3>2, ElfIsThere
  <2>. QED  BY <2>2, <2>3 DEF Types, RightSoFar, Trusted, Exporting, Has, Right
<1>4. ASSUME NEW p \in Cases, Recover(p) PROVE RightSoFar'
  BY <1>4 DEF json, dirs, results, counters, Types, Ways, Alone, Settled, RightSoFar, Trusted,
       Exporting, Has, Right, Reusable, Working, Steps, Someone, Over, Building, Recover, At,
       Chosen, Completed, Goto, Recoverable
<1>5. ASSUME NEW p \in Cases, Resume(p) PROVE RightSoFar'
  BY <1>5 DEF json, dirs, results, counters, Types, Ways, Alone, Settled, RightSoFar, Trusted,
       Exporting, Has, Right, Reusable, Working, Steps, Someone, Over, Building, Resume, At,
       Chosen, Goto, Resumable
<1>6. ASSUME NEW p \in Cases, Rebuild(p) PROVE RightSoFar'
  BY <1>6 DEF json, dirs, results, counters, Types, Ways, Alone, Settled, RightSoFar, Trusted,
       Exporting, Has, Right, Reusable, Working, Steps, Someone, Over, Building, Rebuild, At,
       Chosen, Goto
<1>7. ASSUME NEW p \in Cases, ClearOutput(p) PROVE RightSoFar'
  BY <1>7 DEF json, counters, Types, Ways, Alone, Settled, RightSoFar, Trusted, Exporting, Has,
       Right, Reusable, Working, Steps, Someone, Over, Building, ClearOutput, At, Goto, Others
<1>8. ASSUME NEW p \in Cases, ClearConfig(p) PROVE RightSoFar'
  BY <1>8 DEF json, dirs, results, counters, history, Types, Ways, Alone, Settled, RightSoFar,
       Trusted, Exporting, Has, Right, Reusable, Working, Steps, Someone, Over, Building,
       ClearConfig, At, Goto
<1>9. ASSUME NEW p \in Cases, WriteConfig(p) PROVE RightSoFar'
  BY <1>9 DEF json, dirs, results, counters, history, Types, Ways, Alone, Settled, RightSoFar,
       Trusted, Exporting, Has, Right, Reusable, Working, Steps, Someone, Over, Building,
       WriteConfig, At, Goto
<1>10. ASSUME NEW p \in Cases, WriteState(p) PROVE RightSoFar'
  BY <1>10 DEF dirs, results, counters, history, Types, Ways, Alone, Settled, RightSoFar, Trusted,
       Exporting, Has, Right, Reusable, Working, Steps, Someone, Over, Building, WriteState, At,
       Goto
<1>11. ASSUME NEW p \in Cases, Install(p) PROVE RightSoFar'
  BY <1>11 DEF json, dirs, results, counters, history, Types, Ways, Alone, Settled, RightSoFar,
       Trusted, Exporting, Has, Right, Reusable, Working, Steps, Someone, Over, Building, Install,
       At, Goto
<1>12. ASSUME NEW p \in Cases, Installed(p) PROVE RightSoFar'
  BY <1>12 DEF json, dirs, results, counters, history, Types, Ways, Alone, Settled, RightSoFar,
       Trusted, Exporting, Has, Right, Reusable, Working, Steps, Someone, Over, Building,
       Installed, At, Goto
<1>13. ASSUME NEW p \in Cases, FailRuncpu(p) PROVE RightSoFar'
  BY <1>13 DEF json, dirs, results, Types, Ways, Alone, Settled, RightSoFar, Trusted, Exporting,
       Has, Right, Reusable, Working, Steps, Someone, Over, Building, FailRuncpu, At, Fail, Mishap,
       Goto
<1>14. ASSUME NEW p \in Cases, FailMissing(p) PROVE RightSoFar'
  BY <1>14 DEF json, dirs, results, Types, Ways, Alone, Settled, RightSoFar, Trusted, Exporting,
       Has, Right, Reusable, Working, Steps, Someone, Over, Building, FailMissing, At, Fail, Goto
<1>15. ASSUME NEW p \in Cases, Select(p) PROVE RightSoFar'
  BY <1>15 DEF json, dirs, results, counters, history, Types, Ways, Alone, Settled, RightSoFar,
       Trusted, Exporting, Has, Right, Reusable, Working, Steps, Someone, Over, Building, Select,
       At, Goto
<1>16. ASSUME NEW p \in Cases, WriteMeta(p) PROVE RightSoFar'
  <2>1. pc[p] = "meta" /\ key \in Keys /\ cut' \subseteq cut
    BY <1>16 DEF WriteMeta, At, Types
  <2>2. pc' = [pc EXCEPT ![p] = "export"] /\ UNCHANGED <<key, exe, cfg, elf, how, joined>>
    BY <1>16 DEF WriteMeta, Goto, results
  <2>3. p \notin joined => "shared" \notin cut /\ \A q \in Cases \ {p} : pc[q] \in Over
    BY <2>1 DEF Alone, Working
  <2>4. ASSUME p \notin joined, Trusted(p)' PROVE exe = [of |-> key, whole |-> TRUE]
    <3>1. exe \in Elf /\ exe # Nothing /\ cfg = exe.of
      BY <2>1, <2>3, <2>4 DEF Types, BuiltSoFar, ConfigSound
    <3>2. CASE how[p] = "built"
      BY <2>1, <2>3, <2>4, <3>1, <3>2, ElfIsThere DEF BuiltSoFar, Working
    <3>3. CASE how[p] = "resumed"
      <4>1. "foreign" \notin cut
        BY <1>16, <2>2, <2>4, <3>3 DEF Trusted, WriteMeta
      <4>. QED  BY <2>1, <2>3, <2>4, <3>1, <3>3, <4>1, ElfIsThere DEF BuiltSoFar, Working
    <3>4. CASE how[p] = "recovered"
      <4>1. "foreign" \notin cut /\ "installing" \notin cut
        BY <1>16, <2>2, <2>4, <3>4 DEF Trusted, WriteMeta
      <4>2. ~Someone({"installing"})
        BY <2>1, <2>3, <2>4 DEF Someone, Over
      <4>3. exe.whole
        BY <2>3, <2>4, <3>1, <4>1, <4>2 DEF WholeSound
      <4>4. state = key /\ resumes
        BY <2>1, <2>3, <2>4, <3>4 DEF BuiltSoFar, Ways
      <4>5. cfg = key
        BY <2>1, <3>1, <4>1, <4>4 DEF StateSound
      <4>. QED  BY <3>1, <4>3, <4>5, ElfIsThere
    <3>. QED  BY <2>1, <3>2, <3>3, <3>4 DEF Ways
  <2>5. ASSUME NEW q \in Cases \ {p}, pc[q] \in Exporting PROVE q \in joined
    BY <2>1, <2>5 DEF Settled, Someone, Building
  <2>. QED  BY <2>2, <2>4, <2>5 DEF Types, RightSoFar, Exporting, Has
<1>17. ASSUME NEW p \in Cases, Export(p) PROVE RightSoFar'
  BY <1>17 DEF json, dirs, counters, history, Types, Ways, Alone, Settled, RightSoFar, Trusted,
       Exporting, Has, Right, Reusable, Working, Steps, Someone, Over, Building, Export, At, Goto
<1>18. ASSUME NEW p \in Cases, EndElf(p) PROVE RightSoFar'
  BY <1>18 DEF json, dirs, results, counters, history, Types, Ways, Alone, Settled, RightSoFar,
       Trusted, Exporting, Has, Right, Reusable, Working, Steps, Someone, Over, Building, EndElf,
       At, Goto
<1>19. ASSUME NEW p \in Cases, Setup(p) PROVE RightSoFar'
  <2>1. exe' = exe \/ ~exe.whole
    BY <1>19, SetupElf
  <2>2. UNCHANGED <<key, elf, how, joined, cut>> /\ pc' = [pc EXCEPT ![p] = "packaged"] /\ pc[p] = "exported"
    BY <1>19 DEF Setup, At, Goto, history
  <2>3. \A q \in Cases : Trusted(q)' = Trusted(q) /\ Right(q)' = Right(q)
    BY <2>2 DEF Trusted, Right
  <2>. QED  BY <2>1, <2>2, <2>3 DEF Types, RightSoFar, Exporting, Has
<1>20. ASSUME NEW p \in Cases, FailSetup(p) PROVE RightSoFar'
  BY <1>20 DEF json, dirs, Types, Ways, Alone, Settled, RightSoFar, Trusted, Exporting, Has, Right,
       Reusable, Working, Steps, Someone, Over, Building, FailSetup, At, Fail, Mishap, Goto,
       Prepare, Dir
<1>21. ASSUME Finish PROVE RightSoFar'
  BY <1>21 DEF json, dirs, results, counters, history, Types, Ways, Alone, Settled, RightSoFar,
       Trusted, Exporting, Has, Right, Reusable, Working, Steps, Someone, Over, Building, Finish
<1>22. ASSUME Kill PROVE RightSoFar'
  BY <1>22 DEF dirs, results, Types, Ways, Alone, Settled, RightSoFar, Trusted, Exporting, Has,
       Right, Reusable, Working, Steps, Someone, Over, Building, Kill, Mishap, Someone
<1>23. ASSUME Stop \/ UNCHANGED vars PROVE RightSoFar'
  BY <1>23 DEF Types, Ways, Alone, Settled, RightSoFar, Trusted, Exporting, Has, Right, Reusable,
       Working, Steps, Someone, Over, Building, Stop, vars
<1>. QED  BY <1>1, <1>2, <1>3, <1>4, <1>5, <1>6, <1>7, <1>8, <1>9, <1>10, <1>11, <1>12, <1>13,
      <1>14, <1>15, <1>16, <1>17, <1>18, <1>19, <1>20, <1>21, <1>22, <1>23 DEF Next

\* Every step preserves what is known of the packages.
LEMMA PackagedStep ==
    ASSUME Types, Ways, Settled, NewestThere, PackagedSoFar, [Next]_vars
    PROVE  PackagedSoFar'
<1>. USE NamesAssumption
<1>1. ASSUME NEW k \in Keys, Start(k) PROVE PackagedSoFar'
  BY <1>1 DEF json, dirs, results, Types, Settled, NewestThere, PackagedSoFar, Exporting, Reusable,
       Someone, Over, Building, Start
<1>2. ASSUME NEW p \in Cases, Begin(p) PROVE PackagedSoFar'
  BY <1>2 DEF json, dirs, results, counters, history, Types, Settled, NewestThere, PackagedSoFar,
       Exporting, Reusable, Someone, Over, Building, Begin, At, Goto, Others
<1>3. ASSUME NEW p \in Cases, Reuse(p) PROVE PackagedSoFar'
  BY <1>3 DEF json, dirs, results, counters, Types, Settled, NewestThere, PackagedSoFar, Exporting,
       Reusable, Someone, Over, Building, Reuse, At, Chosen, Completed, Goto, Reusable
<1>4. ASSUME NEW p \in Cases, Recover(p) PROVE PackagedSoFar'
  BY <1>4 DEF json, dirs, results, counters, Types, Settled, NewestThere, PackagedSoFar, Exporting,
       Reusable, Someone, Over, Building, Recover, At, Chosen, Completed, Goto, Recoverable
<1>5. ASSUME NEW p \in Cases, Resume(p) PROVE PackagedSoFar'
  BY <1>5 DEF json, dirs, results, counters, Types, Settled, NewestThere, PackagedSoFar, Exporting,
       Reusable, Someone, Over, Building, Resume, At, Chosen, Goto, Resumable
<1>6. ASSUME NEW p \in Cases, Rebuild(p) PROVE PackagedSoFar'
  BY <1>6 DEF json, dirs, results, counters, Types, Settled, NewestThere, PackagedSoFar, Exporting,
       Reusable, Someone, Over, Building, Rebuild, At, Chosen, Goto
<1>7. ASSUME NEW p \in Cases, ClearOutput(p) PROVE PackagedSoFar'
  BY <1>7 DEF json, counters, Types, Settled, NewestThere, PackagedSoFar, Exporting, Reusable,
       Someone, Over, Building, ClearOutput, At, Goto, Others
<1>8. ASSUME NEW p \in Cases, ClearConfig(p) PROVE PackagedSoFar'
  BY <1>8 DEF json, dirs, results, counters, history, Types, Settled, NewestThere, PackagedSoFar,
       Exporting, Reusable, Someone, Over, Building, ClearConfig, At, Goto
<1>9. ASSUME NEW p \in Cases, WriteConfig(p) PROVE PackagedSoFar'
  BY <1>9 DEF json, dirs, results, counters, history, Types, Settled, NewestThere, PackagedSoFar,
       Exporting, Reusable, Someone, Over, Building, WriteConfig, At, Goto
<1>10. ASSUME NEW p \in Cases, WriteState(p) PROVE PackagedSoFar'
  BY <1>10 DEF dirs, results, counters, history, Types, Settled, NewestThere, PackagedSoFar,
       Exporting, Reusable, Someone, Over, Building, WriteState, At, Goto
<1>11. ASSUME NEW p \in Cases, Install(p) PROVE PackagedSoFar'
  BY <1>11 DEF json, dirs, results, counters, history, Types, Settled, NewestThere, PackagedSoFar,
       Exporting, Reusable, Someone, Over, Building, Install, At, Goto
<1>12. ASSUME NEW p \in Cases, Installed(p) PROVE PackagedSoFar'
  BY <1>12 DEF json, dirs, results, counters, history, Types, Settled, NewestThere, PackagedSoFar,
       Exporting, Reusable, Someone, Over, Building, Installed, At, Goto
<1>13. ASSUME NEW p \in Cases, FailRuncpu(p) PROVE PackagedSoFar'
  BY <1>13 DEF json, dirs, results, Types, Settled, NewestThere, PackagedSoFar, Exporting,
       Reusable, Someone, Over, Building, FailRuncpu, At, Fail, Mishap, Goto
<1>14. ASSUME NEW p \in Cases, FailMissing(p) PROVE PackagedSoFar'
  BY <1>14 DEF json, dirs, results, Types, Settled, NewestThere, PackagedSoFar, Exporting,
       Reusable, Someone, Over, Building, FailMissing, At, Fail, Goto
<1>15. ASSUME NEW p \in Cases, Select(p) PROVE PackagedSoFar'
  BY <1>15 DEF json, dirs, results, counters, history, Types, Settled, NewestThere, PackagedSoFar,
       Exporting, Reusable, Someone, Over, Building, Select, At, Goto
<1>16. ASSUME NEW p \in Cases, WriteMeta(p) PROVE PackagedSoFar'
  BY <1>16 DEF dirs, results, counters, Types, Settled, NewestThere, PackagedSoFar, Exporting,
       Reusable, Someone, Over, Building, WriteMeta, At, Goto
<1>17. ASSUME NEW p \in Cases, Export(p) PROVE PackagedSoFar'
  BY <1>17 DEF json, dirs, counters, history, Types, Settled, NewestThere, PackagedSoFar,
       Exporting, Reusable, Someone, Over, Building, Export, At, Goto
<1>18. ASSUME NEW p \in Cases, EndElf(p) PROVE PackagedSoFar'
  BY <1>18 DEF json, dirs, results, counters, history, Types, Settled, NewestThere, PackagedSoFar,
       Exporting, Reusable, Someone, Over, Building, EndElf, At, Goto
<1>19. ASSUME NEW p \in Cases, Setup(p) PROVE PackagedSoFar'
  <2>1. exe' \in Elf /\ (exe' = exe \/ ~exe.whole)
    BY <1>19, SetupElf
  <2>2. UNCHANGED <<elf, joined>> /\ pc' = [pc EXCEPT ![p] = "packaged"] /\ pc[p] = "exported"
    BY <1>19 DEF Setup, At, Goto, history
  <2>3. \A q \in Cases \ {p} : package'[q] = package[q] /\ runs'[q] = runs[q]
    <3>1. CASE resumes
      BY <1>19, <2>1, <3>1, Prepared DEF Setup, Types
    <3>2. CASE ~resumes
      BY <1>19, <3>2 DEF Setup, Types, dirs
    <3>. QED  BY <3>1, <3>2
  <2>4. \/ package'[p].input = p /\ package'[p].elf = exe'
        \/ runs'[p] # Nothing /\ ~runs'[p].touched
    <3>1. CASE resumes
      <4>1. package'[p] = runs'[newest']
        BY <1>19, <3>1 DEF Setup, SelectRunDir, Types
      <4>. QED  BY <1>19, <2>1, <3>1, <4>1, Prepared DEF Setup
    <3>2. CASE ~resumes
      <4>1. package'[p] = Dir(p, exe', TRUE)
        BY <1>19, <3>2 DEF Setup, SelectRunDir, Types
      <4>2. Dir(p, exe', TRUE).input = p /\ Dir(p, exe', TRUE).elf = exe'
        BY DEF Dir
      <4>. QED  BY <4>1, <4>2
    <3>. QED  BY <3>1, <3>2
  <2>5. pc' \in [Cases -> Steps] /\ \A q \in Cases \ {p} : pc'[q] = pc[q]
    BY <2>2 DEF Types, Steps, Over
  <2>6. ASSUME NEW q \in Cases \ {p}, q \notin joined, pc[q] = "exported", elf[q].whole PROVE exe' = elf[q]
    BY <2>1, <2>6 DEF PackagedSoFar
  <2>7. ASSUME p \notin joined, elf[p].whole PROVE exe' = elf[p]
    BY <2>1, <2>2, <2>7 DEF PackagedSoFar
  <2>8. pc'[p] = "packaged"
    BY <2>2 DEF Types
  <2>. QED  BY <2>2, <2>3, <2>4, <2>5, <2>6, <2>7, <2>8 DEF PackagedSoFar
<1>20. ASSUME NEW p \in Cases, FailSetup(p) PROVE PackagedSoFar'
  BY <1>20 DEF json, dirs, Types, Settled, NewestThere, PackagedSoFar, Exporting, Reusable,
       Someone, Over, Building, FailSetup, At, Fail, Mishap, Goto, Prepare, Dir
<1>21. ASSUME Finish PROVE PackagedSoFar'
  BY <1>21 DEF json, dirs, results, counters, history, Types, Settled, NewestThere, PackagedSoFar,
       Exporting, Reusable, Someone, Over, Building, Finish
<1>22. ASSUME Kill PROVE PackagedSoFar'
  BY <1>22 DEF dirs, results, Types, Settled, NewestThere, PackagedSoFar, Exporting, Reusable,
       Someone, Over, Building, Kill, Mishap, Someone
<1>23. ASSUME Stop \/ UNCHANGED vars PROVE PackagedSoFar'
  BY <1>23 DEF Types, Settled, NewestThere, PackagedSoFar, Exporting, Reusable, Someone, Over,
       Building, Stop, vars
<1>. QED  BY <1>1, <1>2, <1>3, <1>4, <1>5, <1>6, <1>7, <1>8, <1>9, <1>10, <1>11, <1>12, <1>13,
      <1>14, <1>15, <1>16, <1>17, <1>18, <1>19, <1>20, <1>21, <1>22, <1>23 DEF Next

-----------------------------------------------------------------------------
(* Together *)

LEMMA InitInvariant == Init => IInv
<1>. SUFFICES ASSUME Init PROVE IInv
  OBVIOUS
<1>. USE NamesAssumption, BoundsAssumption
<1>1. Types /\ NewestThere
  <2>1. makes \in 0..MaxMakes /\ mishaps \in 0..MaxMishaps
    BY DEF Init
  <2>2. resumes \in BOOLEAN /\ running \in BOOLEAN
    BY ResumingAssumption DEF Init
  <2>3. pc \in [Cases -> Steps] /\ how \in [Cases -> {"none", "built", "reused", "resumed", "recovered"}]
    BY DEF Init, Steps, Over
  <2>. QED  BY <2>1, <2>2, <2>3 DEF Init, Types, NewestThere, Json
<1>2. Ways /\ Alone /\ BuiltSoFar /\ Settled /\ RightSoFar /\ PackagedSoFar
  BY <1>1 DEF Init, Types, Ways, Alone, BuiltSoFar, Settled, RightSoFar, PackagedSoFar,
              Working, Exporting, Over
<1>3. ConfigSound /\ StateSound /\ WholeSound /\ MetaSound
  BY DEF Init, ConfigSound, StateSound, WholeSound, MetaSound
<1>. QED  BY <1>1, <1>2, <1>3 DEF IInv

LEMMA StepInvariant == IInv /\ [Next]_vars => IInv'
  BY TypesStep, NewestStep, WaysStep, AloneStep, BuiltStep, ConfigStep, StateStep, WholeStep,
     MetaStep, SettledStep, RightStep, PackagedStep DEF IInv

LEMMA Invariance == Spec => []IInv
  BY InitInvariant, StepInvariant, PTL DEF Spec

\* The variables keep their types; and in a directory that was never shared
\* the executable is of the configuration next to it.
THEOREM TypeCorrect == Spec => []TypeOK
<1>1. IInv => TypeOK
  BY DEF IInv, Types, ConfigSound, TypeOK, Steps, Json
<1>. QED  BY <1>1, Invariance, PTL

\* What a recipe exports is what its command line asks for, with the exceptions
\* that ExportedIsRight names.
THEOREM ExportsAreRight == Spec => []ExportedIsRight
<1>1. IInv => ExportedIsRight
  BY DEF IInv, Ways, RightSoFar, Trusted, Exporting, Has, ExportedIsRight
<1>. QED  BY <1>1, Invariance, PTL

\* What is packaged is of the input set that was asked for, with the ELF that
\* was exported.
THEOREM PackagesRunTheirElf == Spec => []PackageRunsElf
<1>1. IInv => PackageRunsElf
  BY DEF IInv, PackagedSoFar, PackageRunsElf
<1>. QED  BY <1>1, Invariance, PTL

=============================================================================
