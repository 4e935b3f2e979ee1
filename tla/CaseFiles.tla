------------------------------- MODULE CaseFiles -------------------------------
(***************************************************************************)
(* How spec2006-package.py fills the package of a case, after its ELF was  *)
(* exported.  The inputs of the benchmark are staged: those of all sizes,  *)
(* and over them those of the size that the case is of.  From there the    *)
(* files of the case are copied into the package, to which wrf and sphinx3 *)
(* add what suits the byte order of the ELF; the ELF and the run script    *)
(* come last.  Every step may fail or be killed, and what it leaves is     *)
(* there when the case is packaged again, perhaps for another compiler.    *)
(*                                                                         *)
(* A tree of files is a function from paths to contents; a path is a       *)
(* sequence of names.                                                      *)
(***************************************************************************)
EXTENDS Naturals, Sequences, SequencesExt

CONSTANTS Cases,        \* entries of spec06.json
          Data,         \* case -> the data directories its benchmark may have
          Raw,          \* stem -> names of a recording of sphinx3
          Endians,      \* byte orders of an ELF
          HeaderSizes,  \* wrf_data_header_size; 0 when the option is not there
          MaxRuns,      \* bound on the invocations
          MaxMishaps    \* bound on what fails, and kills

ASSUME EndiansAssumption == Endians \subseteq {"le", "be"}
ASSUME FillBoundsAssumption == MaxRuns \in Nat /\ MaxMishaps \in Nat

\* Where in the package an entry leaves what it names.
Top(e) == IF e.dir THEN e.to ELSE Last(e.from)

\* spec06.json: an entry "dir ." is the only one of its case, as in wrf and
\* sphinx3; others have a name of their own in the package.
ASSUME CasesAssumption ==
    \A c \in Cases :
        /\ c.files \in Seq([dir : BOOLEAN, to : STRING, from : Seq(STRING)])
        /\ \A i \in DOMAIN c.files : c.files[i].dir \/ c.files[i].from # <<>>
        /\ \A i, j \in DOMAIN c.files :
              i # j => c.files[i].to # "." /\ Top(c.files[i]) # Top(c.files[j])
        /\ c.bench \in {"wrf", "sphinx3"} => c.files = <<[dir |-> TRUE, to |-> ".", from |-> <<>>]>>
        /\ c.binary \notin {"run.sh", "ctlfile"}

\* What is a file in one of the data directories is no directory in the other
\* (there copy_tree_contents would fail, or copy a file into the directory).
ASSUME DataAssumption ==
    \A c \in Cases : \A d \in Data[c.name] :
        /\ DOMAIN d.all \cup DOMAIN d.input \subseteq Seq(STRING) \ {<<>>}
        /\ \A p \in DOMAIN d.all, q \in DOMAIN d.input :
              Head(p) = Head(q) => (Len(p) = 1 <=> Len(q) = 1)

\* What a file holds: where it was copied from, and for ctlfile what it lists.
Content(where, path) == [where |-> where, path |-> path, lists |-> {}]
Torn == Content("torn", <<>>)

Empty == [p \in {} |-> Torn]

\* The first tree with the second below it.
Onto(upper, lower) ==
    [p \in DOMAIN upper \cup DOMAIN lower |-> IF p \in DOMAIN upper THEN upper[p] ELSE lower[p]]

Pick(tree, Test(_)) == RestrictDomain(tree, Test)

\* The tree below a directory.
Below(tree, dir) ==
    LET inside == {p \in DOMAIN tree : IsStrictPrefix(dir, p)}
    IN  [q \in {SubSeq(p, Len(dir) + 1, Len(p)) : p \in inside} |-> tree[dir \o q]]

\* A tree put into a directory.
Under(dir, tree) ==
    [p \in {dir \o q : q \in DOMAIN tree} |-> tree[SubSeq(p, Len(dir) + 1, Len(p))]]

IsDir(tree, dir) == \E p \in DOMAIN tree : IsStrictPrefix(dir, p)

\* copy_tree_contents: a directory replaces the one that is there.
CopyTree(source, target) ==
    Onto(source, Pick(target, LAMBDA p : ~IsDir(source, <<Head(p)>>)))

\* copy_flat_directory: only the files, not the directories.
CopyFlat(source, target) == Onto(Pick(source, LAMBDA p : Len(p) = 1), target)

-----------------------------------------------------------------------------
VARIABLES
    case, data,       \* the case; the data directories of its benchmark
    endian, header,   \* of this run's compiler and configuration
    step, at,         \* where package_case is, and at which entry
    stage, package,   \* spec-stage/<case>/<base_name> and package/spec
    exit,             \* how the last run ended
    hit,              \* something failed in it, or it was killed
    runs, mishaps

fillVars == <<case, data, endian, header, step, at, stage, package, exit, hit, runs, mishaps>>

given == <<case, data, endian, header>>
history == <<hit, runs, mishaps>>

FillInit ==
    /\ case \in Cases /\ data \in Data[case.name]
    /\ endian \in Endians /\ header \in HeaderSizes
    /\ step = "over" /\ at = 1
    /\ stage = Empty /\ package = Empty
    /\ exit = "none" /\ hit = FALSE
    /\ runs = 0 /\ mishaps = 0

\* Another compiler, or another configuration.
Start(e, h) ==
    /\ step = "over"
    /\ runs < MaxRuns
    /\ endian' = e /\ header' = h
    /\ step' = "clearStage" /\ at' = 1
    /\ exit' = "none" /\ hit' = FALSE
    /\ runs' = runs + 1
    /\ UNCHANGED <<case, data, stage, package, mishaps>>

Then(next) == step' = next /\ UNCHANGED <<given, exit, history>>

\* What an exception leaves: the run has ended.
Refused == step' = "over" /\ exit' = "failed" /\ UNCHANGED <<given, at, stage, history>>

-----------------------------------------------------------------------------
(* stage_inputs *)

ClearStage ==
    /\ step = "clearStage"
    /\ stage' = Empty
    /\ Then("all")
    /\ UNCHANGED <<at, package>>

\* Mutant: what all sizes have in common is left out.
StageAllNot ==
    /\ step = "all"
    /\ Then("input")
    /\ UNCHANGED <<at, stage, package>>

StageAll ==
    /\ step = "all"
    /\ stage' = CopyTree(data.all, stage)
    /\ Then("input")
    /\ UNCHANGED <<at, package>>

StageInput ==
    /\ step = "input"
    /\ stage' = CopyTree(data.input, stage)
    /\ Then("clear")
    /\ UNCHANGED <<at, package>>

\* Mutant: the package of the case before is filled again.
ClearPackageNot ==
    /\ step = "clear"
    /\ Then("entries")
    /\ UNCHANGED <<at, stage, package>>

ClearPackage ==
    /\ step = "clear"
    /\ package' = Empty
    /\ Then("entries")
    /\ UNCHANGED <<at, stage>>

-----------------------------------------------------------------------------
(* install_case_files *)

Entry == case.files[at]

\* "dir <to> <from>", or the path of one file.
EntryFound ==
    IF Entry.dir THEN Entry.from = <<>> \/ IsDir(stage, Entry.from)
                 ELSE Entry.from \in DOMAIN stage

AfterEntry ==
    IF ~Entry.dir
    THEN Onto([p \in {<<Last(Entry.from)>>} |-> stage[Entry.from]], package)
    ELSE IF Entry.to = "."
    THEN CopyTree(Below(stage, Entry.from), package)
    ELSE Onto(Under(<<Entry.to>>, Below(stage, Entry.from)),
              Pick(package, LAMBDA p : Head(p) # Entry.to))

InstallEntry ==
    /\ step = "entries" /\ at <= Len(case.files)
    /\ EntryFound
    /\ package' = AfterEntry
    /\ at' = at + 1
    /\ Then("entries")
    /\ UNCHANGED stage

EntryMissing ==
    /\ step = "entries" /\ at <= Len(case.files)
    /\ ~EntryFound
    /\ Refused
    /\ UNCHANGED package

InstalledAll ==
    /\ step = "entries" /\ at > Len(case.files)
    /\ Then("setup")
    /\ UNCHANGED <<at, stage, package>>

-----------------------------------------------------------------------------
(* apply_benchmark_post_setup *)

\* resolve_wrf_header_dir
HeaderDir(size) == IF (4 < size /\ size < 32) \/ size > 32 THEN "64" ELSE "32"

\* A header directory that is not there is left out.
PrepareWrf ==
    CopyFlat(Below(package, <<endian, HeaderDir(header)>>), CopyFlat(Below(package, <<endian>>), package))

\* The recordings: every *.be.raw gives the stem of one.
Stems == {s \in DOMAIN Raw : <<Raw[s].be>> \in DOMAIN package}

Recording(s) == <<Raw[s][endian]>>

CtlFile == [p \in {<<"ctlfile">>} |->
                [Content("written", <<>>) EXCEPT !.lists = {<<s, package[Recording(s)]>> : s \in Stems}]]

PrepareSphinx3 ==
    Onto(CtlFile, Onto([p \in {<<Raw[s].plain>> : s \in Stems} |->
                           package[Recording(CHOOSE s \in Stems : Raw[s].plain = p[1])]], package))

SetupPossible ==
    CASE case.bench = "wrf"     -> IsDir(package, <<endian>>)
      [] case.bench = "sphinx3" -> Stems # {} /\ \A s \in Stems : Recording(s) \in DOMAIN package
      [] OTHER                  -> TRUE

AfterSetup ==
    CASE case.bench = "wrf"     -> PrepareWrf
      [] case.bench = "sphinx3" -> PrepareSphinx3
      [] OTHER                  -> package

Setup ==
    /\ step = "setup"
    /\ SetupPossible
    /\ package' = AfterSetup
    /\ Then("binary")
    /\ UNCHANGED <<at, stage>>

\* sphinx3 has begun to write ctlfile then.
SetupFails ==
    /\ step = "setup"
    /\ ~SetupPossible
    /\ Refused
    /\ package' = IF case.bench = "sphinx3" /\ Stems # {}
                  THEN Onto([p \in {<<"ctlfile">>} |-> Torn], package) ELSE package

-----------------------------------------------------------------------------
(* The ELF and the run script, with the inittab that starts it *)

Binary == [p \in {<<case.binary>>} |-> Content("elf", <<endian>>)]
RunScript == [p \in {<<"run.sh">>} |-> Content("script", <<case.binary>>)]

InstallBinary ==
    /\ step = "binary"
    /\ package' = Onto(Binary, package)
    /\ Then("runtime")
    /\ UNCHANGED <<at, stage>>

WriteRuntimeFiles ==
    /\ step = "runtime"
    /\ package' = Onto(RunScript, package)
    /\ step' = "over" /\ exit' = "ok"
    /\ UNCHANGED <<given, at, stage, history>>

\* A copy that is cut has copied nothing, or all, or left torn files.
Halves(before, after) ==
    {before, after,
     [p \in DOMAIN after |-> IF p \in DOMAIN before /\ before[p] = after[p] THEN after[p] ELSE Torn]}

Mishap ==
    /\ step # "over"
    /\ mishaps < MaxMishaps
    /\ mishaps' = mishaps + 1 /\ hit' = TRUE
    /\ step' = "over" /\ exit' = "failed"
    /\ stage' \in CASE step = "clearStage" -> Halves(stage, Empty)
                    [] step = "all"        -> Halves(stage, CopyTree(data.all, stage))
                    [] step = "input"      -> Halves(stage, CopyTree(data.input, stage))
                    [] OTHER               -> {stage}
    /\ package' \in CASE step = "clear"   -> Halves(package, Empty)
                      [] step = "entries" /\ at <= Len(case.files) /\ EntryFound -> Halves(package, AfterEntry)
                      [] step = "setup" /\ SetupPossible -> Halves(package, AfterSetup)
                      [] step = "binary"  -> Halves(package, Onto(Binary, package))
                      [] step = "runtime" -> Halves(package, Onto(RunScript, package))
                      [] OTHER            -> {package}
    /\ UNCHANGED <<given, at, runs>>

NoMoreRuns == step = "over" /\ runs = MaxRuns /\ UNCHANGED fillVars

FillNext ==
    \/ \E e \in Endians, h \in HeaderSizes : Start(e, h)
    \/ ClearStage \/ StageAll \/ StageInput \/ ClearPackage
    \/ InstallEntry \/ EntryMissing \/ InstalledAll
    \/ Setup \/ SetupFails
    \/ InstallBinary \/ WriteRuntimeFiles
    \/ Mishap \/ NoMoreRuns

FillSpec == FillInit /\ [][FillNext]_fillVars

-----------------------------------------------------------------------------
(* What the package must be, said of the data and not of how it is copied. *)

\* A name at the top of the data is of the size, if the size has it.
OfSize(p) == \E q \in DOMAIN data.input : Head(q) = Head(p)

Inputs == [p \in DOMAIN data.input \cup {q \in DOMAIN data.all : ~OfSize(q)} |->
               IF OfSize(p) THEN data.input[p] ELSE data.all[p]]

Takes(e, q) == IF e.dir THEN IsStrictPrefix(e.from, q) ELSE q = e.from

Place(e, q) ==
    IF ~e.dir THEN <<Last(q)>>
    ELSE (IF e.to = "." THEN <<>> ELSE <<e.to>>) \o SubSeq(q, Len(e.from) + 1, Len(q))

\* The inputs that the entries name, each with its place in the package.
Listed ==
    UNION {{<<Place(e, q), q>> : q \in {r \in DOMAIN Inputs : Takes(e, r)}} : e \in ToSet(case.files)}

\* The directories whose files suit the ELF, the more special one first.
Special == <<endian, HeaderDir(header)>>
General == <<endian>>

\* The recordings are told from other files by their name.
Recordings == {s \in DOMAIN Raw : <<Raw[s].be>> \in DOMAIN Inputs}

\* The inputs that may stand at a path of the package.
Suited(p) ==
    LET listed   == {x[2] : x \in {y \in Listed : y[1] = p}}
        wrf      == case.bench = "wrf" /\ Len(p) = 1
        recorded == {<<Raw[s][endian]>> : s \in {r \in Recordings : p = <<Raw[r].plain>>}}
    IN  CASE wrf /\ Special \o p \in DOMAIN Inputs                  -> {Special \o p}
          [] wrf /\ Special \o p \notin DOMAIN Inputs
                 /\ General \o p \in DOMAIN Inputs                  -> {General \o p}
          [] case.bench = "sphinx3" /\ recorded # {}               -> recorded
          [] OTHER                                                 -> listed

Generated == {<<case.binary>>, <<"run.sh">>}
                 \cup IF case.bench = "sphinx3" THEN {<<"ctlfile">>} ELSE {}

Needed ==
    {x[1] : x \in Listed}
        \cup IF case.bench = "wrf"
             THEN {<<Last(q)>> : q \in {r \in DOMAIN Inputs : Front(r) \in {Special, General}}}
             ELSE {}

\* A package that was made without an error holds the inputs of its case and
\* nothing else, whatever earlier runs left: those of the size where the size
\* has them, those for this ELF's byte order and header size where there are
\* several, and over all of them the ELF itself (stage_inputs,
\* install_case_files, apply_benchmark_post_setup, package_case).
PackageHoldsItsInputs ==
    exit = "ok" =>
        /\ Needed \subseteq DOMAIN package
        /\ \A p \in DOMAIN package \ Generated : \E q \in Suited(p) : package[p] = Inputs[q]
        /\ package[<<case.binary>>] = Content("elf", <<endian>>)
        /\ case.bench = "sphinx3" =>
               package[<<"ctlfile">>].lists = {<<s, Inputs[Recording(s)]>> : s \in Recordings}

\* A run in which nothing went wrong is refused only if the data lacks
\* something: a listed file or directory, the directory of wrf for this byte
\* order, or a recording of sphinx3 (the errors of install_case_files,
\* prepare_wrf_runtime and prepare_sphinx3_runtime).
RefusedOnlyForMissing ==
    exit = "failed" /\ ~hit =>
        \/ \E e \in ToSet(case.files) : \A q \in DOMAIN Inputs : ~Takes(e, q)
        \/ case.bench = "wrf" /\ \A q \in DOMAIN Inputs : ~IsStrictPrefix(General, q)
        \/ case.bench = "sphinx3" /\ Recordings = {}
        \/ case.bench = "sphinx3" /\ \E s \in Recordings : Recording(s) \notin DOMAIN Inputs

=============================================================================
