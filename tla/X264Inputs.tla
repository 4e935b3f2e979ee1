------------------------------ MODULE X264Inputs ------------------------------
(***************************************************************************)
(* What the x264 cases of spec2017 do before runcpu can set up their run   *)
(* directory: a decoder is compiled for the build machine and turns the    *)
(* bitstream of the benchmark into the video that the case encodes.  The   *)
(* decoder, what says of which sources it is, and the videos are kept in   *)
(* one directory, _host-tools/x264-inputgen, for every case, of rate and   *)
(* of speed, and for every workspace; it has no lock.  Each case looks at  *)
(* what is there, clears all of it or uses it, and copies its video.       *)
(***************************************************************************)
EXTENDS Naturals, FiniteSets

CONSTANTS Cases,       \* cases of 525.x264_r and 625.x264_s
          Workload,    \* case -> "test", "train", "refrate" or "refspeed"
          Isos,        \* what a workspace holds: [sources, bitstream]
          None,
          MaxRuns,     \* bound on the cases packaged
          MaxIsos,     \* bound on the workspaces prepared
          MaxMishaps   \* bound on what fails, and kills

ASSUME WorkloadAssumption ==
    Workload \in [Cases -> {"test", "train", "refrate", "refspeed"}]
ASSUME InputBoundsAssumption == MaxRuns \in Nat /\ MaxIsos \in Nat /\ MaxMishaps \in Nat

\* x264_data_workload: speed decodes the data of rate.
Data(c) == IF Workload[c] = "refspeed" THEN "refrate" ELSE Workload[c]

Videos == {Data(c) : c \in Cases}

Sources == {i.sources : i \in Isos}

\* A decoder, whole or being linked, and a video, with the case that made it.
Decoders == [sources : Sources, whole : BOOLEAN, by : Cases]
VideoFiles == [decoder : Sources, bitstream : {i.bitstream : i \in Isos},
               amount : {"empty", "part", "whole"}, by : Cases]

\* None is no file.
ASSUME NoneAssumption == None \notin Sources \cup Decoders \cup VideoFiles

VARIABLES
    iso,         \* what spec-src holds
    pc,          \* where each case is
    exe, meta,   \* ldecod-host; build-meta.json, None also if unreadable
    objs,        \* obj/ is there, and the objects in it
    video,       \* generated/<workload>: the file, or None
    older,       \* the videos older than their bitstream
    got,         \* the video in the run directory of each case
    shared,      \* two cases have met in the directory since it was cleared
    cut,         \* videos whose decoder was stopped while it wrote them
    runs, isos, mishaps

stage == <<exe, meta, objs, video, older>>
bounds == <<runs, isos, mishaps>>
x264Vars == <<iso, pc, stage, got, shared, cut, bounds>>

X264Init ==
    /\ iso \in Isos
    /\ pc = [c \in Cases |-> "idle"]
    /\ exe = None /\ meta = None /\ objs = FALSE
    /\ video = [v \in Videos |-> None] /\ older = {}
    /\ got = [c \in Cases |-> None]
    /\ shared = FALSE /\ cut = {}
    /\ runs = 0 /\ isos = 0 /\ mishaps = 0

Over == {"idle", "packaged", "refused"}
Active(c) == pc[c] \notin Over
Alone(c) == \A d \in Cases \ {c} : ~Active(d)

\* prepare-spec-workspace.sh, before the cases of a make: cp gives every file
\* of the workspace a new time.
PrepareWorkspace(i) ==
    /\ \A c \in Cases : ~Active(c)
    /\ isos < MaxIsos
    /\ iso' = i /\ isos' = isos + 1
    /\ older' = Videos
    /\ UNCHANGED <<pc, exe, meta, objs, video, got, shared, cut, runs, mishaps>>

Begin(c) ==
    /\ ~Active(c)
    /\ runs < MaxRuns
    /\ runs' = runs + 1
    /\ pc' = [pc EXCEPT ![c] = "check"]
    /\ got' = [got EXCEPT ![c] = None]
    /\ shared' = (shared \/ ~Alone(c))
    /\ UNCHANGED <<iso, stage, cut, isos, mishaps>>

At(c, line, next) ==
    /\ pc[c] = line
    /\ pc' = [pc EXCEPT ![c] = next]
    /\ UNCHANGED <<iso, bounds>>

-----------------------------------------------------------------------------
(* build_x264_host_inputgen *)

\* Mutant: any decoder will do.
ReusableByFile == exe # None

\* The file is not looked into.
Reusable == exe # None /\ meta = iso.sources

Reuse(c) ==
    /\ At(c, "check", "video")
    /\ Reusable
    /\ UNCHANGED <<stage, got, shared, cut>>

\* rmtree goes from file to file: any of them may be gone already.
StartClear(c) ==
    /\ At(c, "check", "clearing")
    /\ ~Reusable
    /\ exe' \in {exe, None} /\ meta' \in {meta, None} /\ objs' \in {objs, FALSE}
    /\ video' \in {video, [v \in Videos |-> None]}
    /\ UNCHANGED <<older, got, shared, cut>>

FinishClear(c) ==
    /\ At(c, "clearing", "compile")
    /\ exe' = None /\ meta' = None /\ objs' = FALSE
    /\ video' = [v \in Videos |-> None]
    /\ shared' = (shared /\ ~Alone(c))
    /\ cut' = {}
    /\ UNCHANGED <<older, got>>

\* rmtree fails when another case removes or adds files there.
FailClear(c) ==
    /\ At(c, "clearing", "refused")
    /\ ~Alone(c)
    /\ UNCHANGED <<stage, got, shared, cut>>

Compile(c) ==
    /\ At(c, "compile", "link")
    /\ objs' = TRUE
    /\ UNCHANGED <<exe, meta, video, older, got, shared, cut>>

\* The linker replaces the file and fills it.
StartLink(c) ==
    /\ At(c, "link", "linking")
    /\ objs
    /\ exe' = [sources |-> iso.sources, whole |-> FALSE, by |-> c]
    /\ UNCHANGED <<meta, objs, video, older, got, shared, cut>>

FailLink(c) ==
    /\ At(c, "link", "refused")
    /\ ~objs
    /\ UNCHANGED <<stage, got, shared, cut>>

\* If another case has removed or replaced the file, that one is filled which
\* has no name any more.
FinishLink(c) ==
    /\ At(c, "linking", "meta")
    /\ exe' = IF exe # None /\ exe.by = c THEN [exe EXCEPT !.whole = TRUE] ELSE exe
    /\ UNCHANGED <<meta, objs, video, older, got, shared, cut>>

WriteMeta(c) ==
    /\ At(c, "meta", "video")
    /\ meta' = iso.sources
    /\ UNCHANGED <<exe, objs, video, older, got, shared, cut>>

-----------------------------------------------------------------------------
(* prepare_x264_input_data *)

DecoderRuns == exe # None /\ exe.whole

\* Mutant: a video that is there is used, whatever its time.
DecodedAnyTime(v) == video[v] # None /\ video[v].amount # "empty"

\* A part of a video counts as one.
Decoded(v) == video[v] # None /\ video[v].amount # "empty" /\ v \notin older

Skip(c) ==
    /\ At(c, "video", "populate")
    /\ Decoded(Data(c))
    /\ UNCHANGED <<stage, got, shared, cut>>

StartDecode(c) ==
    /\ At(c, "video", "decoding")
    /\ ~Decoded(Data(c))
    /\ DecoderRuns
    /\ \E amount \in {"empty", "part"} :
           video' = [video EXCEPT ![Data(c)] =
                        [decoder |-> exe.sources, bitstream |-> iso.bitstream, amount |-> amount, by |-> c]]
    /\ older' = older \ {Data(c)}
    /\ cut' = cut \ {Data(c)}
    /\ UNCHANGED <<exe, meta, objs, got, shared>>

\* There is no decoder that runs, no directory to write to, or one to work in
\* that a decoder of the same video is filling.
FailDecode(c) ==
    /\ At(c, "video", "refused")
    /\ ~Decoded(Data(c))
    /\ \/ ~DecoderRuns
       \/ \E d \in Cases : pc[d] = "clearing" \/ (pc[d] = "decoding" /\ Data(d) = Data(c))
    /\ UNCHANGED <<stage, got, shared, cut>>

FinishDecode(c) ==
    LET mine == video[Data(c)] # None /\ video[Data(c)].by = c
    IN  /\ At(c, "decoding", "populate")
        /\ video' = IF mine THEN [video EXCEPT ![Data(c)].amount = "whole"] ELSE video
        /\ UNCHANGED <<exe, meta, objs, older, got, shared, cut>>

-----------------------------------------------------------------------------
(* populate_x264_run_dir, after runsetup *)

Populate(c) ==
    /\ At(c, "populate", "packaged")
    /\ video[Data(c)] # None
    /\ got' = [got EXCEPT ![c] = video[Data(c)]]
    /\ UNCHANGED <<stage, shared, cut>>

FailPopulate(c) ==
    /\ At(c, "populate", "refused")
    /\ video[Data(c)] = None
    /\ UNCHANGED <<stage, got, shared, cut>>

\* A compiler, the decoder or runcpu fails, or the case is killed.
Mishap(c) ==
    /\ Active(c)
    /\ mishaps < MaxMishaps
    /\ mishaps' = mishaps + 1
    /\ pc' = [pc EXCEPT ![c] = "idle"]
    /\ cut' = IF pc[c] = "decoding" /\ video[Data(c)] # None /\ video[Data(c)].by = c
              THEN cut \cup {Data(c)} ELSE cut
    /\ UNCHANGED <<iso, stage, got, shared, runs, isos>>

Rest == runs = MaxRuns /\ (\A c \in Cases : ~Active(c)) /\ UNCHANGED x264Vars

X264Next ==
    \/ \E i \in Isos : PrepareWorkspace(i)
    \/ \E c \in Cases :
         \/ Begin(c) \/ Reuse(c) \/ StartClear(c) \/ FinishClear(c) \/ FailClear(c)
         \/ Compile(c) \/ StartLink(c) \/ FailLink(c) \/ FinishLink(c) \/ WriteMeta(c)
         \/ Skip(c) \/ StartDecode(c) \/ FailDecode(c) \/ FinishDecode(c)
         \/ Populate(c) \/ FailPopulate(c) \/ Mishap(c)
    \/ Rest

X264Spec == X264Init /\ [][X264Next]_x264Vars

-----------------------------------------------------------------------------
\* The video a case packages is whole, and what the decoder of this workspace
\* makes of the bitstream of this workspace, whatever was decoded before and
\* wherever other runs were stopped (prepare_x264_input_data); except for a
\* video that was left half written, which Decoded takes for finished, and for
\* cases that met in the directory.
PackagedVideoRight ==
    [][\A c \in Cases :
          pc[c] # "packaged" /\ pc'[c] = "packaged" =>
              \/ shared \/ Data(c) \in cut
              \/ /\ got'[c].amount = "whole"
                 /\ got'[c].decoder = iso.sources /\ got'[c].bitstream = iso.bitstream]_x264Vars

\* What stopped runs leave in the directory is never in the way: unless cases
\* have met there, no case is refused for it (build_x264_host_inputgen clears
\* what it cannot use, and writes the metadata last).
LeftoversHarmless ==
    [][\A c \in Cases : pc[c] # "refused" /\ pc'[c] = "refused" => shared]_x264Vars

===============================================================================
