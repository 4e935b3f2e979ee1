---------------------------- MODULE FirmwareImage ----------------------------
(***************************************************************************)
(* scripts/build-firmware-linux.sh as a process: successive invocations,   *)
(* each for a job of its own, over one workload build directory.  An       *)
(* invocation checks its parameters, rebuilds the dt/ directory, checks    *)
(* the device tree and the sizes of the components, and then writes the    *)
(* image with five dd commands, the first of which truncates the file.     *)
(* Any command may fail (set -e ends the script) and the script may be     *)
(* killed between any two commands or in the middle of one.                *)
(***************************************************************************)
EXTENDS FirmwareLayout, FiniteSets

CONSTANTS Jobs,     \* the invocations that may be asked for
          NoJob     \* nothing built yet

(***************************************************************************)
(* What an invocation is given.  dts is the template selected by           *)
(* DEFAULT_DTB and DTB_MEMORY_PROFILE as dts_extract_config reads it:      *)
(* "readable" says that it exists and has exactly one memory node and one  *)
(* CLINT node.  gcptTail classifies the bytes of gcpt.bin past its first   *)
(* MiB: a copy of fw_jump.bin, one of the two known "no payload"           *)
(* fallbacks, or anything else.  An unset memory bound is 0.  No component *)
(* is empty: they are a linked image, a blob with a header, and an archive *)
(* with a trailer.                                                         *)
(***************************************************************************)
DtsType == [readable : BOOLEAN, base : Nat, size : Nat, clint : Nat,
            cpus : Nat, reserved : BOOLEAN]

JobType == [multihart : BOOLEAN, dtbGiven : BOOLEAN, harts : Nat,
            dts : DtsType, minMemory : Nat, requiredMinMemory : Nat,
            gcpt : Nat, gcptTail : {"sbiCopy", "fallback8", "fallback24", "other"},
            sbi : Nat \ {0}, dtb : Nat \ {0}, kernel : Nat \ {0},
            cpio : Nat \ {0}]

ASSUME JobsAssumption == Jobs \subseteq JobType /\ NoJob \notin JobType

Component == {"gcpt", "dtb", "sbi", "kernel", "cpio"}

-----------------------------------------------------------------------------
(* The checks, in the order of the script *)

ParametersAccepted(j) ==
    j.multihart => /\ j.dtbGiven
                   /\ j.harts \in 2..MULTIHART_MAX_HARTS

TemplateAccepted(j) ==
    /\ j.dts.readable
    /\ j.multihart => /\ j.dts.base = MULTIHART_DRAM_BASE
                      /\ j.dts.clint = MULTIHART_CLINT

DtbCpuCountOK(j) == j.dts.cpus = IF j.multihart THEN j.harts ELSE 1

CheckpointReservationOK(j) == j.multihart => j.dts.reserved

\* Mutant: the required bound is forgotten.
DtbMinMemoryConfiguredOnly(j) == j.minMemory

\* The larger of the two bounds applies when the required one is set.
DtbMinMemory(j) ==
    IF j.requiredMinMemory # 0 /\ j.requiredMinMemory > j.minMemory
    THEN j.requiredMinMemory ELSE j.minMemory

JobInitramfsEnd(j) ==
    InitramfsEnd(j.multihart, j.dts.base, j.kernel, j.cpio)

DtbMemoryLayoutOK(j) ==
    /\ j.dts.size >= DtbMinMemory(j)
    /\ JobInitramfsEnd(j) <= j.dts.base + j.dts.size

GcptSizeOK(j) ==
    \/ j.gcpt <= SBI_OFFSET_KB * KILOBYTE
    \/ j.multihart /\ j.gcptTail \in {"sbiCopy", "fallback8"}
    \/ ~j.multihart /\ j.gcptTail = "fallback24"

SbiSizeOK(j) ==
    j.sbi <= (DtbOffsetKB(j.multihart) - SBI_OFFSET_KB) * KILOBYTE

\* Mutant: the device tree's size is not checked.
DtbSizeUnchecked(j) == TRUE

DtbSizeOK(j) == j.dtb <= DtbMaxSizeKB(j.multihart) * KILOBYTE

LayoutAccepted(j) ==
    /\ CheckpointReservationOK(j)
    /\ DtbCpuCountOK(j)
    /\ DtbMemoryLayoutOK(j)
    /\ GcptSizeOK(j)
    /\ SbiSizeOK(j)
    /\ DtbSizeOK(j)

-----------------------------------------------------------------------------
(* The bytes each dd command writes *)

\* Offset in the image, from the seek= operand.
Offset(j, c) ==
    CASE c = "gcpt"   -> 0
      [] c = "dtb"    -> DtbOffsetKB(j.multihart) * KILOBYTE
      [] c = "sbi"    -> SBI_OFFSET_KB * KILOBYTE
      [] c = "kernel" -> KernelOffsetKB(j.multihart, j.dts.base) * KILOBYTE
      [] c = "cpio"   -> InitramfsOffsetKB(j.multihart, j.dts.base, j.kernel) * KILOBYTE

\* Mutant: the first dd has no count= operand.
LengthUncut(j, c) ==
    CASE c = "gcpt"   -> j.gcpt
      [] c = "dtb"    -> j.dtb
      [] c = "sbi"    -> j.sbi
      [] c = "kernel" -> j.kernel
      [] c = "cpio"   -> j.cpio

\* GCPT alone is cut, by count=: what it embeds past 1 MiB is not packed.
Length(j, c) ==
    CASE c = "gcpt"   -> IF j.gcpt <= SBI_OFFSET_KB * KILOBYTE
                         THEN j.gcpt ELSE SBI_OFFSET_KB * KILOBYTE
      [] c = "dtb"    -> j.dtb
      [] c = "sbi"    -> j.sbi
      [] c = "kernel" -> j.kernel
      [] c = "cpio"   -> j.cpio

End(j, c) == Offset(j, c) + Length(j, c)

Disjoint(j, c, d) == End(j, c) <= Offset(j, d) \/ End(j, d) <= Offset(j, c)

\* The order of the dd commands.
DdOrder == <<"gcpt", "dtb", "sbi", "kernel", "cpio">>

-----------------------------------------------------------------------------
VARIABLES
    pc,       \* "idle", "parameters", "dt", "check" or "write"
    job,      \* the job of the running or of the last invocation
    step,     \* the dd command to run next, an index of DdOrder
    dt,       \* the job dt/ was built for, NoJob when it is incomplete
    image,    \* the output file
    exit      \* how the last invocation ended

vars == <<pc, job, step, dt, image, exit>>

(***************************************************************************)
(* image.of is the job that last truncated the file (NoJob: no file),      *)
(* image.whole the components of that job the file holds completely, and   *)
(* image.end the length of the file.                                       *)
(***************************************************************************)
ImageType == [of : Jobs \cup {NoJob}, whole : SUBSET Component, end : Nat]

Exits == {"none", "ok", "failed", "killed"}

Init ==
    /\ pc = "idle"
    /\ job = NoJob
    /\ step = 1
    /\ dt = NoJob
    /\ image = [of |-> NoJob, whole |-> {}, end |-> 0]
    /\ exit = "none"

Start(j) ==
    /\ pc = "idle"
    /\ pc' = "parameters"
    /\ job' = j
    /\ step' = 1
    /\ exit' = "none"
    /\ UNCHANGED <<dt, image>>

Exit(how) ==
    /\ pc' = "idle"
    /\ exit' = how

\* Lines 27-76: nothing has been touched when a parameter is refused.
CheckParameters ==
    /\ pc = "parameters"
    /\ IF ParametersAccepted(job) /\ TemplateAccepted(job)
       THEN pc' = "dt" /\ UNCHANGED exit
       ELSE Exit("failed")
    /\ UNCHANGED <<job, step, dt, image>>

\* Mutant: a failure of dtc does not end the script.
BuildDtUnchecked ==
    /\ pc = "dt"
    /\ \E built \in {job, NoJob} : dt' = built
    /\ pc' = "check"
    /\ UNCHANGED <<job, step, image, exit>>

\* rm -rf dt, sed, dtc.  dtc may reject the generated source.
BuildDt ==
    /\ pc = "dt"
    /\ \/ pc' = "check" /\ dt' = job /\ UNCHANGED exit
       \/ Exit("failed") /\ dt' = NoJob
    /\ UNCHANGED <<job, step, image>>

CheckLayout ==
    /\ pc = "check"
    /\ IF LayoutAccepted(job)
       THEN pc' = "write" /\ UNCHANGED exit
       ELSE Exit("failed")
    /\ UNCHANGED <<job, step, dt, image>>

-----------------------------------------------------------------------------
(* The dd commands *)

\* The components that c's bytes leave alone.
Surviving(c) == {d \in image.whole : Disjoint(job, c, d)}

ImageAfter(c) ==
    IF c = "gcpt"
    THEN [of |-> job, whole |-> {"gcpt"}, end |-> End(job, c)]
    ELSE [image EXCEPT !.whole = Surviving(c) \cup {c},
                       !.end = IF End(job, c) > @ THEN End(job, c) ELSE @]

\* dd stopped after `bytes' of component c.
ImageTorn(c, bytes) ==
    IF c = "gcpt"
    THEN [of |-> job, whole |-> {}, end |-> bytes]
    ELSE [image EXCEPT !.whole = Surviving(c) \ {c},
                       !.end = IF Offset(job, c) + bytes > @
                               THEN Offset(job, c) + bytes ELSE @]

\* Mutant: one dd command too many.
WriteComponentPastEnd ==
    /\ pc = "write"
    /\ image' = ImageAfter(DdOrder[step])
    /\ IF step = 6 THEN Exit("ok") /\ UNCHANGED step
                   ELSE step' = step + 1 /\ UNCHANGED <<pc, exit>>
    /\ UNCHANGED <<job, dt>>

WriteComponent ==
    /\ pc = "write"
    /\ image' = ImageAfter(DdOrder[step])
    /\ IF step = 5 THEN Exit("ok") /\ UNCHANGED step
                   ELSE step' = step + 1 /\ UNCHANGED <<pc, exit>>
    /\ UNCHANGED <<job, dt>>

\* Half of the component stands for any part of it.
TearComponent(how) ==
    /\ pc = "write"
    /\ image' = ImageTorn(DdOrder[step], Length(job, DdOrder[step]) \div 2)
    /\ Exit(how)
    /\ UNCHANGED <<job, step, dt>>

FailWrite == TearComponent("failed")

\* SIGKILL.  While dt/ is being rebuilt it is left incomplete.
Kill ==
    \/ TearComponent("killed")
    \/ /\ pc # "idle"
       /\ Exit("killed")
       /\ dt' = IF pc = "dt" THEN NoJob ELSE dt
       /\ UNCHANGED <<job, step, image>>

Next ==
    \/ \E j \in Jobs : Start(j)
    \/ CheckParameters
    \/ BuildDt
    \/ CheckLayout
    \/ WriteComponent
    \/ FailWrite
    \/ Kill

Spec == Init /\ [][Next]_vars

-----------------------------------------------------------------------------
(* Properties *)

TypeOK ==
    /\ pc \in {"idle", "parameters", "dt", "check", "write"}
    /\ job \in Jobs \cup {NoJob}
    /\ pc # "idle" => job \in Jobs
    /\ step \in 1..5
    /\ dt \in Jobs \cup {NoJob}
    /\ image \in ImageType
    /\ exit \in Exits

\* The device tree specifications shipped with the repository put DRAM at a
\* multiple of a KiB; the two divisions that compute seek= need it.
AlignedBase(j) == j.dts.base % KILOBYTE = 0

\* An invocation that exits 0 leaves a file that holds every component of
\* its job whole: no dd command has run over what an earlier one wrote, and
\* nothing is left of the image that was there before.  (The five dd
\* commands and the size checks before them.)
CompleteWhenOk ==
    exit = "ok" => /\ image.of = job
                   /\ image.whole = Component
                   /\ dt = job
                   /\ image.end = End(job, "cpio")

\* In the middle of an invocation too, what the dd commands have written so
\* far stays written: a later command never overlaps an earlier one.
NothingOverwritten ==
    pc = "write" /\ step > 1 =>
        /\ image.of = job
        /\ image.whole = {DdOrder[i] : i \in 1..(step - 1)}

\* Where OpenSBI jumps, where it takes the device tree from, where it is
\* linked to run, what the device tree says of the initramfs and what the
\* manifest publishes are all the addresses the image puts the components
\* at, once it is loaded at the base of DRAM.
AddressesAgree ==
    exit = "ok" =>
      LET base == job.dts.base
          At(c) == base + Offset(job, c)
          m == Manifest(job.multihart, base, job.kernel)
      IN  /\ At("sbi") = FwTextStart(job.multihart, base)
          /\ At("kernel") = FwJumpAddr(job.multihart, base)
          /\ At("dtb") = FwJumpFdtAddr(job.multihart, base)
          /\ At("cpio") = InitramfsBegin(job.multihart, base, job.kernel)
          /\ base + End(job, "cpio") = JobInitramfsEnd(job)
          /\ m = [gcpt |-> At("gcpt"), opensbi |-> At("sbi"),
                  opensbiJump |-> At("kernel"), dtb |-> At("dtb"),
                  kernel |-> At("kernel"), initramfs |-> At("cpio")]

\* A finished image fits the memory its device tree describes, which is at
\* least what the workload asked for, and a finished multi-hart image has
\* no byte of a component in the window its checkpoints are restored into.
InsideMemory ==
    exit = "ok" =>
      /\ \A c \in Component : End(job, c) <= job.dts.size
      /\ job.dts.size >= job.minMemory /\ job.dts.size >= job.requiredMinMemory
      /\ job.multihart =>
           \A c \in Component :
             \/ job.dts.base + End(job, c) <= CheckpointBegin
             \/ job.dts.base + Offset(job, c) >= CheckpointEnd

\* The output file is only ever touched for a job all of whose checks have
\* passed, with that job's device tree in dt/: a refused job leaves the
\* previous image as it was.
ImageTouchedAfterChecks ==
    [][image' # image =>
         /\ ParametersAccepted(job) /\ TemplateAccepted(job)
         /\ LayoutAccepted(job)
         /\ dt = job /\ image'.of = job]_vars

=============================================================================
