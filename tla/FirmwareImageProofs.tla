------------------------- MODULE FirmwareImageProofs -------------------------
(***************************************************************************)
(* For every set of jobs: an invocation that exits 0 leaves a complete     *)
(* image, no dd command destroys what an earlier one wrote, and the three  *)
(* scripts agree on the addresses.  For every set of templates: what the   *)
(* generator writes suits the packer and the harts.                        *)
(***************************************************************************)
EXTENDS DtsGenerator, FiniteSetTheorems, TLAPS

-----------------------------------------------------------------------------
(* Arithmetic *)

\* Aligning to the 2 MiB of a kernel, or to the MiB of an initramfs, moves an
\* address up by less than the alignment, to a multiple of it.
LEMMA AlignUpBounds ==
    ASSUME NEW a \in Nat, NEW n \in {MEGABYTE, 2 * MEGABYTE}
    PROVE  /\ AlignUp(a, n) \in Nat
           /\ AlignUp(a, n) >= a
           /\ AlignUp(a, n) < a + n
           /\ AlignUp(a, n) % MEGABYTE = 0
  <1>1. CASE n = MEGABYTE
    BY <1>1 DEF AlignUp, MEGABYTE, KILOBYTE
  <1>2. CASE n = 2 * MEGABYTE
    BY <1>2 DEF AlignUp, MEGABYTE, KILOBYTE
  <1> QED BY <1>1, <1>2

\* The multi-hart constants of build-sbi.sh are the general formulas at the
\* one DRAM base a multi-hart image may have.
LEMMA MultihartAddresses ==
    /\ FwTextStart(TRUE, MULTIHART_DRAM_BASE) = MULTIHART_DRAM_BASE + MEGABYTE
    /\ FwJumpAddr(TRUE, MULTIHART_DRAM_BASE) = KernelBegin(TRUE, MULTIHART_DRAM_BASE)
    /\ FwJumpFdtAddr(TRUE, MULTIHART_DRAM_BASE) = MULTIHART_DRAM_BASE + 2 * MEGABYTE
    /\ KernelBegin(TRUE, MULTIHART_DRAM_BASE) = CheckpointEnd
  BY DEF FwTextStart, FwJumpAddr, FwJumpFdtAddr, KernelBegin, CheckpointEnd,
         DtsLinuxKernelAddress, KernelMinOffsetMB, AlignUp,
         MULTIHART_DRAM_BASE, MEGABYTE, KILOBYTE

-----------------------------------------------------------------------------
(* Placement *)

\* What an invocation that reaches the dd commands has checked.
Accepted(j) == /\ ParametersAccepted(j)
               /\ TemplateAccepted(j)
               /\ LayoutAccepted(j)

\* The offsets and lengths of a job are natural numbers.
LEMMA ExtentTypes ==
    ASSUME NEW j \in JobType, NEW c \in Component
    PROVE  Offset(j, c) \in Nat /\ Length(j, c) \in Nat /\ End(j, c) \in Nat
  <1> DEFINE minOffset == KernelMinOffsetMB(j.multihart) * MEGABYTE
             kernel == KernelBegin(j.multihart, j.dts.base)
             initramfs == InitramfsBegin(j.multihart, j.dts.base, j.kernel)
  <1>1. /\ j.multihart \in BOOLEAN /\ j.dts.base \in Nat /\ j.kernel \in Nat
        /\ j.gcpt \in Nat /\ j.dtb \in Nat /\ j.sbi \in Nat /\ j.cpio \in Nat
    BY DEF JobType, DtsType
  <1>2. minOffset \in Nat
    BY <1>1 DEF KernelMinOffsetMB, MEGABYTE, KILOBYTE
  <1>3. kernel \in Nat /\ kernel >= j.dts.base
    BY <1>1, <1>2, AlignUpBounds DEF KernelBegin, DtsLinuxKernelAddress
  <1>4. initramfs \in Nat /\ initramfs >= kernel
    BY <1>1, <1>3, AlignUpBounds DEF InitramfsBegin
  <1> HIDE DEF kernel, initramfs
  <1>5. /\ (kernel - j.dts.base) \div KILOBYTE \in Nat
        /\ (initramfs - j.dts.base) \div KILOBYTE \in Nat
    BY <1>1, <1>3, <1>4 DEF KILOBYTE
  <1>6. Offset(j, c) \in Nat
    BY <1>1, <1>5 DEF Offset, Component, KernelOffsetKB, InitramfsOffsetKB, kernel,
       initramfs, DtbOffsetKB, SBI_OFFSET_KB, KILOBYTE
  <1>7. Length(j, c) \in Nat
    BY <1>1 DEF Length, Component, SBI_OFFSET_KB, KILOBYTE
  <1> QED BY <1>6, <1>7 DEF End

\* The size checks and the alignments place the components of an accepted
\* job one after the other.
LEMMA PlacedInOrder ==
    ASSUME NEW j \in JobType, Accepted(j)
    PROVE  /\ End(j, "gcpt") <= Offset(j, "sbi")
           /\ End(j, "sbi") <= Offset(j, "dtb")
           /\ End(j, "dtb") <= (IF j.multihart THEN 3 ELSE 2) * MEGABYTE
           /\ (IF j.multihart THEN 134 ELSE 2) * MEGABYTE <= Offset(j, "kernel")
           /\ End(j, "kernel") <= Offset(j, "cpio")
  <1>1. /\ j.multihart \in BOOLEAN /\ j.dts.base \in Nat /\ j.kernel \in Nat
        /\ j.gcpt \in Nat /\ j.dtb \in Nat /\ j.sbi \in Nat /\ j.cpio \in Nat
    BY DEF JobType, DtsType
  <1> DEFINE base == j.dts.base
             minOffset == (IF j.multihart THEN 134 ELSE 2) * MEGABYTE
             kernel == KernelBegin(j.multihart, base)
             initramfs == InitramfsBegin(j.multihart, base, j.kernel)
  <1>2. End(j, "gcpt") <= Offset(j, "sbi")
    BY <1>1 DEF End, Offset, Length, SBI_OFFSET_KB, KILOBYTE
  <1>3. End(j, "sbi") <= Offset(j, "dtb")
    BY <1>1 DEF End, Offset, Length, Accepted, LayoutAccepted, SbiSizeOK,
       SBI_OFFSET_KB, DtbOffsetKB, KILOBYTE
  <1>4. End(j, "dtb") <= (IF j.multihart THEN 3 ELSE 2) * MEGABYTE
    BY <1>1 DEF End, Offset, Length, Accepted, LayoutAccepted, DtbSizeOK,
       DtbMaxSizeKB, DtbOffsetKB, KILOBYTE, MEGABYTE
  <1>5. minOffset \in Nat /\ base + minOffset \in Nat
    BY <1>1 DEF MEGABYTE, KILOBYTE
  <1>6. kernel = AlignUp(base + minOffset, 2 * MEGABYTE)
    BY DEF KernelBegin, DtsLinuxKernelAddress, KernelMinOffsetMB
  <1>7. kernel \in Nat /\ kernel >= base + minOffset /\ kernel % MEGABYTE = 0
    BY <1>5, <1>6, AlignUpBounds
  <1>8. /\ initramfs \in Nat /\ initramfs >= kernel + j.kernel
        /\ initramfs % MEGABYTE = 0
    BY <1>1, <1>7, AlignUpBounds DEF InitramfsBegin
  <1> HIDE DEF kernel, initramfs
  <1>9. minOffset <= Offset(j, "kernel")
    <2>1. minOffset <= ((kernel - base) \div KILOBYTE) * KILOBYTE
      BY <1>1, <1>5, <1>7 DEF KILOBYTE, MEGABYTE
    <2> QED BY <2>1 DEF Offset, KernelOffsetKB, kernel
  <1>10. End(j, "kernel") <= Offset(j, "cpio")
    <2>1. ((kernel - base) \div KILOBYTE) * KILOBYTE + j.kernel
            <= ((initramfs - base) \div KILOBYTE) * KILOBYTE
      BY <1>1, <1>7, <1>8 DEF KILOBYTE, MEGABYTE
    <2> QED BY <2>1 DEF End, Offset, Length, KernelOffsetKB, InitramfsOffsetKB,
               kernel, initramfs
  <1> QED BY <1>2, <1>3, <1>4, <1>9, <1>10

-----------------------------------------------------------------------------
(* The inductive invariant *)

\* Every component of a job is disjoint from every other.
LEMMA AllDisjoint ==
    ASSUME NEW j \in JobType, Accepted(j),
           NEW c \in Component, NEW d \in Component, c # d
    PROVE  Disjoint(j, c, d)
  <1>1. \A e \in Component : /\ Offset(j, e) \in Nat /\ Length(j, e) \in Nat
                             /\ End(j, e) = Offset(j, e) + Length(j, e)
    BY ExtentTypes DEF End
  <1>2. 3 * MEGABYTE <= 134 * MEGABYTE /\ MEGABYTE \in Nat
    BY DEF MEGABYTE, KILOBYTE
  <1> QED BY <1>1, <1>2, PlacedInOrder DEF Disjoint, Component

\* The five dd commands one by one.
LEMMA DdSteps ==
    /\ DdOrder[1] = "gcpt" /\ DdOrder[2] = "dtb" /\ DdOrder[3] = "sbi"
    /\ DdOrder[4] = "kernel" /\ DdOrder[5] = "cpio"
    /\ \A i \in 1..5 : DdOrder[i] \in Component
    /\ \A i, k \in 1..5 : i # k => DdOrder[i] # DdOrder[k]
    /\ Component = {DdOrder[i] : i \in 1..5}
  BY DEF DdOrder, Component

\* Reaching a phase means having passed the checks before it; while the
\* image is being written it holds what the commands so far have written
\* and no more.
PhaseInv ==
    /\ pc # "idle" => exit = "none"
    /\ pc \in {"dt", "check", "write"} => ParametersAccepted(job) /\ TemplateAccepted(job)
    /\ pc \in {"check", "write"} => dt = job
    /\ pc = "write" => LayoutAccepted(job)
    /\ pc # "write" /\ pc # "idle" => step = 1

WritingInv ==
    pc = "write" /\ step > 1 =>
        /\ image.of = job
        /\ image.whole = {DdOrder[i] : i \in 1..(step - 1)}
        /\ step = 2 => image.end = End(job, "gcpt")
        /\ step \in {3, 4} => image.end = End(job, "dtb")
        /\ step = 5 => image.end = End(job, "kernel")

FinishedInv ==
    exit = "ok" => /\ job \in Jobs
                   /\ Accepted(job)
                   /\ image.of = job
                   /\ image.whole = Component
                   /\ dt = job
                   /\ image.end = End(job, "cpio")

IInv == TypeOK /\ PhaseInv /\ WritingInv /\ FinishedInv

LEMMA TornType ==
    ASSUME TypeOK, pc = "write", NEW c \in Component, NEW bytes \in Nat
    PROVE  ImageTorn(c, bytes) \in ImageType
  <1>1. job \in Jobs /\ Offset(job, c) \in Nat
    BY ExtentTypes, JobsAssumption DEF TypeOK
  <1> DEFINE rest == Surviving(c) \ {c}
             end == IF Offset(job, c) + bytes > image.end
                    THEN Offset(job, c) + bytes ELSE image.end
  <1>2. image \in ImageType /\ rest \in SUBSET Component /\ end \in Nat
    BY <1>1 DEF Surviving, TypeOK, ImageType
  <1>3. ImageTorn(c, bytes) = IF c = "gcpt"
                              THEN [of |-> job, whole |-> {}, end |-> bytes]
                              ELSE [image EXCEPT !.whole = rest, !.end = end]
    BY DEF ImageTorn
  <1> HIDE DEF rest, end
  <1>4. [of |-> job, whole |-> {}, end |-> bytes] \in ImageType
    BY <1>1 DEF ImageType
  <1>5. [image EXCEPT !.whole = rest, !.end = end] \in ImageType
    BY <1>2 DEF ImageType
  <1> QED BY <1>3, <1>4, <1>5

\* Every variable keeps its type: in particular the file's length stays a
\* natural number whatever is written or torn.
THEOREM TypeCorrect == Spec => []TypeOK
  <1>1. Init => TypeOK
    BY DEF Init, TypeOK, ImageType, Exits
  <1>2. TypeOK /\ [Next]_vars => TypeOK'
    <2> SUFFICES ASSUME TypeOK, [Next]_vars PROVE TypeOK'
      OBVIOUS
    <2> USE DEF TypeOK, ImageType, Exits
    <2>1. ASSUME NEW j \in Jobs, Start(j) PROVE TypeOK'
      BY <2>1 DEF Start
    <2>2. CASE CheckParameters
      BY <2>2 DEF CheckParameters, Exit
    <2>3. CASE BuildDt
      BY <2>3 DEF BuildDt, Exit
    <2>4. CASE CheckLayout
      BY <2>4 DEF CheckLayout, Exit
    <2>5. ASSUME pc = "write"
          PROVE  /\ job \in Jobs
                 /\ DdOrder[step] \in Component
                 /\ Offset(job, DdOrder[step]) \in Nat
                 /\ Length(job, DdOrder[step]) \in Nat
                 /\ End(job, DdOrder[step]) \in Nat
      BY <2>5, DdSteps, ExtentTypes, JobsAssumption
    <2>6. CASE WriteComponent
      <3>1. ImageAfter(DdOrder[step]) \in ImageType
        BY <2>5, <2>6 DEF WriteComponent, ImageAfter, Surviving, Component
      <3> QED BY <2>6, <3>1 DEF WriteComponent, Exit
    <2>7. ASSUME NEW how \in {"failed", "killed"}, TearComponent(how) PROVE TypeOK'
      <3>1. Length(job, DdOrder[step]) \div 2 \in Nat
        BY <2>5, <2>7 DEF TearComponent
      <3>2. ImageTorn(DdOrder[step], Length(job, DdOrder[step]) \div 2) \in ImageType
        BY <2>5, <2>7, <3>1, TornType DEF TearComponent
      <3> QED BY <2>7, <3>2 DEF TearComponent, Exit
    <2>8. CASE FailWrite
      BY <2>7, <2>8 DEF FailWrite
    <2>9. CASE Kill
      <3>1. CASE TearComponent("killed")
        BY <2>7, <3>1
      <3>2. CASE ~TearComponent("killed")
        BY <2>9, <3>2 DEF Kill, Exit
      <3> QED BY <3>1, <3>2
    <2>10. CASE UNCHANGED vars
      BY <2>10 DEF vars
    <2> QED BY <2>1, <2>2, <2>3, <2>4, <2>6, <2>8, <2>9, <2>10 DEF Next
  <1> QED BY <1>1, <1>2, PTL DEF Spec

\* What one dd command does to the file, given what the commands before it
\* have done: it adds its component and destroys nothing.
LEMMA WriteStep ==
    ASSUME TypeOK, PhaseInv, WritingInv, pc = "write"
    PROVE  LET after == ImageAfter(DdOrder[step])
           IN  /\ after.of = job
               /\ after.whole = {DdOrder[i] : i \in 1..step}
               /\ step = 1 => after.end = End(job, "gcpt")
               /\ step \in {2, 3} => after.end = End(job, "dtb")
               /\ step = 4 => after.end = End(job, "kernel")
               /\ step = 5 => after.end = End(job, "cpio")
  <1> DEFINE c == DdOrder[step]
  <1>1. /\ job \in Jobs /\ job \in JobType /\ Accepted(job) /\ step \in 1..5
        /\ image \in ImageType
    BY JobsAssumption DEF TypeOK, PhaseInv, Accepted
  <1>2. CASE step = 1
    <2>1. {DdOrder[i] : i \in 1..step} = {"gcpt"} /\ c = "gcpt"
      BY <1>2, DdSteps
    <2> QED BY <1>2, <2>1 DEF ImageAfter
  <1>3. CASE step > 1
    <2>1. /\ image.of = job
          /\ image.whole = {DdOrder[i] : i \in 1..(step - 1)}
          /\ step = 2 => image.end = End(job, "gcpt")
          /\ step \in {3, 4} => image.end = End(job, "dtb")
          /\ step = 5 => image.end = End(job, "kernel")
      BY <1>3 DEF WritingInv
    <2>2. c \in Component /\ c # "gcpt"
      BY <1>1, <1>3, DdSteps
    <2>3. \A d \in image.whole : d \in Component /\ d # c
      BY <1>1, <2>1, DdSteps
    <2>4. Surviving(c) = image.whole
      BY <1>1, <2>2, <2>3, AllDisjoint DEF Surviving, Disjoint
    <2>5. Surviving(c) \cup {c} = {DdOrder[i] : i \in 1..step}
      BY <1>1, <1>3, <2>1, <2>4
    <2>6. /\ ImageAfter(c).of = image.of
          /\ ImageAfter(c).whole = Surviving(c) \cup {c}
          /\ ImageAfter(c).end = IF End(job, c) > image.end THEN End(job, c) ELSE image.end
      BY <1>1, <2>2 DEF ImageAfter, ImageType
    <2>7. /\ \A d \in Component : End(job, d) \in Nat /\ Offset(job, d) \in Nat
                                  /\ Offset(job, d) <= End(job, d)
          /\ End(job, "gcpt") <= End(job, "dtb")
          /\ End(job, "sbi") <= End(job, "dtb")
          /\ End(job, "dtb") <= End(job, "kernel")
          /\ End(job, "kernel") <= End(job, "cpio")
      <3>1. \A d \in Component : /\ End(job, d) \in Nat /\ Offset(job, d) \in Nat
                                 /\ Offset(job, d) <= End(job, d)
        BY <1>1, ExtentTypes DEF End
      <3>2. 3 * MEGABYTE <= 134 * MEGABYTE /\ 3 * MEGABYTE \in Nat
            /\ 2 * MEGABYTE \in Nat /\ 134 * MEGABYTE \in Nat
        BY DEF MEGABYTE, KILOBYTE
      <3> QED BY <1>1, <3>1, <3>2, PlacedInOrder DEF Component
    <2>8. /\ step \in {2, 3} => ImageAfter(c).end = End(job, "dtb")
          /\ step = 4 => ImageAfter(c).end = End(job, "kernel")
          /\ step = 5 => ImageAfter(c).end = End(job, "cpio")
      BY <1>3, <2>1, <2>6, <2>7, DdSteps DEF Component
    <2> QED BY <1>3, <2>1, <2>5, <2>6, <2>8
  <1> QED BY <1>1, <1>2, <1>3

\* The invariant is inductive: one step per action.
LEMMA InductiveInvariant == Spec => []IInv
  <1>1. Init => IInv
    BY DEF Init, IInv, TypeOK, ImageType, Exits, PhaseInv, WritingInv, FinishedInv
  <1>2. TypeOK /\ TypeOK' /\ IInv /\ [Next]_vars => IInv'
    <2> SUFFICES ASSUME TypeOK, TypeOK', IInv, [Next]_vars PROVE IInv'
      OBVIOUS
    <2> SUFFICES PhaseInv' /\ WritingInv' /\ FinishedInv'
      BY DEF IInv
    <2> USE DEF IInv
    <2>1. ASSUME NEW j \in Jobs, Start(j) PROVE PhaseInv' /\ WritingInv' /\ FinishedInv'
      BY <2>1 DEF Start, PhaseInv, WritingInv, FinishedInv
    <2>2. CASE CheckParameters
      BY <2>2 DEF CheckParameters, Exit, PhaseInv, WritingInv, FinishedInv
    <2>3. CASE BuildDt
      BY <2>3 DEF BuildDt, Exit, PhaseInv, WritingInv, FinishedInv
    <2>4. CASE CheckLayout
      BY <2>4 DEF CheckLayout, Exit, PhaseInv, WritingInv, FinishedInv
    <2>5. CASE WriteComponent
      <3> DEFINE after == ImageAfter(DdOrder[step])
      <3>1. /\ image' = after
            /\ after.of = job
            /\ after.whole = {DdOrder[i] : i \in 1..step}
            /\ step = 1 => after.end = End(job, "gcpt")
            /\ step \in {2, 3} => after.end = End(job, "dtb")
            /\ step = 4 => after.end = End(job, "kernel")
            /\ step = 5 => after.end = End(job, "cpio")
        BY <2>5, WriteStep DEF WriteComponent
      <3> HIDE DEF after
      <3>2. step \in 1..5 /\ job' = job /\ dt' = dt /\ pc = "write" /\ job \in Jobs
        BY <2>5 DEF WriteComponent, TypeOK
      <3>3. CASE step = 5
        <4>1. pc' = "idle" /\ exit' = "ok" /\ step' = step
          BY <2>5, <3>3 DEF WriteComponent, Exit
        <4>2. after.whole = Component
          BY <3>1, <3>3, DdSteps
        <4> QED BY <3>1, <3>2, <3>3, <4>1, <4>2
                DEF PhaseInv, WritingInv, FinishedInv, Accepted
      <3>4. CASE step # 5
        <4>1. pc' = "write" /\ exit' = exit /\ step' = step + 1 /\ (step + 1) - 1 = step
          BY <2>5, <3>2, <3>4 DEF WriteComponent
        <4>2. PhaseInv' /\ FinishedInv'
          BY <3>2, <4>1 DEF PhaseInv, FinishedInv
        <4>3. WritingInv'
          BY <3>1, <3>2, <3>4, <4>1 DEF WritingInv
        <4> QED BY <4>2, <4>3
      <3> QED BY <3>3, <3>4
    <2>6. ASSUME NEW how \in {"failed", "killed"}, TearComponent(how)
          PROVE PhaseInv' /\ WritingInv' /\ FinishedInv'
      BY <2>6 DEF TearComponent, Exit, PhaseInv, WritingInv, FinishedInv
    <2>7. CASE FailWrite
      BY <2>6, <2>7 DEF FailWrite
    <2>8. CASE Kill
      <3>1. CASE TearComponent("killed")
        BY <2>6, <3>1
      <3>2. CASE ~TearComponent("killed")
        BY <2>8, <3>2 DEF Kill, Exit, PhaseInv, WritingInv, FinishedInv
      <3> QED BY <3>1, <3>2
    <2>9. CASE UNCHANGED vars
      BY <2>9 DEF vars, PhaseInv, WritingInv, FinishedInv
    <2> QED BY <2>1, <2>2, <2>3, <2>4, <2>5, <2>7, <2>8, <2>9 DEF Next
  <1> QED BY <1>1, <1>2, TypeCorrect, PTL DEF Spec

-----------------------------------------------------------------------------
(* The theorems *)

\* Whatever ran and was killed before in the same directory, an invocation
\* that exits 0 leaves the complete image of its own job.
THEOREM ImageComplete == Spec => []CompleteWhenOk
  <1>1. IInv => CompleteWhenOk
    BY DEF IInv, FinishedInv, CompleteWhenOk
  <1> QED BY <1>1, InductiveInvariant, PTL

\* No dd command overlaps what an earlier one of the same image wrote.
THEOREM NoDdOverlaps == Spec => []NothingOverwritten
  <1>1. IInv => NothingOverwritten
    BY DEF IInv, WritingInv, NothingOverwritten
  <1> QED BY <1>1, InductiveInvariant, PTL

\* A finished image fits the memory of its device tree, and leaves the
\* checkpoint window of a multi-hart image alone.
THEOREM ImageInsideMemory == Spec => []InsideMemory
  <1>1. ASSUME IInv, exit = "ok"
        PROVE  /\ \A c \in Component : End(job, c) <= job.dts.size
               /\ job.dts.size >= job.minMemory /\ job.dts.size >= job.requiredMinMemory
               /\ job.multihart =>
                    \A c \in Component :
                      \/ job.dts.base + End(job, c) <= CheckpointBegin
                      \/ job.dts.base + Offset(job, c) >= CheckpointEnd
    <2>1. job \in JobType /\ Accepted(job)
      BY <1>1, JobsAssumption DEF IInv, FinishedInv
    <2>2. /\ job.dts.base \in Nat /\ job.dts.size \in Nat /\ job.kernel \in Nat
          /\ job.cpio \in Nat /\ job.minMemory \in Nat /\ job.requiredMinMemory \in Nat
          /\ job.multihart \in BOOLEAN
      BY <2>1 DEF JobType, DtsType
    <2>3. \A d \in Component : /\ End(job, d) \in Nat /\ Offset(job, d) \in Nat
                               /\ Offset(job, d) <= End(job, d)
      BY <2>1, ExtentTypes DEF End
    <2>4. job.dts.size >= job.minMemory /\ job.dts.size >= job.requiredMinMemory
      BY <2>1, <2>2 DEF Accepted, LayoutAccepted, DtbMemoryLayoutOK, DtbMinMemory
    <2>5. End(job, "cpio") <= job.dts.size
      <3> DEFINE initramfs == InitramfsBegin(job.multihart, job.dts.base, job.kernel)
                 kernel == KernelBegin(job.multihart, job.dts.base)
                 minOffset == KernelMinOffsetMB(job.multihart) * MEGABYTE
      <3>1. minOffset \in Nat
        BY <2>2 DEF KernelMinOffsetMB, MEGABYTE, KILOBYTE
      <3>2. kernel \in Nat /\ kernel >= job.dts.base
        BY <2>2, <3>1, AlignUpBounds DEF KernelBegin, DtsLinuxKernelAddress
      <3>3. initramfs \in Nat /\ initramfs >= job.dts.base
        BY <2>2, <3>2, AlignUpBounds DEF InitramfsBegin
      <3>4. initramfs + job.cpio <= job.dts.base + job.dts.size
        BY <2>1 DEF Accepted, LayoutAccepted, DtbMemoryLayoutOK, JobInitramfsEnd,
           InitramfsEnd
      <3> HIDE DEF initramfs
      <3>5. ((initramfs - job.dts.base) \div KILOBYTE) * KILOBYTE + job.cpio <= job.dts.size
        BY <2>2, <3>3, <3>4 DEF KILOBYTE
      <3> QED BY <3>5 DEF End, Offset, Length, InitramfsOffsetKB, initramfs
    <2>6. 3 * MEGABYTE \in Nat /\ 2 * MEGABYTE \in Nat /\ 134 * MEGABYTE \in Nat
          /\ 2 * MEGABYTE <= 3 * MEGABYTE /\ 3 * MEGABYTE <= 134 * MEGABYTE
      BY DEF MEGABYTE, KILOBYTE
    <2>7. /\ End(job, "gcpt") <= End(job, "dtb") /\ End(job, "sbi") <= End(job, "dtb")
          /\ End(job, "dtb") <= End(job, "kernel")
          /\ End(job, "kernel") <= Offset(job, "cpio")
          /\ Offset(job, "kernel") <= Offset(job, "cpio")
          /\ End(job, "kernel") <= End(job, "cpio")
      BY <2>1, <2>3, <2>6, PlacedInOrder DEF Component
    <2>8. \A c \in Component : End(job, c) <= job.dts.size
      BY <2>2, <2>3, <2>5, <2>7 DEF Component
    <2>9. ASSUME job.multihart, NEW c \in Component
          PROVE  \/ job.dts.base + End(job, c) <= CheckpointBegin
                 \/ job.dts.base + Offset(job, c) >= CheckpointEnd
      <3>1. job.dts.base = MULTIHART_DRAM_BASE /\ MULTIHART_DRAM_BASE \in Nat
        BY <2>1, <2>9 DEF Accepted, TemplateAccepted, MULTIHART_DRAM_BASE, KILOBYTE
      <3>2. End(job, "dtb") <= 3 * MEGABYTE /\ 134 * MEGABYTE <= Offset(job, "kernel")
        BY <2>1, <2>9, PlacedInOrder
      <3> QED BY <2>3, <2>6, <2>7, <3>1, <3>2 DEF Component, CheckpointBegin, CheckpointEnd
    <2> QED BY <2>4, <2>8, <2>9
  <1>2. IInv => InsideMemory
    BY <1>1 DEF InsideMemory
  <1> QED BY <1>2, InductiveInvariant, PTL

\* A refused job leaves the previous image as it was.
THEOREM ImageTouchedOnlyAfterChecks == Spec => ImageTouchedAfterChecks
  <1>1. IInv /\ [Next]_vars =>
          [image' # image => /\ ParametersAccepted(job) /\ TemplateAccepted(job)
                             /\ LayoutAccepted(job)
                             /\ dt = job /\ image'.of = job]_vars
    <2> SUFFICES ASSUME IInv, [Next]_vars, image' # image
                 PROVE  /\ pc = "write"
                        /\ image'.of = job
      BY DEF IInv, PhaseInv
    <2>1. ASSUME pc = "write", NEW c \in Component, c = DdOrder[step],
                 NEW bytes
          PROVE  ImageAfter(c).of = job /\ ImageTorn(c, bytes).of = job
      <3>1. c # "gcpt" => image.of = job
        BY <2>1, DdSteps DEF IInv, TypeOK, WritingInv
      <3>2. image \in ImageType
        BY DEF IInv, TypeOK
      <3> QED BY <3>1, <3>2 DEF ImageAfter, ImageTorn, ImageType
    <2>2. pc = "write" => DdOrder[step] \in Component
      BY DdSteps DEF IInv, TypeOK
    <2>3. CASE WriteComponent
      BY <2>1, <2>2, <2>3 DEF WriteComponent
    <2>4. ASSUME NEW how, TearComponent(how) PROVE pc = "write" /\ image'.of = job
      BY <2>1, <2>2, <2>4 DEF TearComponent
    <2> QED BY <2>3, <2>4 DEF Next, Start, CheckParameters, BuildDt, CheckLayout,
               FailWrite, Kill, vars
  <1> QED BY <1>1, InductiveInvariant, PTL DEF Spec, ImageTouchedAfterChecks

\* The kernel address OpenSBI jumps to, the address it takes the device tree
\* from, the range the device tree gives for the initramfs and the manifest
\* are where the image has the components, when DRAM starts at a multiple
\* of a KiB.
THEOREM ScriptsAgree ==
    ASSUME \A j \in Jobs : AlignedBase(j)
    PROVE  Spec => []AddressesAgree
  <1>1. ASSUME IInv, exit = "ok" PROVE AddressesAgree
    <2> DEFINE base == job.dts.base
               At(c) == base + Offset(job, c)
               m == Manifest(job.multihart, base, job.kernel)
               kernel == KernelBegin(job.multihart, base)
               initramfs == InitramfsBegin(job.multihart, base, job.kernel)
               minOffset == KernelMinOffsetMB(job.multihart) * MEGABYTE
    <2>1. job \in Jobs /\ job \in JobType /\ Accepted(job)
      BY <1>1, JobsAssumption DEF IInv, FinishedInv
    <2>2. /\ base \in Nat /\ base % KILOBYTE = 0 /\ job.kernel \in Nat
          /\ job.cpio \in Nat /\ job.multihart \in BOOLEAN
      BY <2>1 DEF JobType, DtsType, AlignedBase
    <2>3. minOffset \in Nat
      BY <2>2 DEF KernelMinOffsetMB, MEGABYTE, KILOBYTE
    <2>4. kernel \in Nat /\ kernel >= base /\ kernel % MEGABYTE = 0
      BY <2>2, <2>3, AlignUpBounds DEF KernelBegin, DtsLinuxKernelAddress
    <2>5. initramfs \in Nat /\ initramfs >= base /\ initramfs % MEGABYTE = 0
      BY <2>2, <2>4, AlignUpBounds DEF InitramfsBegin
    <2>6. job.multihart => base = MULTIHART_DRAM_BASE
      BY <2>1 DEF Accepted, TemplateAccepted
    <2>7. At("kernel") = kernel
      <3> HIDE DEF kernel
      <3>1. base + ((kernel - base) \div KILOBYTE) * KILOBYTE = kernel
        BY <2>2, <2>4 DEF KILOBYTE, MEGABYTE
      <3> QED BY <3>1 DEF Offset, KernelOffsetKB, kernel
    <2>8. At("cpio") = initramfs
      <3> HIDE DEF initramfs
      <3>1. base + ((initramfs - base) \div KILOBYTE) * KILOBYTE = initramfs
        BY <2>2, <2>5 DEF KILOBYTE, MEGABYTE
      <3> QED BY <3>1 DEF Offset, InitramfsOffsetKB, initramfs
    <2>9. base + End(job, "cpio") = JobInitramfsEnd(job)
      <3> HIDE DEF initramfs
      <3>1. Offset(job, "cpio") \in Nat /\ End(job, "cpio") = Offset(job, "cpio") + job.cpio
        BY <2>1, ExtentTypes DEF Component, End, Length
      <3>2. JobInitramfsEnd(job) = initramfs + job.cpio
        BY DEF JobInitramfsEnd, InitramfsEnd, initramfs
      <3> QED BY <2>2, <2>8, <3>1, <3>2
    <2>10. At("gcpt") = base /\ At("sbi") = base + MEGABYTE
           /\ At("dtb") = base + (IF job.multihart THEN 2048 ELSE 1792) * KILOBYTE
      BY <2>2 DEF Offset, SBI_OFFSET_KB, DtbOffsetKB, MEGABYTE, KILOBYTE
    <2>11. At("sbi") = FwTextStart(job.multihart, base)
      BY <2>6, <2>10, MultihartAddresses DEF FwTextStart
    <2>12. At("kernel") = FwJumpAddr(job.multihart, base)
      <3>1. CASE job.multihart
        BY <2>2, <2>6, <2>7, <3>1, MultihartAddresses
      <3>2. CASE ~job.multihart
        BY <2>2, <2>7, <3>2 DEF FwJumpAddr, KernelBegin, KernelMinOffsetMB
      <3> QED BY <3>1, <3>2
    <2>13. At("dtb") = FwJumpFdtAddr(job.multihart, base)
      <3>1. CASE job.multihart
        BY <2>2, <2>6, <2>10, <3>1, MultihartAddresses DEF FwJumpFdtAddr, MEGABYTE, KILOBYTE
      <3>2. CASE ~job.multihart
        BY <2>2, <2>10, <3>2 DEF FwJumpFdtAddr
      <3> QED BY <3>1, <3>2
    <2>14. m = [gcpt |-> At("gcpt"), opensbi |-> At("sbi"),
                opensbiJump |-> At("kernel"), dtb |-> At("dtb"),
                kernel |-> At("kernel"), initramfs |-> At("cpio")]
      <3>1. DtsLinuxKernelAddress(base, (IF job.multihart THEN 134 ELSE 2) * MEGABYTE) = kernel
        BY DEF KernelBegin, KernelMinOffsetMB
      <3>2. AlignUp(kernel + job.kernel, MEGABYTE) = initramfs
        BY DEF InitramfsBegin
      <3>3. (IF job.multihart THEN 2 * MEGABYTE ELSE 1792 * KILOBYTE)
              = (IF job.multihart THEN 2048 ELSE 1792) * KILOBYTE
        BY DEF MEGABYTE, KILOBYTE
      <3> HIDE DEF kernel, initramfs, At
      <3>4. m = [gcpt |-> base, opensbi |-> base + MEGABYTE, opensbiJump |-> kernel,
                 dtb |-> base + (IF job.multihart THEN 2048 ELSE 1792) * KILOBYTE,
                 kernel |-> kernel, initramfs |-> initramfs]
        BY <3>1, <3>2, <3>3 DEF Manifest
      <3> QED BY <2>7, <2>8, <2>10, <3>4
    <2> QED BY <2>8, <2>9, <2>11, <2>12, <2>13, <2>14 DEF AddressesAgree
  <1>2. IInv => AddressesAgree
    BY <1>1 DEF AddressesAgree
  <1> QED BY <1>2, InductiveInvariant, PTL

-----------------------------------------------------------------------------
(* The generator *)

\* A sequence of names with as many different ones as it is long has none
\* twice: what dtc asks of the labels and of the interrupt controllers.
LEMMA NoneTwice ==
    ASSUME NEW n \in Nat, NEW f, f = [i \in 1..n |-> f[i]],
           Cardinality({f[i] : i \in 1..n}) = n,
           NEW i \in 1..n, NEW j \in 1..n, f[i] = f[j]
    PROVE  i = j
  <1> DEFINE T == {f[k] : k \in 1..n}
  <1>1. IsFiniteSet(1..n) /\ Cardinality(1..n) = n
    <2>1. 1 \in Int /\ n \in Int
      OBVIOUS
    <2>2. IsFiniteSet(1..n) /\ Cardinality(1..n) = IF 1 > n THEN 0 ELSE n - 1 + 1
      BY <2>1, FS_Interval, Zenon
    <2> QED BY <2>2
  <1>2. f \in Surjection(1..n, T)
    BY DEF Surjection
  <1>3. f \in Injection(1..n, T)
    BY <1>1, <1>2, FS_SurjSameCardinalityImpliesInj
  <1> QED BY <1>3 DEF Injection, IsInjective

LEMMA Concatenated ==
    ASSUME NEW S, NEW s \in Seq(S), NEW t \in Seq(S)
    PROVE  /\ s \o t \in Seq(S) /\ Len(s \o t) = Len(s) + Len(t)
           /\ \A i \in 1..Len(s) : (s \o t)[i] = s[i]
           /\ \A i \in 1..Len(t) : (s \o t)[Len(s) + i] = t[i]
  OBVIOUS

\* The CPU nodes that render writes: the edited cpu0, a copy of it for every
\* other hart, and the other CPU nodes of the base, which it has not looked at.
LEMMA RenderedCpus ==
    ASSUME NEW base \in Bases, NEW harts \in Nat, harts >= 2, NEW gib
    PROVE  LET cpus == Render(base, harts, gib).cpus
               cpu0 == PrepareMultihartCpuIsa(base.cpus[1])
           IN  /\ DOMAIN cpus = 1..Len(cpus)
               /\ Len(cpus) = harts + Len(base.cpus) - 1
               /\ cpus[1] = cpu0
               /\ \A i \in 2..harts : cpus[i] = CpuNode(cpu0, i - 1)
               /\ Len(base.cpus) > 1 => cpus[harts + 1] = base.cpus[2]
  <1> DEFINE cpu0 == PrepareMultihartCpuIsa(base.cpus[1])
             copies == [h \in 1..(harts - 1) |-> CpuNode(cpu0, h)]
             rest == Tail(base.cpus)
             Any == CpuNodes \cup {cpu0} \cup {CpuNode(cpu0, h) : h \in 1..(harts - 1)}
             first == <<cpu0>> \o copies
             cpus == first \o rest
  <1>1. base.cpus \in Seq(CpuNodes) /\ Len(base.cpus) \in Nat /\ Len(base.cpus) > 0
    BY BasesAssumption
  <1>2. Head(base.cpus) = base.cpus[1]
    BY <1>1
  <1>3. base.cpus \in Seq(Any)
    BY <1>1
  <1>4. /\ rest \in Seq(Any) /\ Len(rest) = Len(base.cpus) - 1
        /\ Len(base.cpus) > 1 => rest[1] = base.cpus[2]
    <2> HIDE DEF Any
    <2> QED BY <1>1, <1>3
  <1>5. copies \in Seq(Any) /\ Len(copies) = harts - 1
    OBVIOUS
  <1>6. <<cpu0>> \in Seq(Any) /\ Len(<<cpu0>>) = 1
    OBVIOUS
  <1>7. /\ first \in Seq(Any) /\ Len(first) = harts /\ first[1] = cpu0
        /\ \A i \in 2..harts : first[i] = copies[i - 1]
    <2> HIDE DEF Any, copies, cpu0
    <2> QED BY <1>5, <1>6
  <1>8. /\ cpus \in Seq(Any) /\ Len(cpus) = harts + Len(base.cpus) - 1
        /\ \A i \in 1..harts : cpus[i] = first[i]
        /\ Len(base.cpus) > 1 => cpus[harts + 1] = base.cpus[2]
    <2> HIDE DEF Any, first, rest
    <2>1. /\ cpus \in Seq(Any) /\ Len(cpus) = Len(first) + Len(rest)
          /\ \A i \in 1..Len(first) : cpus[i] = first[i]
          /\ \A i \in 1..Len(rest) : cpus[Len(first) + i] = rest[i]
      <3>1. first \in Seq(Any) /\ rest \in Seq(Any)
        BY <1>4, <1>7
      <3> QED BY <3>1, Concatenated
    <2>2. Len(base.cpus) > 1 => 1 \in 1..Len(rest)
      BY <1>1, <1>4
    <2> HIDE DEF cpus
    <2> QED BY <1>1, <1>4, <1>7, <2>1, <2>2
  <1>9. \A i \in 2..harts : cpus[i] = CpuNode(cpu0, i - 1)
    <2> TAKE i \in 2..harts
    <2>1. i \in 1..harts /\ i - 1 \in 1..(harts - 1)
      OBVIOUS
    <2> HIDE DEF cpus, first, CpuNode, cpu0
    <2> QED BY <1>7, <1>8, <2>1
  <1>10. cpus[1] = cpu0
    <2> HIDE DEF cpus, first, cpu0
    <2> QED BY <1>7, <1>8
  <1>11. DOMAIN cpus = 1..Len(cpus)
    <2> HIDE DEF cpus, Any
    <2> QED BY <1>8
  <1>12. Render(base, harts, gib).cpus = cpus
    BY <1>2 DEF Render
  <1> QED BY <1>8, <1>9, <1>10, <1>11, <1>12

\* The edits of one CPU node.
LEMMA EditedNode ==
    ASSUME NEW node \in CpuNodes
    PROVE  LET edited == PrepareMultihartCpuIsa(node)
           IN  /\ edited \in CpuNodes /\ ~edited.sstc /\ edited.reg = node.reg
               /\ edited.intc = node.intc /\ edited.hex = node.hex
  BY DEF PrepareMultihartCpuIsa, CpuNodes

LEMMA CopiedNode ==
    ASSUME NEW node \in CpuNodes, ~node.sstc, NEW hart
    PROVE  LET copy == CpuNode(node, hart)
           IN  /\ copy.label = hart /\ ~copy.sstc
               /\ copy.intc = IF node.intc = Intc(0) THEN Intc(hart) ELSE node.intc
               /\ node.hex => copy.reg = hart
  BY DEF CpuNode, CpuNodes

\* A template that compiles has been made from one of a single hart, and its
\* harts have the interrupt controllers that the generator numbers.
LEMMA CompiledCpus ==
    ASSUME NEW base \in Bases, base.tabs, NEW harts \in Nat, harts >= 2, NEW gib,
           Compiles(Render(base, harts, gib))
    PROVE  LET cpus == Render(base, harts, gib).cpus
           IN  /\ Len(base.cpus) = 1 /\ Len(cpus) = harts
               /\ base.cpus[1].intc = Intc(0)
               /\ \A i \in 1..harts : cpus[i].intc = Intc(i - 1) /\ ~cpus[i].sstc
               /\ base.cpus[1].hex => \A i \in 1..harts : cpus[i].reg = i - 1
  <1> DEFINE tree == Render(base, harts, gib)
             cpus == tree.cpus
             cpu0 == PrepareMultihartCpuIsa(base.cpus[1])
             n == Len(cpus)
             label == [i \in 1..n |-> cpus[i].label]
             intc == [i \in 1..n |-> cpus[i].intc]
  <1>0. base.cpus \in Seq(CpuNodes) /\ Len(base.cpus) \in Nat /\ Len(base.cpus) > 0
    BY BasesAssumption
  <1>1. \A i \in 1..Len(base.cpus) : /\ base.cpus[i] \in CpuNodes
                                    /\ base.cpus[i].label = i - 1
                                    /\ base.cpus[i].reg = i - 1
    BY <1>0, NumberedAssumption
  <1>2. /\ DOMAIN cpus = 1..n /\ n = harts + Len(base.cpus) - 1 /\ cpus[1] = cpu0
        /\ \A i \in 2..harts : cpus[i] = CpuNode(cpu0, i - 1)
        /\ Len(base.cpus) > 1 => cpus[harts + 1] = base.cpus[2]
    BY RenderedCpus
  <1>3. /\ cpu0 \in CpuNodes /\ ~cpu0.sstc /\ cpu0.reg = 0
        /\ cpu0.intc = base.cpus[1].intc /\ cpu0.hex = base.cpus[1].hex
    <2>1. 1 \in 1..Len(base.cpus)
      BY <1>0
    <2>2. base.cpus[1] \in CpuNodes /\ base.cpus[1].reg = 0
      BY <1>1, <2>1
    <2> QED BY <2>2, EditedNode
  <1> HIDE DEF cpu0, tree
  <1>4. \A i \in 2..harts : /\ cpus[i].label = i - 1 /\ ~cpus[i].sstc
                            /\ cpus[i].intc = IF cpu0.intc = Intc(0) THEN Intc(i - 1) ELSE cpu0.intc
                            /\ cpu0.hex => cpus[i].reg = i - 1
    BY <1>2, <1>3, CopiedNode
  <1>5. n \in Nat /\ 2 \in 1..n /\ 1 \in 1..n /\ harts \in 1..n /\ 2 \in 2..harts
    BY <1>0, <1>2
  <1>6. /\ Cardinality({cpus[i].label : i \in 1..n}) = n
        /\ Cardinality({cpus[i].intc : i \in 1..n}) = n
    BY <1>2 DEF Compiles, tree
  <1>7. Cardinality({label[i] : i \in 1..n}) = n /\ Cardinality({intc[i] : i \in 1..n}) = n
    <2>1. /\ {label[i] : i \in 1..n} = {cpus[i].label : i \in 1..n}
          /\ {intc[i] : i \in 1..n} = {cpus[i].intc : i \in 1..n}
      OBVIOUS
    <2> QED BY <1>6, <2>1
  <1>8. \A i, j \in 1..n : cpus[i].label = cpus[j].label => i = j
    <2>1. label = [i \in 1..n |-> label[i]] /\ \A i \in 1..n : label[i] = cpus[i].label
      OBVIOUS
    <2> HIDE DEF label, n, cpus
    <2> QED BY <1>5, <1>7, <2>1, NoneTwice
  <1>9. \A i, j \in 1..n : cpus[i].intc = cpus[j].intc => i = j
    <2>1. intc = [i \in 1..n |-> intc[i]] /\ \A i \in 1..n : intc[i] = cpus[i].intc
      OBVIOUS
    <2> HIDE DEF intc, n, cpus
    <2> QED BY <1>5, <1>7, <2>1, NoneTwice
  <1> HIDE DEF cpus, n
  <1>10. Len(base.cpus) = 1
    <2>1. ASSUME Len(base.cpus) > 1 PROVE FALSE
      <3>1. harts + 1 \in 1..n /\ 2 \in 1..Len(base.cpus)
        BY <1>0, <1>2, <2>1
      <3>2. cpus[harts + 1].label = 1
        BY <1>1, <1>2, <2>1, <3>1
      <3>3. cpus[2].label = 1
        BY <1>4, <1>5
      <3>4. harts + 1 = 2
        BY <1>5, <1>8, <3>1, <3>2, <3>3
      <3> QED BY <3>4
    <2> DEFINE m == Len(base.cpus)
    <2>2. m \in Nat /\ m > 0 /\ ~(m > 1)
      BY <1>0, <2>1
    <2> HIDE DEF m
    <2>3. m = 1
      BY <2>2
    <2> QED BY <2>3 DEF m
  <1>11. cpu0.intc = Intc(0)
    <2> SUFFICES ASSUME cpu0.intc # Intc(0) PROVE FALSE
      OBVIOUS
    <2>1. cpus[2].intc = cpus[1].intc
      BY <1>2, <1>4, <1>5
    <2> QED BY <1>5, <1>9, <2>1
  <1>12. \A i \in 1..harts : /\ cpus[i].intc = Intc(i - 1) /\ ~cpus[i].sstc
                             /\ cpu0.hex => cpus[i].reg = i - 1
    <2> TAKE i \in 1..harts
    <2>1. CASE i = 1
      BY <1>2, <1>3, <1>11, <2>1
    <2>2. CASE i # 1
      <3>1. i \in 2..harts
        BY <2>2
      <3> QED BY <1>4, <1>11, <3>1
    <2> QED BY <2>1, <2>2
  <1> QED BY <1>2, <1>3, <1>10, <1>11, <1>12 DEF cpus, n, tree

\* A list that is written as for a single hart gets every hart.
LEMMA ExtendedList ==
    ASSUME NEW irqs \in Expected, NEW harts \in Nat, NEW h \in 1..harts
    PROVE  LET list == Extended([i \in DOMAIN irqs |-> <<Intc(0), irqs[i]>>], harts)
           IN  \E n \in DOMAIN list : list[n][1] = Intc(h - 1)
  <1> DEFINE single == [i \in DOMAIN irqs |-> <<Intc(0), irqs[i]>>]
             matching == {x \in Expected : single = InterruptList(1, x)}
             chosen == CHOOSE x \in matching : TRUE
             list == Extended(single, harts)
  <1>1. irqs \in matching
    <2>1. Len(irqs) \in {1, 2} /\ DOMAIN irqs = 1..Len(irqs)
      BY DEF Expected
    <2>2. ASSUME NEW n \in 1..Len(irqs)
          PROVE  (n - 1) \div Len(irqs) = 0 /\ ((n - 1) % Len(irqs)) + 1 = n
      <3>1. CASE Len(irqs) = 1
        BY <3>1
      <3>2. CASE Len(irqs) = 2
        BY <3>2
      <3> QED BY <2>1, <3>1, <3>2
    <2>3. 1 * Len(irqs) = Len(irqs)
      <3>1. CASE Len(irqs) = 1
        BY <3>1
      <3>2. CASE Len(irqs) = 2
        BY <3>2
      <3> QED BY <2>1, <3>1, <3>2
    <2> QED BY <2>1, <2>2, <2>3 DEF InterruptList
  <1>2. chosen \in matching
    BY <1>1
  <1>3. list = InterruptList(harts, chosen)
    BY <1>1 DEF Extended
  <1> HIDE DEF chosen
  <1>4. Len(chosen) \in {1, 2}
    BY <1>2 DEF Expected
  <1> DEFINE n == (h - 1) * Len(chosen) + 1
  <1>5. n \in 1..(harts * Len(chosen)) /\ (n - 1) \div Len(chosen) = h - 1
    <2>1. CASE Len(chosen) = 1
      BY <2>1
    <2>2. CASE Len(chosen) = 2
      BY <2>2
    <2> QED BY <1>4, <2>1, <2>2
  <1> HIDE DEF n
  <1>6. n \in DOMAIN list /\ list[n][1] = Intc(h - 1)
    BY <1>3, <1>5 DEF InterruptList
  <1> QED BY <1>6 DEF list

\* A template that compiles has each hart once, on the list of every device.
LEMMA CompiledIsWired ==
    ASSUME NEW base \in Bases, base.tabs, NEW harts \in Nat, harts >= 2, NEW gib,
           Compiles(Render(base, harts, gib)), Supported(base)
    PROVE  Wired(Render(base, harts, gib), harts)
  <1> DEFINE tree == Render(base, harts, gib)
             cpus == tree.cpus
  <1>1. /\ DOMAIN cpus = 1..harts /\ Len(base.cpus) = 1 /\ base.cpus[1].intc = Intc(0)
        /\ \A i \in 1..harts : cpus[i].intc = Intc(i - 1) /\ ~cpus[i].sstc /\ cpus[i].reg = i - 1
    <2>1. DOMAIN cpus = 1..Len(cpus)
      BY RenderedCpus
    <2>2. /\ Len(base.cpus) = 1 /\ Len(cpus) = harts
          /\ base.cpus[1].intc = Intc(0)
          /\ \A i \in 1..harts : cpus[i].intc = Intc(i - 1) /\ ~cpus[i].sstc
          /\ base.cpus[1].hex => \A i \in 1..harts : cpus[i].reg = i - 1
      BY CompiledCpus
    <2> HIDE DEF cpus
    <2> QED BY <2>1, <2>2 DEF Supported
  <1>2. tree.lists = [d \in DOMAIN base.lists |-> Extended(base.lists[d], harts)]
    BY DEF Render
  <1> HIDE DEF cpus, tree
  <1>3. {cpus[i].reg : i \in DOMAIN cpus} = 0..(harts - 1)
    <2>1. \A i \in 1..harts : cpus[i].reg \in 0..(harts - 1)
      BY <1>1
    <2>2. ASSUME NEW r \in 0..(harts - 1) PROVE r \in {cpus[i].reg : i \in DOMAIN cpus}
      <3>1. r + 1 \in 1..harts /\ (r + 1) - 1 = r
        OBVIOUS
      <3> QED BY <1>1, <3>1
    <2> QED BY <1>1, <2>1, <2>2
  <1>4. ASSUME NEW d \in DOMAIN tree.lists, NEW i \in DOMAIN cpus
        PROVE  \E n \in DOMAIN tree.lists[d] : tree.lists[d][n][1] = cpus[i].intc
    <2>1. d \in DOMAIN base.lists /\ i \in 1..harts /\ cpus[i].intc = Intc(i - 1)
      BY <1>1, <1>2, <1>4
    <2>2. PICK irqs \in Expected :
              base.lists[d] = [k \in DOMAIN irqs |-> <<base.cpus[1].intc, irqs[k]>>]
      BY <1>1, <2>1, WiredAssumption DEF Supported
    <2>3. tree.lists[d] = Extended([k \in DOMAIN irqs |-> <<Intc(0), irqs[k]>>], harts)
      BY <1>1, <1>2, <2>1, <2>2
    <2> QED BY <2>1, <2>3, ExtendedList
  <1> QED BY <1>1, <1>3, <1>4 DEF Wired, cpus, tree

-----------------------------------------------------------------------------
(* The generator and the packer *)

\* The generator uses the packer as its specification allows: what holds of
\* every invocation holds of those for a generated template.
THEOREM GeneratorUsesPacker == GenSpec => Spec
  <1>1. GenInit => Init
    BY DEF GenInit
  <1>2. [GenNext]_allVars => [Next]_vars
    <2> SUFFICES ASSUME [GenNext]_allVars PROVE [Next]_vars
      OBVIOUS
    <2>1. CASE \E base \in Bases, harts \in HartCounts, gib \in Gibs : Generate(base, harts, gib)
      BY <2>1 DEF Generate
    <2>2. ASSUME NEW j \in Jobs, PackTemplate(j) \/ PackOther(j) PROVE Next
      BY <2>2 DEF PackTemplate, PackOther, Next
    <2>3. CASE CompileTemplate
      BY <2>3 DEF CompileTemplate, Next
    <2>4. CASE PackerStep
      BY <2>4 DEF PackerStep, Next
    <2>5. CASE UNCHANGED allVars
      BY <2>5 DEF allVars
    <2> QED BY <2>1, <2>2, <2>3, <2>4, <2>5 DEF GenNext
  <1> QED BY <1>1, <1>2, PTL DEF GenSpec, Spec

\* The template in use is what render made of what it was asked for, and an
\* invocation for it does not pass dtc unless it compiles.
AskedInv ==
    template # NoTemplate =>
        /\ asked.base \in Bases /\ asked.harts \in HartCounts /\ asked.gib \in Gibs
        /\ ~Refused(asked.base, asked.gib)
        /\ template = Render(asked.base, asked.harts, asked.gib)

PackedInv ==
    packed => /\ template # NoTemplate
              /\ job.multihart /\ job.dts = DtsOf(template)
              /\ pc \in {"check", "write"} \/ exit = "ok" => Compiles(template)

GenInv == AskedInv /\ PackedInv

LEMMA GeneratorInvariant == GenSpec => [](IInv /\ GenInv)
  <1>1. GenInit => GenInv
    BY DEF GenInit, GenInv, AskedInv, PackedInv
  <1>2. IInv /\ GenInv /\ [GenNext]_allVars => GenInv'
    <2> SUFFICES ASSUME IInv, GenInv, [GenNext]_allVars PROVE GenInv'
      OBVIOUS
    <2> USE DEF GenInv
    <2>1. ASSUME NEW base \in Bases, NEW harts \in HartCounts, NEW gib \in Gibs,
                 Generate(base, harts, gib)
          PROVE  GenInv'
      BY <2>1 DEF Generate, AskedInv, PackedInv
    <2>2. ASSUME NEW j \in Jobs, PackTemplate(j) PROVE GenInv'
      BY <2>2 DEF PackTemplate, Start, AskedInv, PackedInv
    <2>3. ASSUME NEW j \in Jobs, PackOther(j) PROVE GenInv'
      BY <2>3 DEF PackOther, AskedInv, PackedInv
    <2>4. CASE CompileTemplate
      <3>1. exit = "none"
        BY <2>4 DEF CompileTemplate, BuildDt, IInv, PhaseInv
      <3>2. AskedInv'
        BY <2>4 DEF CompileTemplate, generator, AskedInv
      <3>3. PackedInv'
        BY <2>4, <3>1 DEF CompileTemplate, BuildDt, Exit, generator, PackedInv
      <3> QED BY <3>2, <3>3
    <2>5. CASE PackerStep
      <3>1. AskedInv'
        BY <2>5 DEF PackerStep, generator, AskedInv
      <3>2. UNCHANGED <<template, packed, job>>
        BY <2>5 DEF PackerStep, generator, CheckParameters, CheckLayout, WriteComponent,
                    FailWrite, Kill, TearComponent
      <3>3. pc' \in {"check", "write"} \/ exit' = "ok" => pc \in {"check", "write"} \/ exit = "ok"
        BY <2>5 DEF PackerStep, CheckParameters, CheckLayout, WriteComponent,
                    FailWrite, Kill, TearComponent, Exit
      <3>4. PackedInv'
        BY <3>2, <3>3 DEF PackedInv
      <3> QED BY <3>1, <3>4
    <2>6. CASE UNCHANGED allVars
      BY <2>6 DEF allVars, generator, vars, AskedInv, PackedInv
    <2> QED BY <2>1, <2>2, <2>3, <2>4, <2>5, <2>6 DEF GenNext
  <1>3. GenSpec => []IInv
    BY GeneratorUsesPacker, InductiveInvariant, PTL
  <1> QED BY <1>1, <1>2, <1>3, PTL DEF GenSpec

\* Whatever templates there are, one that is generated is never refused for
\* its addresses, its harts or the checkpoint window, and has the memory that
\* was asked for; an image that is finished with it has each hart once, and
\* each of them is on the list of every device.
THEOREM GeneratedTreesFitPacker == GenSpec => []GeneratedTreesFit
  <1>1. ASSUME GenInv, packed
        PROVE  /\ TemplateAccepted(job)
               /\ CheckpointReservationOK(job)
               /\ asked.harts = job.harts /\ Compiles(template) => DtbCpuCountOK(job)
               /\ asked.gib # 0 => job.dts.size = asked.gib * GIGABYTE
               /\ Compiles(template) => Len(template.cpus) = asked.harts
               /\ Compiles(template) /\ Supported(asked.base) => Wired(template, asked.harts)
    <2> DEFINE base == asked.base
               harts == asked.harts
               gib == asked.gib
    <2>1. /\ base \in Bases /\ base.tabs /\ harts \in Nat /\ harts >= 2 /\ gib \in Nat
          /\ template = Render(base, harts, gib)
          /\ job.multihart /\ job.dts = DtsOf(template)
      <3>1. /\ template # NoTemplate /\ job.multihart /\ job.dts = DtsOf(template)
            /\ base \in Bases /\ harts \in HartCounts /\ gib \in Gibs
            /\ ~Refused(base, gib) /\ template = Render(base, harts, gib)
        BY <1>1 DEF GenInv, AskedInv, PackedInv
      <3>2. base.tabs
        BY <3>1, BasesAssumption DEF Refused
      <3> HIDE DEF harts, gib
      <3>3. harts \in Nat /\ harts >= 2 /\ gib \in Nat
        BY <3>1, ArgumentsAssumption DEF MULTIHART_MAX_HARTS
      <3> QED BY <3>1, <3>2, <3>3
    <2> HIDE DEF base, harts, gib
    <2>2. TemplateAccepted(job)
      BY <2>1, AddressesAssumption DEF TemplateAccepted, DtsOf, Render
    <2>3. CheckpointReservationOK(job)
      <3>1. template.reserved = "checkpoint"
        BY <2>1 DEF Render
      <3>2. DtsOf(template).reserved
        BY <3>1, Zenon DEF DtsOf
      <3> QED BY <2>1, <3>2 DEF CheckpointReservationOK
    <2>4. Compiles(template) => Len(template.cpus) = harts
      BY <2>1, CompiledCpus
    <2>5. harts = job.harts /\ Compiles(template) => DtbCpuCountOK(job)
      BY <2>1, <2>4 DEF DtbCpuCountOK, DtsOf
    <2>6. gib # 0 => job.dts.size = gib * GIGABYTE
      <3> SUFFICES ASSUME gib # 0 PROVE job.dts.size = gib * GIGABYTE
        OBVIOUS
      <3>1. template.cells = <<gib \div 4, gib % 4>>
        BY <2>1 DEF Render, MemoryCells
      <3>2. \A n \in Nat : (n \div 4) * 4 + (n % 4) = n
        OBVIOUS
      <3> QED BY <2>1, <3>1, <3>2 DEF DtsOf
    <2>7. Compiles(template) /\ Supported(base) => Wired(template, harts)
      BY <2>1, CompiledIsWired
    <2> QED BY <2>2, <2>3, <2>4, <2>5, <2>6, <2>7 DEF base, harts, gib
  <1>2. IInv /\ GenInv => GeneratedTreesFit
    <2> SUFFICES ASSUME IInv, GenInv, packed, exit = "ok", Supported(asked.base)
                 PROVE  Wired(template, job.harts)
      BY <1>1 DEF GeneratedTreesFit
    <2>1. Compiles(template) /\ job.multihart /\ job.dts = DtsOf(template)
      BY DEF GenInv, PackedInv
    <2>2. Len(template.cpus) = job.harts
      BY <2>1 DEF IInv, FinishedInv, Accepted, LayoutAccepted, DtbCpuCountOK, DtsOf
    <2> QED BY <1>1, <2>1, <2>2
  <1> QED BY <1>2, GeneratorInvariant, PTL

=============================================================================
