--------------------------- MODULE FirmwareLayout ---------------------------
(***************************************************************************)
(* The address arithmetic of an all-in-one Linux firmware image.  Three    *)
(* scripts compute it independently and must agree: build-firmware-linux.sh*)
(* places the components in the file, build-sbi.sh links OpenSBI and tells *)
(* it where the kernel and the device tree are, and                        *)
(* export-linux-debug-artifacts.sh writes the addresses into a manifest.   *)
(*                                                                         *)
(* Addresses and sizes are counted in quarters of a KiB.  A file size is   *)
(* rounded up to that unit: every comparison and every alignment of the    *)
(* scripts is against a multiple of a KiB, so rounding changes none of     *)
(* them, while an address that is not a multiple of a KiB is still one the *)
(* scripts can be given.                                                   *)
(***************************************************************************)
EXTENDS Integers

KILOBYTE == 4
MEGABYTE == 1024 * KILOBYTE

\* The alignment idiom of the scripts, $(( (a + n - 1) / n * n )).
AlignUp(a, n) == ((a + n - 1) \div n) * n

DtsLinuxKernelAddress(memoryBase, minimumOffset) ==
    AlignUp(memoryBase + minimumOffset, 2 * MEGABYTE)

-----------------------------------------------------------------------------
(* build-firmware-linux.sh *)

MULTIHART_MAX_HARTS == 128

SBI_OFFSET_KB == 1024
DtbOffsetKB(multihart)      == IF multihart THEN 2048 ELSE 1792
DtbMaxSizeKB(multihart)     == IF multihart THEN 1024 ELSE 256
KernelMinOffsetMB(multihart) == IF multihart THEN 134 ELSE 2

\* The addresses a multi-hart device tree must describe.
MULTIHART_DRAM_BASE == 2097152 * KILOBYTE     \* 0x80000000
MULTIHART_CLINT     == 917504 * KILOBYTE      \* 0x38000000

KernelBegin(multihart, base) ==
    DtsLinuxKernelAddress(base, KernelMinOffsetMB(multihart) * MEGABYTE)

InitramfsBegin(multihart, base, kernelSize) ==
    AlignUp(KernelBegin(multihart, base) + kernelSize, MEGABYTE)

InitramfsEnd(multihart, base, kernelSize, cpioSize) ==
    InitramfsBegin(multihart, base, kernelSize) + cpioSize

\* The seek= operands of the last two dd commands.  The division truncates.
KernelOffsetKB(multihart, base) ==
    (KernelBegin(multihart, base) - base) \div KILOBYTE

InitramfsOffsetKB(multihart, base, kernelSize) ==
    (InitramfsBegin(multihart, base, kernelSize) - base) \div KILOBYTE

\* [0x80300000, 0x88600000), what the checkpoint restorer of a multi-hart
\* image keeps for itself; the device tree must declare it no-map.
CheckpointBegin == MULTIHART_DRAM_BASE + 3 * MEGABYTE
CheckpointEnd   == MULTIHART_DRAM_BASE + 134 * MEGABYTE

-----------------------------------------------------------------------------
(* build-sbi.sh: the addresses OpenSBI is linked with *)

FwTextStart(multihart, base) ==
    IF multihart THEN 2098176 * KILOBYTE      \* 0x80100000
                 ELSE base + MEGABYTE

FwJumpAddr(multihart, base) ==
    IF multihart THEN 2234368 * KILOBYTE      \* 0x88600000
                 ELSE DtsLinuxKernelAddress(base, 2 * MEGABYTE)

\* Mutant: the device tree offset of the multi-hart layout for both layouts.
FwJumpFdtAddrOneOffset(multihart, base) ==
    IF multihart THEN 2099200 * KILOBYTE ELSE base + 2048 * KILOBYTE

FwJumpFdtAddr(multihart, base) ==
    IF multihart THEN 2099200 * KILOBYTE      \* 0x80200000
                 ELSE base + 1792 * KILOBYTE

-----------------------------------------------------------------------------
(* export-linux-debug-artifacts.sh: the addresses it publishes *)

Manifest(multihart, base, kernelSize) ==
    LET kernelMinOffsetMB == IF multihart THEN 134 ELSE 2
        dtbOffset == IF multihart THEN 2 * MEGABYTE ELSE 1792 * KILOBYTE
        kernel == DtsLinuxKernelAddress(base, kernelMinOffsetMB * MEGABYTE)
    IN  [gcpt        |-> base,
         opensbi     |-> base + MEGABYTE,
         opensbiJump |-> kernel,
         dtb         |-> base + dtbOffset,
         kernel      |-> kernel,
         initramfs   |-> AlignUp(kernel + kernelSize, MEGABYTE)]

=============================================================================
