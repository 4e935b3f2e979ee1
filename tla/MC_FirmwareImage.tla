--------------------------- MODULE MC_FirmwareImage ---------------------------
(* Jobs on both sides of every bound that build-firmware-linux.sh checks, and *)
(* jobs for templates that are generated from those of the repository.        *)
EXTENDS DtsGenerator

KB(n) == n * KILOBYTE
MB(n) == n * MEGABYTE

SingleDts == [readable |-> TRUE, base |-> MULTIHART_DRAM_BASE, size |-> MB(64),
              clint |-> MULTIHART_CLINT, cpus |-> 1, reserved |-> FALSE]

Single == [multihart |-> FALSE, dtbGiven |-> FALSE, harts |-> 2,
           dts |-> SingleDts, minMemory |-> 0, requiredMinMemory |-> 0,
           gcpt |-> KB(70), gcptTail |-> "other", sbi |-> KB(768),
           dtb |-> KB(256), kernel |-> MB(20) + 1, cpio |-> MB(3) + 1]

Multi == [Single EXCEPT !.multihart = TRUE, !.dtbGiven = TRUE,
                        !.dts.cpus = 2, !.dts.reserved = TRUE,
                        !.dts.size = MB(256), !.sbi = KB(1024), !.dtb = KB(1024),
                        !.gcpt = KB(2048), !.gcptTail = "sbiCopy"]

Accepted ==
    { Single, Multi,
      \* A no-payload fallback past the first MiB.
      [Single EXCEPT !.gcpt = KB(1024) + 1, !.gcptTail = "fallback24"],
      \* DRAM at an odd MiB and image and memory ending together.
      [Single EXCEPT !.dts.base = MB(3), !.kernel = MB(20), !.cpio = MB(41)],
      [Multi EXCEPT !.kernel = KB(1), !.cpio = MB(121), !.requiredMinMemory = MB(256)] }

RefusedJobs ==
    { [Single EXCEPT !.sbi = @ + 1],
      [Single EXCEPT !.dtb = @ + 1],
      [Single EXCEPT !.cpio = MB(42)],
      [Single EXCEPT !.gcpt = KB(1024) + 1, !.gcptTail = "fallback8"],
      [Multi EXCEPT !.sbi = @ + 1],
      [Multi EXCEPT !.dtb = @ + 1],
      [Multi EXCEPT !.requiredMinMemory = MB(256) + 1, !.minMemory = MB(16)],
      [Multi EXCEPT !.minMemory = MB(256) + 1],
      [Multi EXCEPT !.dts.base = MB(1)],
      [Multi EXCEPT !.dts.reserved = FALSE] }

\* xiangshan-fpga-noAIA-mem8g-novec
Fpga8g ==
    [readable |-> TRUE, dram |-> MULTIHART_DRAM_BASE, clint |-> MULTIHART_CLINT,
     tabs |-> TRUE, isa |-> TRUE, uart |-> TRUE, profile |-> TRUE, reserved |-> "plain",
     cpus |-> <<[label |-> 0, reg |-> 0, hex |-> TRUE, intc |-> Intc(0), sstc |-> TRUE]>>,
     lists |-> [clint |-> <<<<Intc(0), 3>>, <<Intc(0), 7>>>>, debug |-> <<<<Intc(0), 65535>>>>,
                plic |-> <<<<Intc(0), 11>>, <<Intc(0), 9>>>>],
     cells |-> <<2, 0>>]

\* xiangshan-fpga-noAIA-mem16g-novec
Fpga16g == [Fpga8g EXCEPT !.cpus[1].hex = FALSE, !.profile = FALSE, !.cells = <<4, 0>>,
                          !.lists = [d \in {"clint", "plic"} |-> Fpga8g.lists[d]]]

\* xiangshan-fpga-AIA-mem16g
Aia == [Fpga8g EXCEPT !.profile = FALSE, !.cells = <<4, 0>>,
                      !.lists = [clint |-> Fpga8g.lists.clint, debug |-> Fpga8g.lists.debug,
                                 imsics_m |-> <<<<Intc(0), 11>>>>,
                                 imsics_s |-> <<<<Intc(0), 9>>>>]]

\* xiangshan-fpga-noAIA-2hart-mem8g-novec: written for two harts already.
Hart1 == [label |-> 1, reg |-> 1, hex |-> TRUE, intc |-> Intc(1), sstc |-> FALSE]
TwoHarts ==
    [Fpga8g EXCEPT !.reserved = "checkpoint", !.cpus = <<Head(@), Hart1>>,
                   !.lists = [d \in DOMAIN @ |->
                                @[d] \o [i \in DOMAIN @[d] |-> <<Intc(1), @[d][i][2]>>]]]

\* xiangshan-qemu-nemu-mem8g: the labels are cpu0_intc.
QemuNemu ==
    [Fpga16g EXCEPT !.cpus[1].intc = <<"cpu_intc", 0>>, !.cpus[1].sstc = FALSE,
                    !.cells = <<2, 0>>,
                    !.lists = [d \in {"clint", "plic"} |->
                                 [i \in {1, 2} |-> <<<<"cpu_intc", 0>>, Fpga8g.lists[d][i][2]>>]]]

\* xiangshan-fpga-noAIA-32hart-mem64g, indented with spaces.
ThirtyTwo == [Fpga8g EXCEPT !.tabs = FALSE]

MCBases == {Fpga8g, Fpga16g, Aia, TwoHarts, QemuNemu, ThirtyTwo}
MCHartCounts == {3}
MCGibs == {0, 6}

GeneratedJob(b, h, g) == [Multi EXCEPT !.harts = h, !.dts = DtsOf(Render(b, h, g))]

GeneratedJobs ==
    {GeneratedJob(b, h, g) : b \in MCBases \ {ThirtyTwo}, h \in MCHartCounts, g \in {0}}
      \cup {GeneratedJob(Fpga8g, h, g) : h \in MCHartCounts, g \in MCGibs}

MCJobs == Accepted \cup RefusedJobs \cup GeneratedJobs

=============================================================================
