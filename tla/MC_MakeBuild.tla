----------------------------- MODULE MC_MakeBuild -----------------------------
(* A workload built for NEMU and for QEMU, single-hart and for two or four   *)
(* harts.                                                                    *)
EXTENDS MakeBuild

Single(platform, dtb) ==
    [multihart |-> FALSE, platform |-> platform, harts |-> "2", dtb |-> dtb]
Multihart(harts, dtb) ==
    [multihart |-> TRUE, platform |-> "qemu", harts |-> harts, dtb |-> dtb]

MCConfigs == {Single("nemu", "xiangshan"), Single("qemu", "mem2g"), Multihart("2", "dualcore"),
              Multihart("4", "quadcore")}

MCEdited == {Workload, Dts("mem2g"), OpenSbi}

=============================================================================
