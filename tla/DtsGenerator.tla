----------------------------- MODULE DtsGenerator -----------------------------
(***************************************************************************)
(* scripts/generate-xiangshan-multihart-dts.py and what becomes of its     *)
(* output: a multi-hart device tree template is rendered from a            *)
(* single-hart one and then given to the firmware packer.  The generator   *)
(* edits text: where it looks for a node it refuses a template without it, *)
(* where it replaces one it leaves a template alone in which the text is   *)
(* written another way.                                                    *)
(*                                                                         *)
(* A template is the part of its text that the edits and the packer see.   *)
(***************************************************************************)
EXTENDS FirmwareImage, Sequences

CONSTANTS Bases,        \* the templates that may be given as --base
          HartCounts,   \* --harts
          Gibs,         \* --memory-gib, 0 when it is not given
          NoTemplate

(***************************************************************************)
(* cpus are the CPU nodes, lists the interrupts-extended properties: which *)
(* interrupt line of which CPU each device raises.  cells is the size of   *)
(* memory, the low word in GiB; readable, dram and clint are what the      *)
(* packer finds of the addresses, which no edit touches.                   *)
(***************************************************************************)
Intc(hart) == <<"intc_cpu", hart>>

CpuNodes == [label : Nat, reg : Nat, hex : BOOLEAN, intc : STRING \X Nat, sstc : BOOLEAN]

\* CLINT, debug controller and PLIC: the lines they raise at every hart.
Expected == {<<3, 7>>, <<65535>>, <<11, 9>>}

ASSUME BasesAssumption ==
    \A b \in Bases : /\ b.cpus \in Seq(CpuNodes) /\ Len(b.cpus) > 0
                     /\ b.tabs \in BOOLEAN /\ b.isa \in BOOLEAN /\ b.uart \in BOOLEAN
                     /\ b.profile \in BOOLEAN
                     /\ b.reserved \in {"none", "plain", "checkpoint"}
                     /\ b.cells \in Nat \X (0..3)
                     /\ b.readable \in BOOLEAN /\ b.dram \in Nat /\ b.clint \in Nat

\* The generator neither checks nor sets the addresses: the templates of dts/
\* in which cpu0 is found have those that the packer asks of a multi-hart one.
ASSUME AddressesAssumption ==
    \A b \in Bases : b.tabs =>
        /\ b.readable /\ b.dram = MULTIHART_DRAM_BASE /\ b.clint = MULTIHART_CLINT

\* The templates of dts/ in which cpu0 is found number their harts, and in the
\* single-hart ones of them that have a PLIC each device raises the lines of
\* its kind at that hart.
ASSUME NumberedAssumption ==
    \A b \in Bases : b.tabs =>
        \A i \in DOMAIN b.cpus : b.cpus[i].label = i - 1 /\ b.cpus[i].reg = i - 1

ASSUME WiredAssumption ==
    \A b \in Bases : (b.tabs /\ Len(b.cpus) = 1 /\ "plic" \in DOMAIN b.lists) =>
        \A d \in DOMAIN b.lists : \E irqs \in Expected :
            b.lists[d] = [i \in DOMAIN irqs |-> <<b.cpus[1].intc, irqs[i]>>]

\* The parser of the arguments refuses the others.
ASSUME ArgumentsAssumption == HartCounts \subseteq 2..MULTIHART_MAX_HARTS /\ Gibs \subseteq Nat

-----------------------------------------------------------------------------
(* The edits *)

\* The nodes that are looked for: cpu0 and its ISA, the UART, the reserved
\* memory and, to change its size, the memory.
Refused(base, gib) ==
    \/ ~base.tabs \/ ~base.isa \/ ~base.uart
    \/ base.reserved = "none"
    \/ gib # 0 /\ ~base.profile

PrepareMultihartCpuIsa(node) == [node EXCEPT !.sstc = FALSE]

\* A reg that is written <0> stays as it is.
CpuNode(node, hart) ==
    [node EXCEPT !.label = hart,
                 !.reg = IF node.hex THEN hart ELSE @,
                 !.intc = IF @ = Intc(0) THEN Intc(hart) ELSE @]

\* Mutant: the last hart is left out.
InterruptListShort(harts, irqs) ==
    [n \in 1..((harts - 1) * Len(irqs)) |->
        <<Intc((n - 1) \div Len(irqs)), irqs[((n - 1) % Len(irqs)) + 1]>>]

\* Hart by hart, and for each of them every line.
InterruptList(harts, irqs) ==
    [n \in 1..(harts * Len(irqs)) |->
        <<Intc((n - 1) \div Len(irqs)), irqs[((n - 1) % Len(irqs)) + 1]>>]

\* What is not written as for a single hart is left alone.
Extended(list, harts) ==
    LET matching == {irqs \in Expected : list = InterruptList(1, irqs)}
    IN  IF matching = {} THEN list ELSE InterruptList(harts, CHOOSE irqs \in matching : TRUE)

\* 64-bit size, in two cells.
MemoryCells(gib) == <<gib \div 4, gib % 4>>

Render(base, harts, gib) ==
    LET cpu0 == PrepareMultihartCpuIsa(Head(base.cpus))
    IN  [cpus     |-> <<cpu0>> \o [h \in 1..(harts - 1) |-> CpuNode(cpu0, h)] \o Tail(base.cpus),
         lists    |-> [d \in DOMAIN base.lists |-> Extended(base.lists[d], harts)],
         reserved |-> "checkpoint",
         readable |-> base.readable,
         dram     |-> base.dram,
         clint    |-> base.clint,
         cells    |-> IF gib = 0 THEN base.cells ELSE MemoryCells(gib)]

-----------------------------------------------------------------------------
(* What the packer makes of a template *)

GIGABYTE == 1024 * MEGABYTE

\* dts_extract_config and the checks of build-firmware-linux.sh.
DtsOf(tree) ==
    [readable |-> tree.readable, base |-> tree.dram, clint |-> tree.clint,
     size |-> (tree.cells[1] * 4 + tree.cells[2]) * GIGABYTE,
     cpus |-> Len(tree.cpus), reserved |-> tree.reserved = "checkpoint"]

\* External: dtc accepts no label or node name twice, and no reference to a
\* label that is nowhere.
Compiles(tree) ==
    LET nodes == DOMAIN tree.cpus
        intcs == {tree.cpus[i].intc : i \in nodes}
    IN  /\ Cardinality({tree.cpus[i].label : i \in nodes}) = Len(tree.cpus)
        /\ Cardinality(intcs) = Len(tree.cpus)
        /\ \A d \in DOMAIN tree.lists :
             \A i \in DOMAIN tree.lists[d] : tree.lists[d][i][1] \in intcs

-----------------------------------------------------------------------------
VARIABLES
    template,   \* what the generator wrote last, while it is being used
    asked,      \* what it was asked for
    packed      \* the running or last invocation of the packer is for it

generator == <<template, asked, packed>>
allVars == <<vars, generator>>

Nothing == [base |-> NoTemplate, harts |-> 0, gib |-> 0]

GenInit ==
    /\ Init
    /\ template = NoTemplate
    /\ asked = Nothing
    /\ packed = FALSE

\* Nothing is written when the base is refused: render comes before open.
Generate(base, harts, gib) ==
    /\ pc = "idle"
    /\ ~Refused(base, gib)
    /\ template' = Render(base, harts, gib)
    /\ asked' = [base |-> base, harts |-> harts, gib |-> gib]
    /\ packed' = FALSE
    /\ UNCHANGED vars

PackTemplate(j) ==
    /\ template # NoTemplate
    /\ j.multihart /\ j.dts = DtsOf(template)
    /\ Start(j)
    /\ packed' = TRUE
    /\ UNCHANGED <<template, asked>>

\* A job for another template: the generated one is not looked at any more.
PackOther(j) ==
    /\ Start(j)
    /\ template' = NoTemplate
    /\ asked' = Nothing
    /\ packed' = FALSE

CompileTemplate ==
    /\ BuildDt
    /\ packed /\ ~Compiles(template) => exit' = "failed"
    /\ UNCHANGED generator

PackerStep ==
    /\ CheckParameters \/ CheckLayout \/ WriteComponent \/ FailWrite \/ Kill
    /\ UNCHANGED generator

GenNext ==
    \/ \E base \in Bases, harts \in HartCounts, gib \in Gibs : Generate(base, harts, gib)
    \/ \E j \in Jobs : PackTemplate(j) \/ PackOther(j)
    \/ CompileTemplate
    \/ PackerStep

GenSpec == GenInit /\ [][GenNext]_allVars

-----------------------------------------------------------------------------
(* Properties *)

\* The templates whose hart IDs and interrupt controller are written as the
\* generator expects.
Supported(base) == base.cpus[1].hex /\ "plic" \in DOMAIN base.lists

Wired(tree, harts) ==
    /\ {tree.cpus[i].reg : i \in DOMAIN tree.cpus} = 0..(harts - 1)
    /\ \A i \in DOMAIN tree.cpus : ~tree.cpus[i].sstc
    /\ \A d \in DOMAIN tree.lists : \A i \in DOMAIN tree.cpus :
         \E n \in DOMAIN tree.lists[d] : tree.lists[d][n][1] = tree.cpus[i].intc

\* A template generated from a base with the addresses of AddressesAssumption
\* is never refused by the packer for them, for its number of harts or for
\* the checkpoint window, and the memory it describes is what was asked for.
\* An image that is finished with one has each hart once, with its own hart ID
\* and without the timer extension that QEMU lacks, and each of them is on the
\* list of every device that interrupts it: the replacements of render, which
\* say nothing when they find nothing to replace, have all been made.  (Not of
\* a base whose first hart ID is written in decimal, nor of one with AIA.)
GeneratedTreesFit ==
    packed =>
      /\ TemplateAccepted(job)
      /\ CheckpointReservationOK(job)
      /\ asked.harts = job.harts /\ Compiles(template) => DtbCpuCountOK(job)
      /\ asked.gib # 0 => job.dts.size = asked.gib * GIGABYTE
      /\ exit = "ok" /\ Supported(asked.base) => Wired(template, job.harts)

=============================================================================
