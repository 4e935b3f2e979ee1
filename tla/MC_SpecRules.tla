----------------------------- MODULE MC_SpecRules -----------------------------
(* One case, with command lines that differ from the usual one in a single   *)
(* place, three that name another input, device tree or ISO for an export,   *)
(* and two for the ELF of another configuration, or of another tune and ISO. *)
EXTENDS SpecRules

Usual == [goal |-> "firmware", iso |-> "iso1", cfg |-> "gcc16", tune |-> "base",
          input |-> "ref", dtb |-> "8g"]

MCConfigs ==
    {Usual, [Usual EXCEPT !.goal = "export"],
     [Usual EXCEPT !.iso = "iso2"], [Usual EXCEPT !.goal = "export", !.iso = "iso2"],
     [Usual EXCEPT !.goal = "elf", !.iso = "iso2", !.tune = "peak"],
     [Usual EXCEPT !.cfg = "gcc17"], [Usual EXCEPT !.goal = "elf", !.cfg = "gcc17"],
     [Usual EXCEPT !.goal = "export", !.input = "test"],
     [Usual EXCEPT !.dtb = "64g"], [Usual EXCEPT !.goal = "export", !.dtb = "64g"]}

=============================================================================
