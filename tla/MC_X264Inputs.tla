---------------------------- MODULE MC_X264Inputs ----------------------------
(* Two cases that want the same video and one that wants another; workspaces *)
(* that differ in the sources of the decoder, or in the bitstream only.      *)
EXTENDS X264Inputs

MCWorkload == [rate |-> "refrate", speed |-> "refspeed", train |-> "train"]

MCIsos == {[sources |-> 1, bitstream |-> 1], [sources |-> 1, bitstream |-> 2], [sources |-> 2, bitstream |-> 2]}
==============================================================================
