---------------------------- MODULE MCChannelMux ----------------------------
(* ChannelMux for TLC.  Bridges are interchangeable until one is built, so *)
(* runs that check no liveness use their symmetry.                         *)
EXTENDS ChannelMux, TLC

BridgeSymmetry == Permutations(Bridges)
=============================================================================
