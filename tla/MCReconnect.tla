----------------------------- MODULE MCReconnect -----------------------------
(* Reconnect for TLC.                                                      *)
EXTENDS Reconnect, TLC

SlotSymmetry == Permutations(Slots)
=============================================================================
