------------------------------- MODULE MCTunnel -------------------------------
(* Tunnel for TLC.                                                         *)
EXTENDS Tunnel, TLC
=============================================================================
