----------------------------- MODULE MCAccount -----------------------------
(* Account for TLC.  The keys of a role are interchangeable where no       *)
(* liveness is checked.                                                    *)
EXTENDS Account, TLC

AccountSymmetry == Permutations(DaemonKeys) \cup Permutations(ClientKeys)
=============================================================================
