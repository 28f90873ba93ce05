----------------------------- MODULE MCApproval -----------------------------
(* Approval for TLC: clients and tokens are interchangeable where no       *)
(* liveness is checked.                                                    *)
EXTENDS Approval, TLC

ApprovalSymmetry == Permutations(Clients) \cup Permutations(Tokens)
=============================================================================
