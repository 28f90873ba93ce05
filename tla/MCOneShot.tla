------------------------------ MODULE MCOneShot ------------------------------
(* The commands of a client process for TLC: OneShot and EventsFeed.       *)
EXTENDS EventsFeed, TLC

HostSymmetry == Permutations(Hosts)
=============================================================================
