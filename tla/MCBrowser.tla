------------------------------ MODULE MCBrowser ------------------------------
(***************************************************************************)
(* Instances of Browser for TLC.  Liveness is checked: no symmetry.        *)
(***************************************************************************)
EXTENDS Browser, TLC
CONSTANTS A, B

(* A tab opened on a session, and one on the overview that has already     *)
(* been to a session (a page that was loaded again keeps its history).     *)
MCTabs == {<<A>>, <<None, A>>}
=============================================================================
