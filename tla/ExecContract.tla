---------------------------- MODULE ExecContract ----------------------------
(***************************************************************************)
(* What the daemon promises about exec channels, without saying how: a     *)
(* channel that was accepted ends exactly once, by the exit of its child   *)
(* or by being closed; an exit is reported only when the child is gone;    *)
(* and a child runs unsignalled only while its channel is open.  An id     *)
(* that is opened again is a new channel here.                             *)
(***************************************************************************)
CONSTANT Channels

VARIABLES
  phase,    (* where each channel is in its life                           *)
  running   (* channels whose child runs and was not told to stop          *)

contractVars == <<phase, running>>

ContractTypeOK ==
  /\ phase \in [Channels -> {"fresh", "open", "exited", "closed"}]
  /\ running \subseteq Channels

Init ==
  /\ phase = [c \in Channels |-> "fresh"]
  /\ running = {}

Move(c, from, to) == phase[c] = from /\ phase' = [phase EXCEPT ![c] = to]

Refuse(c) == Move(c, "fresh", "closed") /\ UNCHANGED running

Accept(c) ==
  /\ Move(c, "fresh", "open")
  /\ running' \in {running, running \cup {c}}

ChildEnds(c) ==
  /\ phase[c] = "open" /\ c \in running
  /\ running' = running \ {c}
  /\ UNCHANGED phase

ReportExit(c) ==
  /\ c \notin running
  /\ Move(c, "open", "exited")
  /\ UNCHANGED running

(* One close, or the cascade when the connection ends.                     *)
Abandon(S) ==
  /\ \A c \in S : phase[c] = "open"
  /\ phase' = [c \in Channels |-> IF c \in S THEN "closed" ELSE phase[c]]
  /\ running' = running \ S

Next ==
  \/ \E c \in Channels :
       Refuse(c) \/ Accept(c) \/ ChildEnds(c) \/ ReportExit(c)
  \/ \E S \in SUBSET Channels : Abandon(S)

Spec == Init /\ [][Next]_contractVars
=============================================================================
