------------------------------ MODULE MCPairing ------------------------------
(* Pairing for TLC, with two clients.  The second dials while the first is *)
(* connected, to meet MaxClients, and sockets break only while there is    *)
(* one client; the first primary socket is dialled first.  Dialling of     *)
(* clients and breaks are owed to nobody, and whenever the daemon may dial *)
(* it may dial a socket that is left: no fair behaviour is cut short.      *)
EXTENDS Pairing, TLC

CONSTANTS c1, c2, p1, p2

Dials(c) == client[c] = NoSocket /\ client'[c] # NoSocket

Staged ==
  /\ Dials(c1) => client[c2] = NoSocket
  /\ Dials(c2) => c1 \in linked /\ told[c1] = "paired" /\ breaks = 0
  /\ client[c2] # NoSocket => breaks' = breaks
  /\ primary'[p2] # NoSocket => primary[p1] # NoSocket
=============================================================================
