\* Sockets break: two primary sockets, so that the daemon dials again while
\* the relay still holds the old one.  Two clients and one place, which meet
\* on unbroken sockets.
CONSTANTS
  c1 = c1
  c2 = c2
  p1 = p1
  p2 = p2
  Clients = {c1, c2}
  Primaries = {p1, p2}
  MaxClients = 1
  MaxBreaks = 2
  None = None
SPECIFICATION FairSpec
CHECK_DEADLOCK FALSE
ACTION_CONSTRAINT Staged
INVARIANTS
  NoStrandedData
  DaemonWillHear
PROPERTIES
  GoneIsForgotten
  EveryClientIsAnswered
  PrimaryComesBack
