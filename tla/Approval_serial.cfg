\* The self-hosted daemon in approval mode while no process writes clients.json
\* between another one's load and save.  One session and two pending clients at
\* most.  No symmetry: liveness properties are checked.
CONSTANTS
  Clients = {c1, c2}
  Tokens = {t1, t2}
  Operators = {cli}
  MaxClients = 1
  MaxPending = 2
  Overlap = FALSE
  None = None
SPECIFICATION FairSpec
CHECK_DEADLOCK FALSE
INVARIANTS
  OnlyApprovedEnter
  EveryPendingIsListed
PROPERTIES
  RevocationIsFinal
  RevokedIsDisconnected
  ApprovedIsLetIn
