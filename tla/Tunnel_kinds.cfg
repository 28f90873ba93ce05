\* Every kind of client with every configuration of the two ends.
CONSTANTS
  None = None
  Files = {"absent", "unreadable", "p1"}
  Envs = {"absent", "malformed", "p2"}
  Kinds = {"connect", "public", "page", "join"}
  MaxSays = 2
  MaxBreaks = 1
SPECIFICATION FairSpec
CHECK_DEADLOCK FALSE
INVARIANTS
  InStep
  ReadyAgree
PROPERTY
  TunnelComes
