\* A device that joins, on a network that loses nothing.
CONSTANTS
  None = None
  Files = {"absent"}
  Envs = {"absent"}
  Kinds = {"join"}
  MaxSays = 0
  MaxBreaks = 0
SPECIFICATION FairSpec
CHECK_DEADLOCK FALSE
PROPERTY
  JoinIsAnswered
