\* A page over two sockets: two faults of any kind, one of which may be the
\* revocation of its token, and two acts of the user besides typing.
CONSTANTS
  A = A
  B = B
  Sessions = {A, B}
  Socks = {s1, s2}
  Tabs <- MCTabs
  FromFragment = FALSE
  MaxFaults = 2
  MaxRevokes = 1
  MaxActs = 2
  None = None
SPECIFICATION FairSpec
CHECK_DEADLOCK FALSE
INVARIANTS
  OnlyCurrentSpeaks
  StaysAway
  KeysGoToShown
PROPERTIES
  ComesBack
  StartsAfresh
