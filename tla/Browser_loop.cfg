\* One daemon connection ends while the page's socket stays open.
CONSTANTS
  A = A
  B = B
  Sessions = {A, B}
  Socks = {s1, s2}
  Tabs <- MCTabs
  FromFragment = FALSE
  MaxFaults = 1
  MaxRevokes = 0
  MaxActs = 0
  None = None
SPECIFICATION FairSpec
CHECK_DEADLOCK FALSE
PROPERTY
  Reconnects
