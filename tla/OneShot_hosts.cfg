\* Two hosts and one retry: ls has two calls side by side, every other
\* command one.  An events feed gives up after two failures in a row; two
\* connections let an old session of the daemon linger.
CONSTANTS
  h1 = h1
  h2 = h2
  Hosts = {h1, h2}
  MaxAttempts = 2
  k1 = k1
  k2 = k2
  Conns = {k1, k2}
  MaxTries = 2
SPECIFICATION CliSpec
CHECK_DEADLOCK FALSE
INVARIANTS
  RepeatsOnlyUnheard
  SuccessIsReal
  OneFeed
  FollowersEnd
PROPERTIES
  EveryCallEnds
  FeedEnds
