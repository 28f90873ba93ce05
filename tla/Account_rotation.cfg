\* Three daemon keys and one client key: signin, a rotation and a second one
\* begun, crossed with revocation, resets, crashes and the daemon.  No
\* symmetry: liveness is checked.
CONSTANTS
  DaemonKeys = {d1, d2, d3}
  ClientKeys = {k1}
  MaxMishaps = 1
  None = None
SPECIFICATION FairSpec
INVARIANTS
  HoldsLiveKey
  HostsFollow
PROPERTIES
  DaemonComesBack
CHECK_DEADLOCK FALSE
