\* The pty bridge under the self-hosted daemon (start.ts), whose onError only
\* logs.  One channel at most, so that attach meets the limit; two spawn
\* continuations may be late.  No symmetry: a liveness property is checked.
CONSTANTS
  Bridges = {b1, b2}
  ChanIds = {1, 2}
  PtyChan = 1
  MaxChannels = 1
  MaxFrameBytes = 65536
  ChunkSizes = {1, 65536}
  MaxSpawns = 2
  TearsDownOnError = FALSE
  None = None
SPECIFICATION FairSpec
CHECK_DEADLOCK FALSE
INVARIANTS
  WithinLimit
  LivePtyIsReachable
  PtyDataFollowsAttached
PROPERTY
  LateAttachEnds
