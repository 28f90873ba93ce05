\* Exec channels under the public daemon (server/start.ts), where every error
\* of a connection tears the client down.  Three bridges allow two channels
\* side by side and an id that is used again while the old child lingers.
CONSTANTS
  Bridges = {b1, b2, b3}
  ChanIds = {1, 2}
  PtyChan = 1
  MaxChannels = 2
  MaxFrameBytes = 65536
  ChunkSizes = {1}
  MaxSpawns = 0
  TearsDownOnError = TRUE
  None = None
SYMMETRY BridgeSymmetry
SPECIFICATION Spec
CHECK_DEADLOCK FALSE
INVARIANTS
  NoOrphanChild
  LiveExecDataFollowsAck
  ExitNeverThrows
PROPERTY
  KeepsExecContract
