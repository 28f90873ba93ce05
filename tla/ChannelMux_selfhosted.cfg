\* Exec channels under the self-hosted daemon (start.ts), whose onError only
\* logs: what mux_exec shows of the public daemon, and does not hold here.
CONSTANTS
  Bridges = {b1}
  ChanIds = {1, 2}
  PtyChan = 1
  MaxChannels = 2
  MaxFrameBytes = 65536
  ChunkSizes = {1}
  MaxSpawns = 0
  TearsDownOnError = FALSE
  None = None
SPECIFICATION Spec
CHECK_DEADLOCK FALSE
INVARIANT
  ExitNeverThrows
