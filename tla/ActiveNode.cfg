\* One layer, two tracks (and an id that reads as none) and two calls of the user: enough for a call to race a
\* tick, to find a queue full, and to follow a load with another call.
CONSTANTS
  LastLayer = 1
  Layers <- MCLayers
  Tracks = {0, 1, 2}
  Playbacks = {stopped, blank}
  StartPlayback = stopped
  EmptyPlayback = blank
  LoadedPlayback = stopped
  QueueCap = 2
  MaxCalls = 2
  MaxLosses = 1
  None = None
SPECIFICATION FairTicksSpec
INVARIANTS TypeOK LoadedLayersAnswer ResponsesPutRight
PROPERTIES ResponsesCatchUp SlaveCatchesUp
CHECK_DEADLOCK FALSE
