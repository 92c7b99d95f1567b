\* What peers show of a layer whose track was unloaded, with no packet lost.
CONSTANTS
  LastLayer = 1
  Layers <- MCLayers
  Tracks = {1}
  Playbacks = {idle, stopped}
  EmptyPlayback = idle
  LoadedPlayback = stopped
  OnAirs = {0, 1}
  Mixers = {m0, m1}
  DefaultMixer = m0
  MaxCalls = 2
  MaxInFlight = 2
  MaxLosses = 0
SPECIFICATION FairSpec
PROPERTIES UnloadedShowsNothing
