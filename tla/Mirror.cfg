\* Two layers, so that a packet can combine states of two moments or miss its
\* layer, and two calls: a load and what follows it, with one packet lost.
CONSTANTS
  LastLayer = 2
  Layers <- MCLayers
  Tracks = {1}
  Playbacks = {idle, stopped}
  EmptyPlayback = idle
  LoadedPlayback = stopped
  OnAirs = {0, 1}
  Mixers = {m0, m1}
  DefaultMixer = m0
  MaxCalls = 2
  MaxInFlight = 1
  MaxLosses = 1
SPECIFICATION FairHistorySpec
INVARIANTS TypeOK AnnouncedAtOnce ShownOnceWas ViewPutRight
PROPERTIES MirrorCatchesUp
