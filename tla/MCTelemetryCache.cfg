SPECIFICATION Spec
CONSTANTS
  Topics = {serial, mode}
  SerialTopic = serial
  Values = {v1, v2}
  Gone = Gone
  Garbage = Garbage
  NoEntry = NoEntry
  InboxMaxSize = 2
  WireMaxSize = 2
  AgeCap = 2
SYMMETRY Symmetry
INVARIANTS AgeIsHonest CacheTracksDevice
