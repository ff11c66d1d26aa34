SPECIFICATION FairSpec
CONSTANTS
  Topics = {serial}
  SerialTopic = serial
  Values = {v1}
  Gone = Gone
  Garbage = Garbage
  NoEntry = NoEntry
  InboxMaxSize = 1
  WireMaxSize = 2
  AgeCap = 1
PROPERTY DropsAreRepaired
