SPECIFICATION FairSpec
CONSTANTS
  Calls = {c1, c2}
  Transports = {t1}
  NoTransport = NoTransport
  NoCall = NoCall
  Sentinel = Sentinel
  InboxMaxSize = 1
  WaitSteps = 1
PROPERTIES CallsReturn ThreadsWindDown
