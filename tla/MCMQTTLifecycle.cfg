SPECIFICATION Spec
CONSTANTS
  Calls = {c1, c2}
  Transports = {t1, t2}
  NoTransport = NoTransport
  NoCall = NoCall
  Sentinel = Sentinel
  InboxMaxSize = 2
  WaitSteps = 1
SYMMETRY Symmetry
INVARIANTS SoleOwner SessionHasDecoder DeliversOnlyOwned
PROPERTY KeepsPromise
