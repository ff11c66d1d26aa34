SPECIFICATION Spec
CONSTANTS
  RingSize = 4
  MaxSockets = 3
  MaxPings = 3
INVARIANTS RingTellsOneSocket DrainedWasPinged WarningShowsClose
PROPERTY DrainedMeansWritten
