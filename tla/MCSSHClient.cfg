SPECIFICATION FairSpec
CONSTANTS
  Calls = {c1, c2}
  MaxConns = 2
INVARIANTS NothingUntracked FailedAreGone ClosedForCause
PROPERTY CallsReturn
