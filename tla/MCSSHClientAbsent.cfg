SPECIFICATION Spec
CONSTANTS
  Calls = {c1, c2}
  MaxConns = 2
INVARIANT AbsentMeansAbsent
