SPECIFICATION Spec
CONSTANTS
  Proc = {p1, p2}
  Version = {v1, v2}
  Format = {f1, f2}
  v1 = v1
  v2 = v2
  f1 = f1
  f2 = f2
  Products <- FourPairs
  None = None
  MaxRuns = 2
  MaxReads = 0
  MaxFaults = 2
  MaxUnlinks = 1
  MaxDeaths = 0
SYMMETRY Symmetry
INVARIANTS FailureIsHarmless
CHECK_DEADLOCK FALSE
