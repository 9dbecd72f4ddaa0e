SPECIFICATION Spec
CONSTANTS
  Proc = {p1, p2}
  Version = {v1, v2}
  Format = {f1, f2}
  v1 = v1
  v2 = v2
  f1 = f1
  f2 = f2
  Products <- FourPairs
  None = None
  MaxRuns = 2
  MaxReads = 1
  MaxFaults = 2
  MaxUnlinks = 1
  MaxDeaths = 1
SYMMETRY Symmetry
INVARIANTS ReaderPairs CommitIsFresh NothingLost
PROPERTIES CommitPoint
CHECK_DEADLOCK FALSE
