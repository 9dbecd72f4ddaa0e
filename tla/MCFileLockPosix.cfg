SPECIFICATION Spec
CONSTANTS
  p1 = p1
  p2 = p2
  p3 = p3
  s1 = s1
  s2 = s2
  Proc <- ThreeProcs
  Serial <- TwoSerials
  Junk = Junk
  None = None
  ReplacesEmpty = TRUE
  MaxFaults = 1
SYMMETRY Symmetry
INVARIANTS TypeOK MutualExclusion HolderRecorded
