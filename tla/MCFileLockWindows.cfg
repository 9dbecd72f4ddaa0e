SPECIFICATION FairSpec
CONSTANTS
  p1 = p1
  p2 = p2
  p3 = p3
  s1 = s1
  s2 = s2
  Proc <- TwoProcs
  Serial <- TwoSerials
  Junk = Junk
  None = None
  ReplacesEmpty = FALSE
  MaxFaults = 2
PROPERTIES ImplementsLease StaleReclaimed
