SPECIFICATION FairSpec
CONSTANTS
  None = None
  MaxDeferrals = 1
  MaxRequests = 1
  MaxTakes = 1
  MaxForeground = 1
  MaxClears = 0
  MaxLate = 1
PROPERTIES NoStartInForeground QueueIsServed
CHECK_DEADLOCK FALSE
