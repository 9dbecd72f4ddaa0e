SPECIFICATION Spec
CONSTANTS
  None = None
  MaxDeferrals = 1
  MaxRequests = 1
  MaxTakes = 1
  MaxForeground = 0
  MaxClears = 1
  MaxLate = 1
INVARIANT PromiseKeepsProtection
CHECK_DEADLOCK FALSE
