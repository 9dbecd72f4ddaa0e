SPECIFICATION Spec
CONSTANTS
  None = None
  MaxDeferrals = 1
  MaxRequests = 2
  MaxTakes = 1
  MaxForeground = 0
  MaxClears = 1
  MaxLate = 1
INVARIANTS JobHoldsLease QueueHasADriver PromiseStaysQueued RefusalIsBacked
PROPERTIES DeadlineNotPostponed
CHECK_DEADLOCK FALSE
