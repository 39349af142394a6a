SPECIFICATION Spec
CONSTANTS
  NumKeys = 2
  Requests = {r1, r2, r3}
  Failures <- MCFailures
  SystemOne = FALSE
  CreditsTTL = 2
  RateLimitTTL = 1
  DefaultRetry = 1
  MaxTime = 3
SYMMETRY Interchangeable
INVARIANTS OneProbe
PROPERTIES OpenHolds UnavailableIsTrue ImplementsBreaker
