SPECIFICATION FairSpec
CONSTANTS
  NumKeys = 2
  Requests = {r1, r2}
  Failures <- LiveFailures
  SystemOne = TRUE
  CreditsTTL = 1
  RateLimitTTL = 1
  DefaultRetry = 1
  MaxTime = 3
PROPERTIES RequestsReturn ProbesEnd
