SPECIFICATION FairSpec
CONSTANTS
  Callers = {c1, c2}
  TTL = 2
  FailureTTL = 1
  MaxFlights = 3
  MaxTime = 5
INVARIANTS AnswersAreCurrent
PROPERTIES ImplementsSharedFetch WaitersReturn
