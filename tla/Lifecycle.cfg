SPECIFICATION FairLifecycle
CONSTANTS
  Keys = {k1, k2}
  Versions = {1, 2}
  Requests = {r1, r2}
  Workers = {w1, w2}
  QueueSize = 1
  Capacity = 1
  Idle = 1
  MaxSessions = 2
  MaxTime = 1
  NotSent = 0
INVARIANTS OneReportPerSession QueuedIsPending GracefulIsWhole UsedAsSent
PROPERTIES BusySessionsStay ShutdownEnds
