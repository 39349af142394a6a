SPECIFICATION FairIdle
CONSTANTS
  Idle = 3
  MaxCallbacks = 3
INVARIANTS TimerFollowsWait
PROPERTIES OnlyIdleWaitsExpire WaitsEnd
