CONSTANTS
  QueueLength = 3
  MaxTimers = 2
  MaxNulled = 2
  MaxFired = 3
SPECIFICATION FairSpec
INVARIANT SoleTimerIsSafe
INVARIANT FreedBoxNeedsLag
INVARIANT NoTimerLeak
CHECK_DEADLOCK FALSE
PROPERTY DeleteTakesEffect
