CONSTANTS
  QueueLength = 2
  MaxTimers = 1
  MaxNulled = 2
  MaxFired = 2
SPECIFICATION Spec
INVARIANT AutoReloadKeepsRunning
CHECK_DEADLOCK FALSE
