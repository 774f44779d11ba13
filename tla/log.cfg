CONSTANTS
  t1 = t1
  t2 = t2
  t3 = t3
  Tasks = {t1, t2, t3}
  Configurers = {t1, t2}
  Priorities <- StrictOrEqual
  Levels = {"INFO"}
SPECIFICATION FairSpec
INVARIANT Exclusion
INVARIANT SpinnerInverted
PROPERTY BusyClears
PROPERTY StateNeedsEnable
CHECK_DEADLOCK FALSE
