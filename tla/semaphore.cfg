CONSTANTS
  Tasks = {t1, t2, t3}
  MaxCount = 2
  MaxWait = 2
  MaxGiven = 3
SPECIFICATION Spec
INVARIANT Conservation
INVARIANT OnlyReuseFaults
PROPERTY ImplementsCounting
CHECK_DEADLOCK FALSE
