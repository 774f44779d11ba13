CONSTANTS
  Tasks = {t1}
  Bits = {b1, b2}
  Masks = {{b1}, {b2}, {b1, b2}}
  QueueLength = 2
  MaxWait = 2
SPECIFICATION FairSpec
INVARIANT NoSleeperOnSetBit
INVARIANT Settles
INVARIANT OnlyReuseFaults
INVARIANT NoMissedBit
CHECK_DEADLOCK FALSE
PROPERTY WaitReturns
PROPERTY SetTakesEffect
