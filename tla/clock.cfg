CONSTANTS
  Tasks = {t1}
  Others = {o}
  None = None
  ByteValues = 16
  Modulus = 65536
  Rates = {300, 1000}
  Corrections = {65535, 1000000000}
  Waits = {3, 10, 65535, 65546}
  Instants = {3, 14, 65530, 65541, 131100}
  MaxRounds = 2
  MaxNest = 2
SPECIFICATION ClockSpec
INVARIANT NotEarly
INVARIANT NotLate
INVARIANT PanicNeedsWrap
INVARIANT SleptEnough
INVARIANT TimeoutsBounded
INVARIANT PeriodKept
CHECK_DEADLOCK FALSE
