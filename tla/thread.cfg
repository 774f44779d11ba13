CONSTANTS
  Spawns = {c1, c2}
  Slots = {s1, s2}
  None = None
  Readers = {r}
SPECIFICATION SystemSpec
INVARIANT FinishedLeaksOne
INVARIANT EmptyNeedsBirth
PROPERTY ImplementsClosure
CHECK_DEADLOCK FALSE
