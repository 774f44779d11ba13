CONSTANTS
  Spawns = {c1, c2}
  Slots = {s1, s2, s3}
  None = None
SPECIFICATION Spec
INVARIANT JoinWaits
CHECK_DEADLOCK FALSE
