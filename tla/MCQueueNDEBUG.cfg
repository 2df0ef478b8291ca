SPECIFICATION Spec
CONSTANTS
  Chunk = {c1, c2, c3}
  SizeMod = 256
  MaxWritten = 3
  MaxViews = 1
  Asserts = FALSE
INVARIANT
  ClearedQueueCountsNothing
CHECK_DEADLOCK FALSE
