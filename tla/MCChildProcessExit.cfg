SPECIFICATION FairSpec
CONSTANTS
  Child = {c1, c2}
  Flags = {"none"}
  MayFail = FALSE
PROPERTY
  OnExitComes
CHECK_DEADLOCK FALSE
