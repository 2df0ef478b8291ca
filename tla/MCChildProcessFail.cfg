SPECIFICATION Spec
CONSTANTS
  Child = {c1}
  Flags = {"none"}
  MayFail = TRUE
INVARIANT
  ExitCodeIsReal
CHECK_DEADLOCK FALSE
