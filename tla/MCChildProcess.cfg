SPECIFICATION Spec
CONSTANTS
  Child = {c1, c2, c3}
  Flags = {"none", "WNOHANG", "WUNTRACED"}
  MayFail = TRUE
SYMMETRY Perms
INVARIANT
  TypeOK
  ToldTruth
  HandlerWhileListed
  EndIsNoted
CHECK_DEADLOCK FALSE
