SPECIFICATION Spec
CONSTANTS
  Chunk = {c1, c2, c3}
  SizeMod = 256
  MaxWritten = 4
  MaxViews = 1
  Asserts = TRUE
SYMMETRY Symmetry
VIEW StateView
INVARIANTS
  TypeOK
  CountersMatch
  HoldersCounted
PROPERTY
  ImplementsFifo
CHECK_DEADLOCK FALSE
