SPECIFICATION Spec
CONSTANTS
  Sock = {s1, s2}
  Conn = {c1, c2}
  PgConn = {p1}
  Fd = {3, 4}
  MaxCalls = 2
  MaxItems = 2
  MaxOps = 4
  MaxRows = 1
  Asserts = FALSE
  MaxPromises = 4
  MaxIterators = 2
  PlainSignals = {1, 2}
  DerivedSignals = {3}
  Waiters = {1}
  MaxEventCalls = 4
  MaxDispatch = 3
  HandlerFns = {1, 2}
  MaxEmitterCalls = 5
  MaxEmits = 3
INVARIANT
  TypeOK
  WaitsAreWatched
  NothingSwallowed
  RefsCounted
  HandlersBelong
PROPERTY
  EveryCallSettles
CHECK_DEADLOCK FALSE
