SPECIFICATION CombSpec
CONSTANTS
  MaxOffers = 3
  MaxAsked = 4
  MayReject = TRUE
  Contenders = {c1, c2}
  Programs = {"user", "race", "merge", "zip", "latest"}
INVARIANTS
  TypeOK
  Ahead
  StopsLast
  CombinatorsMean
PROPERTY
  EveryoneGoesOn
  ImplementsRendezvous
CHECK_DEADLOCK FALSE
