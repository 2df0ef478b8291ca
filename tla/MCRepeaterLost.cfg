SPECIFICATION CombSpec
CONSTANTS
  MaxOffers = 2
  MaxAsked = 3
  MayReject = TRUE
  Contenders = {}
  Programs = {"user"}
PROPERTY
  NextIsAnswered
CHECK_DEADLOCK FALSE
