SPECIFICATION Spec
CONSTANTS
  Senders <- MCSenders
  soft_limit = 3
  MaxAsked = 4
INVARIANTS
  NoneLost
  EndComesLast
  FailsOnlyOverLimit
PROPERTIES
  ReceiverEnds
