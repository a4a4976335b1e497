SPECIFICATION FairSpec
CONSTANTS
  Lines  <- MCLines
  Key    <- MCKey
  Length <- MCLength
  Inputs <- MCTwo
  Unended = {}
  Stop = Stop
  Clients = {a, b, c}
  MayDie = {a}
  BufferSize = 2
  RD_BUF_SIZE = 3
  EVENT_SIZE = 5
INVARIANTS
  PrintsInOrder
PROPERTIES
  ServerEnds
  ClientsEnd
