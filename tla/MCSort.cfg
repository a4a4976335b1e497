SPECIFICATION FairSpec
CONSTANTS
  Lines  <- MCLines
  Key    <- MCKey
  Length <- MCLength
  Inputs <- MCThree
  Unended = {}
  Stop = Stop
  Clients = {a, b, c}
  MayDie = {}
  BufferSize = 2
  RD_BUF_SIZE = 3
  EVENT_SIZE = 2
INVARIANTS
  TypeOK
  InBounds
  OwnObject
  LinesGoOut
  LinesComeBack
  NothingLeftUnread
PROPERTIES
  ImplementsSorter
