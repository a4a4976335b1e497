SPECIFICATION NumbersSpec
CONSTANTS
  Clients = {"a", "b", "c"}
  MayDie = {"b", "c"}
  DATA_MAX = 3
  END_CODE = 3
  SHORT_CODE = 1
  ARRAY_CODE = 2
  SOCKET_BACKLOG_SIZE = 1
INVARIANTS
  PrintedWhole
  EndsWithTheEnd
PROPERTIES
  QuitHeeded
