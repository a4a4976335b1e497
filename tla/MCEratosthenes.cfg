SPECIFICATION FairSpec
CONSTANTS
  num_threads = 2
  upper_bound = 12
INVARIANTS
  NoUseAfterFree
  EachIndexTakenOnce
  PrimesLeft
  ReportRight
PROPERTIES
  EveryThreadEnds
