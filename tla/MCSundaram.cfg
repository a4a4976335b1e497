SPECIFICATION FairSpec
CONSTANTS
  num_threads = 3
  upper_bound = 7
INVARIANTS
  OddPrimesLeft
  ReportRight
PROPERTIES
  ImplementsBarrier
