CONSTANTS
  Entries      <- MCEntries
  Key          <- MCKey
  PageEntries  <- MCPageEntries
  InitialSizes <- MCInitialSizes
  Null = Null
SPECIFICATION FairSpec
INVARIANTS
  Fits
  Ordered
  RootIsMinimum
PROPERTIES
  ImplementsPriorityQueue
  CallsEnd
