SPECIFICATION Spec
CONSTANT
  CPUS = 3
INVARIANTS
  NothingRunsOnceGone
PROPERTIES
  PassFollowsTick
  UnloadEnds
  PassAfterTick
