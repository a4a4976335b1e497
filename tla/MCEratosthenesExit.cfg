SPECIFICATION Spec
CONSTANTS
  num_threads = 2
  upper_bound = 4
INVARIANTS
  FreedWhenDone
