SPECIFICATION Spec
CONSTANT
  CPUS = 2
INVARIANT
  TickWakesAThread
