SPECIFICATION Spec
CONSTANTS
  Backends = {"redis"}
  Writers = {w1, w2}
  Joins = {j1}
  Sweeps = {s1}
  MaxSweeps = 1
  MaxAttempts = 2
  MinOps = 1
  SeedText = SeedText
  SeedLength = 2
INVARIANT EveryOpReaches
CHECK_DEADLOCK FALSE
