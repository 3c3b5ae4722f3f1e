SPECIFICATION Spec
CONSTANTS
  Backends = {"postgres", "redis"}
  Writers = {w1, w2, w3}
  Joins = {j1}
  Sweeps = {s1, s2}
  MaxSweeps = 3
  MaxAttempts = 2
  MinOps = 1
  SeedText = SeedText
  SeedLength = 2
SYMMETRY Symmetry
INVARIANTS TypeOK AckedIsServed HeadCovers JoinSeesLog
PROPERTIES HeadNeverFalls ImplementsLog
CHECK_DEADLOCK FALSE
