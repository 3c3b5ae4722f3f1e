SPECIFICATION Spec
CONSTANTS
  a = a
  b = b
  i1 = i1
  i2 = i2
  Client <- MCClient
  Instance = {i1, i2}
  Home <- MCHome
  Settings <- MCOneBreak
  Flaky = {a}
  MaxConns = 2
  MaxTasks = 2
  MaxBreaks = 1
INVARIANT CatchesUp
CHECK_DEADLOCK FALSE
