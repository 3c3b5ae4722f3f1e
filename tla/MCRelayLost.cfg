SPECIFICATION Spec
CONSTANTS
  Replica <- MCReplica
  MinOps = 1
  MaxOps = 2
  MaxDrops = 1
  MaxCompactions = 1
  Erase = "none"
INVARIANT EveryOpReaches
CHECK_DEADLOCK FALSE
