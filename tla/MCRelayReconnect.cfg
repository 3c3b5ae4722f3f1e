SPECIFICATION Spec
CONSTANTS
  Replica <- MCReplica
  MinOps = 1
  MaxOps = 2
  MaxDrops = 1
  MaxCompactions = 0
  Erase = "none"
INVARIANTS TypeOK HeadCoversPrefix ReachesEveryMember NoEditLost QuietMeansAgreed
PROPERTY EventuallyAgreed
CHECK_DEADLOCK FALSE
