SPECIFICATION Spec
CONSTANTS
  Replica <- MCReplica
  MinOps = 1
  MaxOps = 3
  MaxDrops = 0
  MaxCompactions = 2
  Erase = "confirmed"
INVARIANTS StoreKeepsHistory MembersCatchUp NoEditLost
CHECK_DEADLOCK FALSE
