SPECIFICATION SnapshotSpec
CONSTANTS
  Replica <- MCReplica
  MaxOps = 4
  Causal = TRUE
INVARIANTS
  RestoreIsFaithful
  MergeIsUnion
  RestoreThenContinue
