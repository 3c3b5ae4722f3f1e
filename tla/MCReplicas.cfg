SPECIFICATION Spec
CONSTANTS
  Replica <- MCReplica2
  MaxOps = 4
INVARIANTS
  TypeOK
  StructuresMirrorOps
  SiblingsSorted
  LamportOrder
  Convergence
  OneOrder
  SelfHeals
PROPERTY ImplementsText
