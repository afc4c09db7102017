\* Every sequence of creates, deletes, updates and commits on three nodes,
\* with every failing call and its rollback.
CONSTANTS
  Ids <- MCIds
  Names <- MCNames
  Vals <- MCVals
  n1 = n1
  n2 = n2
  v1 = v1
  v2 = v2
  NoVal = none
  none = none
SYMMETRY MCSymmetry
SPECIFICATION Spec
INVARIANTS TypeOK BacklinksMirrorLinks NoDanglingLink NoOrphans
