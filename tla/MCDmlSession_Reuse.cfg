CONSTANTS
  v1 = v1
  v2 = v2
  v3 = v3
  Vals <- ThreeVals
  Workloads <- ParentsOnly
  Databases <- AllDatabases
  MaxDepth = 3
  Null = Null
  NoRow = NoRow
SPECIFICATION Spec
INVARIANTS RollbackRestoresView
VIEW StateView
SYMMETRY ValSymmetry
CHECK_DEADLOCK FALSE
