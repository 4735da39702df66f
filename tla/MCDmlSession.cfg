CONSTANTS
  v1 = v1
  v2 = v2
  v3 = v3
  Vals <- ThreeVals
  Workloads <- EachAction
  Databases <- AllDatabases
  MaxDepth = 3
  Null = Null
  NoRow = NoRow
SPECIFICATION Spec
INVARIANTS FreeListExact ReferentialIntegrity RollbackNeverFails RollbackRestoresHeap LiveRowsAreVisible DeletesAreExact
VIEW StateView
SYMMETRY ValSymmetry
CHECK_DEADLOCK FALSE
