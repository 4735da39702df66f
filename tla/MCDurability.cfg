CONSTANTS
  DbNames = {"d"}
  TableNames = {"a", "b"}
  IndexNames = {"i"}
  InitialTables = {"a"}
  Workloads <- Durable
  MaxRows = 2
  MaxWidth = 2
  MaxStatements = 5
  MaxSaves = 1
  NoDb = NoDb
SPECIFICATION Spec
INVARIANTS TablesAreConsistent RollbackRestoresDatabase
PROPERTY RecoveredIsCommitted
CHECK_DEADLOCK FALSE
