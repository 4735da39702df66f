CONSTANTS
  DbNames = {"d"}
  TableNames = {"a", "b"}
  IndexNames = {}
  InitialTables = {"a"}
  Workloads <- MixedCommit
  MaxRows = 2
  MaxWidth = 2
  MaxStatements = 4
  MaxSaves = 0
  NoDb = NoDb
SPECIFICATION Spec
PROPERTY RecoveredIsCommitted
CHECK_DEADLOCK FALSE
