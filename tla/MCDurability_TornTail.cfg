CONSTANTS
  DbNames = {"d"}
  TableNames = {"a"}
  IndexNames = {}
  InitialTables = {"a"}
  Workloads <- TornThenRestart
  MaxRows = 2
  MaxWidth = 2
  MaxStatements = 4
  MaxSaves = 0
  NoDb = NoDb
SPECIFICATION Spec
PROPERTY RecoveredIsCommitted
CHECK_DEADLOCK FALSE
