CONSTANTS
  DbNames = {"d"}
  TableNames = {"a"}
  IndexNames = {}
  InitialTables = {"a"}
  Workloads <- SavesTwice
  MaxRows = 2
  MaxWidth = 2
  MaxStatements = 4
  MaxSaves = 2
  NoDb = NoDb
SPECIFICATION Spec
PROPERTY RecoveredIsCommitted
CHECK_DEADLOCK FALSE
