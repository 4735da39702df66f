CONSTANTS
  DbNames = {"d"}
  TableNames = {"a", "b"}
  IndexNames = {"i"}
  InitialTables = {"a"}
  Workloads <- RenameAfterDdl  \* or RepeatedDdl, or FailedSync; RenamedTwice with INVARIANT RollbackRestoresDatabase
  MaxRows = 2
  MaxWidth = 2
  MaxStatements = 5
  MaxSaves = 1
  NoDb = NoDb
SPECIFICATION Spec
PROPERTY RecoveredIsCommitted
CHECK_DEADLOCK FALSE
