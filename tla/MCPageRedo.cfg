CONSTANTS
  x = x
  y = y
  Rows <- TwoRows
  NoRow = NoRow
  RowsPerPage = 2
  BufferCapacity = 1
  MaxSlots = 4
  MaxLog = 4
  MaxRollbacks = 1
SPECIFICATION RedoSpec
INVARIANTS RowsAreCommitted RecoveredLayoutIsValid
PROPERTY RecoveryFinishes
CHECK_DEADLOCK FALSE
