CONSTANTS
  x = x
  y = y
  Rows <- TwoRows
  NoRow = NoRow
  RowsPerPage = 2
  BufferCapacity = 2
  MaxSlots = 5
SPECIFICATION Spec
INVARIANTS CachesAreCoherent LayoutIsValid FreeListExact
PROPERTY RefinesRowStore
SYMMETRY RowSymmetry
CHECK_DEADLOCK FALSE
