CONSTANTS
  Workloads <- AllQueryWorkloads
  MaxWrites = 1
  NoRow = NoRow
  MaxIterations = 3
  MaxRows = 5
SPECIFICATION QuerySpec
INVARIANTS AnswerIsExact ChangesConflict JoinIsExact QueryIsExact LimitsAreExact
CHECK_DEADLOCK FALSE
