CONSTANTS
  Workloads <- OnlyConjunctUnion
  MaxWrites = 0
  NoRow = NoRow
SPECIFICATION Spec
INVARIANT OnlyMatchingRows
CHECK_DEADLOCK FALSE
