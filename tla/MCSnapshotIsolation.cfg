CONSTANTS
  x = x
  y = y
  NoRow = NoRow
  Cols <- OneCol
  Vals <- MCVals
  Keys <- MCKeys
  Images <- MCImages
  Predicates <- MCPredicates
  Loaded <- EmptyOrOne
  MaxTxns = 3
  MaxRows = 1
  MaxVersions = 2
SPECIFICATION TableSpec
INVARIANTS TableOK ReadsCurrentAtCommit SerializableInCommitOrder RetainedForActive RefusedOnlyOnConflict RetainedSetsAreNeeded
PROPERTY RepeatableReads
VIEW StateView
CONSTRAINT Bounded
CHECK_DEADLOCK FALSE
