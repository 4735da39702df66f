CONSTANTS
  Subject = "t"
  Catalogs <- TwoCatalogs
  NewColumns <- Added
  NewNames <- Renamed
  NewIndexes <- Indexed
  Vals = {1, 2}
  MaxRows = 2
  MaxStatements = 3
  Null = Null
  NoRow = NoRow
  NoName = NoName
  NoFill = NoFill
  Quote = "quote"
  Backslash = "backslash"
  Nothing = Nothing
  Sources <- TypedStatements
  NewWords <- Keywords
SPECIFICATION DdlSpec
INVARIANTS RollbackRestoresTables NoInternalError ConstraintsHold ReplayIsExact LoadIsExact
PROPERTY AlterKeepsTheRest
VIEW StateView
CHECK_DEADLOCK FALSE
