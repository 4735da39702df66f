CONSTANTS
  Clients = {c1, c2}
  NumRows = 2
  Statements <- StatementSet
  InitialValue = 0
  NoStatement = NoStatement
  MaxCalls = 2
SPECIFICATION Spec
PROPERTIES CallsAreAtomic CallsReturn
CHECK_DEADLOCK FALSE
