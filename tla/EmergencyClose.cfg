SPECIFICATION ECSpec
CONSTANTS
  Symbols = {sym1, sym2}
  MaxTrades = 4
  MaxResends = 1
  MaxFailures = 1
INVARIANTS
  ECTypeOK
  NothingLeftBehind
PROPERTIES
  SuccessIsFlat
CHECK_DEADLOCK FALSE
