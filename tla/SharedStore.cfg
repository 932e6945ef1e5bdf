SPECIFICATION SSSpec
CONSTANTS
  A = A
  B = B
  Symbols = {A, B}
  LossWindow = 2
  ProfitWindow = 1
  MaxOpen = 2
  Screens <- MCScreens
  Watchlists <- MCWatchlists
  PaperExits = {"stop_hit"}
  ScriptExits = {"sl_hit", "tp_hit"}
  PaperSeqs = {1}
  MaxTime = 2
  MaxRows = 3
  MaxUntracked = 1
INVARIANTS
  SSTypeOK
  DirtyExplained
PROPERTIES
  ReentryNeedsPaper
CHECK_DEADLOCK FALSE
