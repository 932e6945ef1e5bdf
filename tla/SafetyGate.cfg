SPECIFICATION Spec
CONSTANTS
  DailyLossLimit = 2
  StreakLimit = 1
  CooldownTicks = 1
  HealthStreakLimit = 2
  DayLength = 1
  Procs = {"cycle", "watcher", "operator", "reset"}
  AutoCycles = {"cycle"}
  LiveCycles = {"cycle"}
  TradeCap = 2
  QueueLen = 1
  Pnls <- MCPnls
  Windows = {1}
  MaxTime = 1
  LastEventTime = 1
  MaxCloses = 2
  MaxCommands = 1
INVARIANTS
  TypeOK
  DailyLossPauseUntimed
  OneLateEntry
  DayPnlMatchesLedger
PROPERTIES
  PauseEndsLegitimately
CHECK_DEADLOCK FALSE
