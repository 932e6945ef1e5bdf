SPECIFICATION FairSpec
CONSTANTS
  DailyLossLimit = 4
  StreakLimit = 2
  CooldownTicks = 1
  HealthStreakLimit = 2
  DayLength = 2
  Procs = {"auto", "watcher", "operator", "reset"}
  AutoCycles = {"auto"}
  LiveCycles = {}
  TradeCap = 1
  QueueLen = 0
  Pnls <- MCPnls
  Windows = {0}
  MaxTime = 3
  LastEventTime = 1
  MaxCloses = 2
  MaxCommands = 0
PROPERTIES
  CooldownClears
CHECK_DEADLOCK FALSE
