SPECIFICATION FairSpec
CONSTANTS
  DailyLossLimit = 1
  StreakLimit = 0
  CooldownTicks = 0
  HealthStreakLimit = 3
  DayLength = 1
  Procs = {"bot", "watcher", "cycle"}
  Chats <- MCChats
  Pnls <- MCPnls
  MaxCloses = 1
  MaxFaults = 1
  Drafts = {"approved"}
  MaxRegisters = 1
  MaxRevivals = 1
INVARIANTS
  TypeOK
  NoneSkipped
  OneOrderPerApproval
  LastWordStands
PROPERTIES
  CommandsHandled
CHECK_DEADLOCK FALSE
