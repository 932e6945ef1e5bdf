SPECIFICATION Spec
CONSTANTS
  Specs <- MCSpecs
  MaxPrice = 8
  Leverages = {0, 3, 6}
  LeverageFloor = 5
  DefaultMargin = 25
  MaxMargin = 25
  LossPct = 22
  FeePct = 1
  SlipPct = 1
  MinLiqPct = 30
  MinNetPct = 3
  Threshold = 25
  AskPct = 75
  DailyLimit = 4
  Pnls <- MCPnls
  MaxQueue = 1
INVARIANTS
  TypeOK
  SizeIsLargestThatFits
  FirstLiveTradeAsked
