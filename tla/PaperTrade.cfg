SPECIFICATION Spec
CONSTANTS
  Keepers = {"backtest", "watcher"}
  Plans <- MCPlans
  Books <- MCBooks
  Prices <- MCPrices
  Candles <- MCCandles
  TopPrice = 6
  Atrs = {0, 1}
  MaxBars = 5
  SlipDen = 20
  FeeDen = 10
  Lot = 2
  TrailTrigger = 2
  TrailKeep = 1
  MaxHold = 2
  MinMfe = 3
INVARIANTS
  TypeOK
  TradeIsItsFills
  LossBounded
CHECK_DEADLOCK FALSE
