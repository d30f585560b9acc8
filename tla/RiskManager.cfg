SPECIFICATION Spec
CONSTANTS
  MaxDailyLoss = 3
  MaxTradesPerDay = 3
  MaxOpenPositions = 2
  CooldownAfter = 2
  CooldownDuration = 2
  RiskBudget = 13
  DayLength = 4
  IstOffset = 1
  SessionStart = 1
  SessionEnd = 3
  TradingDays <- MCTradingDays
  Signals <- MCSignals
  LotSizes = {2}
  Pnls <- MCPnls
  MaxTime = 5
INVARIANTS TypeOK TradesPerDayBounded SlotsMatchLiveTrades CountersMatchHistory SizedToBudget
PROPERTIES CooldownRespected NoOpenBeyondDailyLoss
