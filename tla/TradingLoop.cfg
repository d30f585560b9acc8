SPECIFICATION Spec
CONSTANTS
  MaxDailyLoss = 15000
  MaxTradesPerDay = 3
  MaxOpenPositions = 2
  CooldownAfter = 2
  CooldownDuration = 1
  RiskBudget = 10
  DayLength = 2
  IstOffset = 0
  SessionStart = 0
  SessionEnd = 1
  TradingDays <- MCTradingDays
  MaxTime = 2
  RateUnit = 10
  BrokerageFlat = 6
  BrokeragePct = 0
  SttPct = 0
  TxnPct = 1
  SebiPct = 0
  StampPct = 0
  GstPct = 2
  Instruments = {i1}
  Prices <- MCFewPrices
  Weights <- MCWeights
  ScoreUnit = 10
  ScoreThreshold = 7
  MinFactors = 3
  MinStrength = 3
  StopMultiple = 2
  TargetMultiples <- MCTargets
  Inputs <- MCInputs
  Signals <- MCSignals
  SlippageBps = 1
  SlippageUnit = 20
  StoreMayFail = TRUE
  MaxOrders = 3
  MaxBars = 1
  LotSize = 1
  MayRestart = TRUE
INVARIANTS SlotsMatchBook ExposureWithinLimit OrdersRestOnConfluence
