SPECIFICATION Growth
CONSTANTS
  Lookback = 1
  AtrPeriod = 2
  BlockRange = 3
  DisplacementRange = 4
  SearchWindow = 3
  MaxBlocks = 1
  MaxGaps = 1
  Warmup = 4
  MinSignalBars = 6
  MinScore = 65
  Atr = 1
  MaxBars = 7
  Shapes <- MCShapes
  Strategy <- MCStrategy
  TopTolerance <- MCTopTolerance
  Clocks <- MCClocks
  Timeframes = {3}
  DayMinutes = 12
  SessionOpen = 2
  SessionClose = 7
  TradingDays = {0, 2}
  ShoulderTolerance <- MCShoulderTolerance
PROPERTIES SignalsFinal
CHECK_DEADLOCK FALSE
