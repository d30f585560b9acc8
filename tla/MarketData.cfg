SPECIFICATION Spec
CONSTANTS
  Instruments = {i1, i2}
  Prices = {0, 1, 2}
  Times = {0, 1, 6, 8}
  SessionTimes = {0, 1, 6}
  MinuteLength = 2
  HistoryBar <- MCHistoryBar
  StoreMayFail = TRUE
  MaxFailures = 1
  MaxInputs = 3
  MaxRestarts = 1
  MaxBackfills = 1
INVARIANTS TypeOK CandlesFromTicks OpenBarsInProgress GapsStayBehind EventsAccountForTicks
PROPERTY ClosedBarsFinal ImplementsFeed
CHECK_DEADLOCK FALSE
SYMMETRY MCSymmetry
