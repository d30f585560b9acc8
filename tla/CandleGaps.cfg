SPECIFICATION Spec
CONSTANTS
  Instruments = {i1}
  Prices = {0, 1, 2}
  Times = {0, 2, 4, 6, 8}
  SessionTimes = {0, 2, 4, 6}
  MinuteLength = 2
  HistoryBar <- MCHistoryBar
  StoreMayFail = FALSE
  MaxFailures = 0
  MaxInputs = 3
  MaxRestarts = 0
  MaxBackfills = 1
CHECK_DEADLOCK FALSE
INVARIANT MissingBarsFound
