SPECIFICATION FairSpec
CONSTANTS
  Symbols = {s1, s2}
  Workers = {w1, w2}
  MainThread = w1
  NoWorker = NoWorker
  Starts = {0, 2}
  To = 11
  WindowLength = 4
  DayMinutes = 4
  SessionOpen = 1
  SessionClose = 3
  MaxAttempts = 2
  RequestGap = 2
  MaxRefusals = 2
  MayRenew = TRUE
INVARIANTS TypeOK FinishedRangesCovered RequestsSpaced
PROPERTY DownloadEnds
CHECK_DEADLOCK FALSE
