SPECIFICATION FairSpec
CONSTANTS
  Instruments <- MCInstruments
  Minutes = {1, 2, 3}
  Universe <- MCUniverse
  MinBars = 1
  MaxErrors = 1
  MaxLives = 1
  MaxAlerts = 2
  DayMinutes = 8
  SessionOpen = 0
  SessionClose = 4
  TradingDays = {0}
  Chats = 2
  MaxMigrations = 1
  MaxOutages = 1
  MaxFaults = 1
INVARIANTS AlertsGoForwardUnlessReopened EveryChatServed
PROPERTY NewBarsAreSeen
CHECK_DEADLOCK FALSE
