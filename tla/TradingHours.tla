----------------------------- MODULE TradingHours -----------------------------
(***************************************************************************)
(* config/market_calendar.py: when the market is open.  What is computed   *)
(* from stored candles depends on it, and so do its readers.               *)
(***************************************************************************)
CONSTANTS
  DayMinutes,    \* minutes in a day
  SessionOpen,   \* minute of the day the session opens
  SessionClose,  \* and the one it closes
  TradingDays    \* the days that have a session

=============================================================================
