------------------------------ MODULE Resampling ------------------------------
(***************************************************************************)
(* data/resample.py: closed 1-minute bars grouped into bars of n minutes   *)
(* that start at the session's opening.  A minute is counted from the      *)
(* first day's midnight and stands for the bar that opens with it; the     *)
(* bars' times are their closing times.                                    *)
(***************************************************************************)
EXTENDS TradingHours, Integers, FiniteSets, FiniteSetsExt

\* What the module takes for granted of its constants; its users assume it.
ResamplingAssumption ==
  /\ DayMinutes \in Nat \ {0}
  /\ SessionOpen \in 0..DayMinutes
  /\ SessionClose \in SessionOpen..DayMinutes
  /\ TradingDays \subseteq Nat

Day(m) == m \div DayMinutes
Opening(m) == Day(m) * DayMinutes + SessionOpen
Closing(m) == Day(m) * DayMinutes + SessionClose

\* Pre-open minutes fall in buckets before the opening.
BucketStart(m, n) == Opening(m) + n * ((m - Opening(m)) \div n)

BucketEnd(m, n) == Min({BucketStart(m, n) + n, Closing(m)})

OnTradingDays(minutes) == {m \in minutes : Day(m) \in TradingDays}

\* Mutant of Completes: a bar is closed while its minutes still come in.
CompletesAtOnce(m, n) == BucketStart(m, n) <= m

\* is_closed: a minute's bar ends with the bar of n minutes, or after it.
Completes(m, n) == m + 1 >= BucketEnd(m, n)

\* The minutes that complete a bar.
Completing(minutes, n) == {m \in OnTradingDays(minutes) : Completes(m, n)}

\* The closing times of the closed bars of n minutes, all that readers keep.
ClosedBarTimes(minutes, n) ==
  IF n = 1
  THEN {m + 1 : m \in minutes}
  ELSE {BucketEnd(m, n) : m \in Completing(minutes, n)}

\* The bar of some minutes: first open, highest high, lowest low, last close.
Merged(bars, minutes) ==
  [open |-> bars[Min(minutes)].open,
   high |-> Max({bars[m].high : m \in minutes}),
   low |-> Min({bars[m].low : m \in minutes}),
   close |-> bars[Max(minutes)].close]

\* resample_candles with its closed bars only, by the minute they start at.
ClosedBars(bars, n) ==
  IF n = 1
  THEN bars
  ELSE [start \in {BucketStart(m, n) : m \in Completing(DOMAIN bars, n)} |->
          Merged(bars, {m \in OnTradingDays(DOMAIN bars) : BucketStart(m, n) = start})]

=============================================================================
