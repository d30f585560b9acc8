----------------------------- MODULE SwingPoints -----------------------------
(***************************************************************************)
(* strategies/patterns_common.py: the swing points every structure and     *)
(* chart-pattern detector starts from.  A series is a sequence of closed   *)
(* bars, oldest first, numbered from 1; a detector is a function of the    *)
(* whole series and is called again for every longer one.                  *)
(***************************************************************************)
EXTENDS Integers, Sequences, FiniteSets, FiniteSetsExt, SequencesExt

CONSTANT Lookback   \* bars on each side that make a swing; the code refuses 0

ASSUME LookbackAssumption == Lookback \in Nat \ {0}

None == 0   \* no bar

\* The first of some bars, if there is any.
Earliest(found) == IF found = {} THEN {} ELSE {Min(found)}

\* The bars with a complete window on both sides: the last Lookback bars can not
\* be known to be swings yet.
Confirmable(bars) == (Lookback + 1)..(Len(bars) - Lookback)

Window(bars, i) == ((i - Lookback)..(i + Lookback)) \ {i}

Peaks(bars, i) == \A j \in Window(bars, i) : bars[j].high < bars[i].high
Dips(bars, i) == \A j \in Window(bars, i) : bars[j].low > bars[i].low

\* find_swing_points: a bar that is both is a swing high.
Swings(bars) ==
  LET highs == {i \in Confirmable(bars) : Peaks(bars, i)}
  IN [highs |-> highs,
      lows |-> {i \in Confirmable(bars) \ highs : Dips(bars, i)}]

-----------------------------------------------------------------------------
(* The walk over the bars that smc.py and smc_pro.py share: the latest     *)
(* swing high and swing low that no close has broken.                      *)

NoLevels == [high |-> None, low |-> None]

\* Mutant of Reached: a broken level is taken up again.
ReachedAgain(swings, levels, i) ==
  [high |-> Max({None} \cup {s \in swings.highs : s <= i}),
   low |-> Max({None} \cup {s \in swings.lows : s <= i})]

\* Mutant of Reached: the lag is taken off where it should be added.
ReachedAhead(swings, levels, i) ==
  [high |-> IF i + Lookback \in swings.highs THEN i + Lookback ELSE levels.high,
   low |-> IF i + Lookback \in swings.lows THEN i + Lookback ELSE levels.low]

\* A swing becomes the level at its own bar, although it is confirmed, and so
\* in the series at all, only Lookback bars later.
Reached(swings, levels, i) ==
  [high |-> IF i \in swings.highs THEN i ELSE levels.high,
   low |-> IF i \in swings.lows THEN i ELSE levels.low]

BreaksUp(bars, levels, i) ==
  /\ levels.high \notin {None, i}
  /\ bars[i].close > bars[levels.high].high

BreaksDown(bars, levels, i) ==
  /\ levels.low \notin {None, i}
  /\ bars[i].close < bars[levels.low].low

\* A broken level is consumed.
Consumed(bars, levels, i) ==
  [high |-> IF BreaksUp(bars, levels, i) THEN None ELSE levels.high,
   low |-> IF BreaksDown(bars, levels, i) THEN None ELSE levels.low]

=============================================================================
