--------------------------- MODULE MarketStructure ---------------------------
(***************************************************************************)
(* strategies/smc.py: breaks of structure, gaps, order blocks and          *)
(* liquidity sweeps; and the displacements of strategies/ict.py.  The ATR  *)
(* is a constant here, with a value from bar AtrPeriod on.                 *)
(***************************************************************************)
EXTENDS SwingPoints

CONSTANTS
  AtrPeriod,
  BlockRange,        \* 1.5 times the ATR, of a displacement after an order block
  DisplacementRange  \* 2 times the ATR, of a displacement by itself

Opposite(direction) == IF direction = "bullish" THEN "bearish" ELSE "bullish"

\* An event of detect_bos_choch.
Break(trend, i, direction, swing) ==
  [label |-> IF trend = Opposite(direction) THEN "CHOCH" ELSE "BOS",
   bar |-> i, direction |-> direction, swing |-> swing]

\* One bar of detect_bos_choch: an upward break first, then a downward one.
BreakStep(bars, swings, before, i) ==
  LET levels == Reached(swings, before.levels, i)
      up == BreaksUp(bars, levels, i)
      down == BreaksDown(bars, levels, i)
      trend == IF up THEN "bullish" ELSE before.trend
  IN [levels |-> Consumed(bars, levels, i),
      trend |-> IF down THEN "bearish" ELSE trend,
      events |-> before.events
        \o (IF up THEN <<Break(before.trend, i, "bullish", levels.high)>> ELSE <<>>)
        \o (IF down THEN <<Break(trend, i, "bearish", levels.low)>> ELSE <<>>)]

\* detect_bos_choch
BosChoch(bars) ==
  LET swings == Swings(bars)
      walk[i \in 0..Len(bars)] ==
        IF i = 0 THEN [levels |-> NoLevels, trend |-> "unknown", events |-> <<>>]
                 ELSE BreakStep(bars, swings, walk[i - 1], i)
  IN walk[Len(bars)].events

-----------------------------------------------------------------------------
(* Fair value gaps, at the bar that completes them.                        *)

\* detect_fair_value_gaps
FairValueGaps(bars) ==
  {[bar |-> i, bias |-> "bullish", top |-> bars[i].low, bottom |-> bars[i - 2].high] :
     i \in {k \in 3..Len(bars) : bars[k - 2].high < bars[k].low}}
  \cup
  {[bar |-> i, bias |-> "bearish", top |-> bars[i - 2].low, bottom |-> bars[i].high] :
     i \in {k \in 3..Len(bars) : bars[k - 2].low > bars[k].high}}

-----------------------------------------------------------------------------
(* Displacements: a bar of an uncommon range.                              *)

RangeOf(bar) == bar.high - bar.low

Moves(bars, i, range) == i >= AtrPeriod /\ RangeOf(bars[i]) >= range

Bias(bar) == IF bar.close > bar.open THEN "bullish" ELSE "bearish"

\* ict.detect_displacement: nearly all of the range is the bar's body.
Displacements(bars) ==
  IF Len(bars) < AtrPeriod + 1 THEN {}
  ELSE {[bar |-> i, direction |-> Bias(bars[i])] :
          i \in {k \in DOMAIN bars :
                   /\ Moves(bars, k, DisplacementRange)
                   /\ RangeOf(bars[k]) > 0
                   /\ 10 * Max({bars[k].close - bars[k].open, bars[k].open - bars[k].close})
                        >= 7 * RangeOf(bars[k])}}

\* smc.detect_order_blocks: a candle against the displacement that follows it.
DisplacementBlocks(bars) ==
  IF Len(bars) < AtrPeriod + 2 THEN {}
  ELSE {[bar |-> i - 1, displacement |-> i, direction |-> Bias(bars[i])] :
          i \in {k \in 2..Len(bars) :
                   /\ Moves(bars, k, BlockRange)
                   /\ bars[k - 1].close # bars[k - 1].open
                   /\ Bias(bars[k - 1]) = Opposite(Bias(bars[k]))}}

-----------------------------------------------------------------------------
(* Liquidity sweeps: a wick beyond a swing and a close back inside it.     *)

SweepsHigh(bars, s, i) == bars[i].high > bars[s].high /\ bars[i].close < bars[s].high
SweepsLow(bars, s, i) == bars[i].low < bars[s].low /\ bars[i].close > bars[s].low

\* The search of a level ends at its first sweep or at a close beyond it.
EndsHigh(bars, s, i) == SweepsHigh(bars, s, i) \/ bars[i].close > bars[s].high
EndsLow(bars, s, i) == SweepsLow(bars, s, i) \/ bars[i].close < bars[s].low

EndOfHigh(bars, s) == Earliest({i \in (s + 1)..Len(bars) : EndsHigh(bars, s, i)})
EndOfLow(bars, s) == Earliest({i \in (s + 1)..Len(bars) : EndsLow(bars, s, i)})

\* detect_liquidity_sweeps
Sweeps(bars) ==
  LET swings == Swings(bars)
      high == {p \in swings.highs \X DOMAIN bars :
                 p[2] \in EndOfHigh(bars, p[1]) /\ SweepsHigh(bars, p[1], p[2])}
      low == {p \in swings.lows \X DOMAIN bars :
                p[2] \in EndOfLow(bars, p[1]) /\ SweepsLow(bars, p[1], p[2])}
  IN {[swing |-> p[1], bar |-> p[2], direction |-> "bearish"] : p \in high}
     \cup {[swing |-> p[1], bar |-> p[2], direction |-> "bullish"] : p \in low}

=============================================================================
