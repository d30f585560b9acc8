-------------------------------- MODULE SmcPro -------------------------------
(***************************************************************************)
(* strategies/smc_pro.py: order blocks and breakers, fair value gaps and   *)
(* their inversion, and the scored trade signals.                          *)
(*                                                                         *)
(* The indicators behind a signal's score are data here: a bar carries the *)
(* points its EMA, VWAP, ADX and volume conditions are worth to a signal   *)
(* of either direction, and the ATR is a constant.  A stop is in quarters of a price unit, as the buffer is *)
(* a quarter of the ATR.                                                   *)
(***************************************************************************)
EXTENDS SwingPoints

CONSTANTS
  SearchWindow,   \* how far back the block's candle is looked for
  MaxBlocks,      \* active order blocks kept per side
  MaxGaps,        \* max_active of the gaps: twice as many are kept, inverse ones among them
  Warmup,         \* bars without a value of the slowest indicator
  MinSignalBars,  \* series shorter than this give no signal
  MinScore,
  Atr

ASSUME SmcProAssumption ==
  /\ SearchWindow \in Nat \ {0}
  /\ MaxBlocks \in Nat \ {0}
  /\ MaxGaps \in Nat \ {0}
  /\ Warmup \in Nat
  /\ MinSignalBars \in Nat
  /\ MinScore \in Nat
  /\ Atr \in Nat

Flipped(bias) == IF bias = "bullish" THEN "bearish" ELSE "bullish"

Zone(kind, bias, top, bottom, start) ==
  [kind |-> kind, bias |-> bias, top |-> top, bottom |-> bottom,
   start |-> start, end |-> None, inverse |-> FALSE]

EndedAt(z, i) == [z EXCEPT !.end = i]

\* A close beyond the far edge.
ClosedThrough(z, close) ==
  IF z.bias = "bullish" THEN close < z.bottom ELSE close > z.top

\* The members of a sequence at some places, in order.
Picked(seq, places) ==
  LET picked[k \in 0..Len(seq)] ==
        IF k = 0 THEN <<>>
        ELSE IF k \in places THEN Append(picked[k - 1], seq[k]) ELSE picked[k - 1]
  IN picked[Len(seq)]

-----------------------------------------------------------------------------
(* Order blocks and breaker blocks.                                        *)

Bearish(bar) == bar.close < bar.open
Bullish(bar) == bar.close > bar.open

\* The block of a break at bar i: the last candle against the break, if the
\* search window holds one.
BlockOf(bars, i, bias) ==
  LET against == {j \in Max({1, i - SearchWindow})..(i - 1) :
                    IF bias = "bullish" THEN Bearish(bars[j]) ELSE Bullish(bars[j])}
      candle == Max(against)
  IN IF against = {} THEN <<>>
     ELSE <<Zone("order_block", bias, bars[candle].high, bars[candle].low, candle)>>

Newest(seq, n) == SubSeq(seq, 1, Min({Len(seq), n}))

BreakerOf(z, i) == Zone("breaker_block", Flipped(z.bias), z.top, z.bottom, i)

\* What the mitigated blocks leave behind: the ended block and its breaker.
Remains(blocks, i) ==
  FlattenSeq([k \in DOMAIN blocks |-> <<EndedAt(blocks[k], i), BreakerOf(blocks[k], i)>>])

\* One bar of detect_order_blocks_and_breakers: the old blocks are tested before
\* a new one is added.
BlockStep(bars, swings, before, i) ==
  LET levels == Reached(swings, before.levels, i)
      Gone(blocks) == {k \in DOMAIN blocks : ClosedThrough(blocks[k], bars[i].close)}
      Held(blocks) == (DOMAIN blocks) \ Gone(blocks)
      up == BreaksUp(bars, levels, i)
      down == BreaksDown(bars, levels, i)
  IN [levels |-> Consumed(bars, levels, i),
      zones |-> before.zones \o Remains(Picked(before.bulls, Gone(before.bulls)), i)
                             \o Remains(Picked(before.bears, Gone(before.bears)), i),
      bulls |-> Newest((IF up THEN BlockOf(bars, i, "bullish") ELSE <<>>)
                         \o Picked(before.bulls, Held(before.bulls)), MaxBlocks),
      bears |-> Newest((IF down THEN BlockOf(bars, i, "bearish") ELSE <<>>)
                         \o Picked(before.bears, Held(before.bears)), MaxBlocks),
      breaks |-> before.breaks \cup (IF up THEN {<<i, levels.high>>} ELSE {})
                               \cup (IF down THEN {<<i, levels.low>>} ELSE {})]

BlockWalk(bars) ==
  LET swings == Swings(bars)
      walk[i \in 0..Len(bars)] ==
        IF i = 0
        THEN [levels |-> NoLevels, zones |-> <<>>, bulls |-> <<>>, bears |-> <<>>,
              breaks |-> {}]
        ELSE BlockStep(bars, swings, walk[i - 1], i)
  IN walk[Len(bars)]

\* detect_order_blocks_and_breakers: what has ended, then what is active.
OrderBlocks(bars) ==
  LET w == BlockWalk(bars) IN w.zones \o w.bulls \o w.bears

-----------------------------------------------------------------------------
(* Fair value gaps.                                                        *)

\* The gap that bar i completes.
GapAt(bars, i) ==
  IF i < 3 THEN <<>>
  ELSE IF bars[i - 2].high < bars[i].low
  THEN <<Zone("fair_value_gap", "bullish", bars[i].low, bars[i - 2].high, i - 2)>>
  ELSE IF bars[i - 2].low > bars[i].high
  THEN <<Zone("fair_value_gap", "bearish", bars[i - 2].low, bars[i].high, i - 2)>>
  ELSE <<>>

\* Mutant of Fills: a close inside the gap flips it too.
FillsPartly(z, close) ==
  ~z.inverse /\ (IF z.bias = "bullish" THEN close < z.top ELSE close > z.bottom)

Fills(z, close) == ~z.inverse /\ ClosedThrough(z, close)

Inverted(z, i) == [Zone(z.kind, Flipped(z.bias), z.top, z.bottom, i) EXCEPT !.inverse = TRUE]

\* One bar of detect_fvg_with_inverse: filled gaps are flipped in place.
GapStep(bars, before, i) ==
  LET old == before.active
      places == {k \in DOMAIN old : Fills(old[k], bars[i].close)}
      filled == Picked(old, places)
  IN [zones |-> before.zones \o [k \in DOMAIN filled |-> EndedAt(filled[k], i)],
      active |-> Newest(GapAt(bars, i)
        \o [k \in DOMAIN old |-> IF k \in places THEN Inverted(old[k], i) ELSE old[k]],
        2 * MaxGaps)]

GapWalk(bars) ==
  LET walk[i \in 0..Len(bars)] ==
        IF i = 0 THEN [zones |-> <<>>, active |-> <<>>]
                 ELSE GapStep(bars, walk[i - 1], i)
  IN walk[Len(bars)]

-----------------------------------------------------------------------------
(* Trade signals.                                                          *)

\* active_obs_at: the blocks of the whole series that start by bar i and end
\* after it.
ActiveBlocks(blocks, i, bias) ==
  SelectSeq(blocks, LAMBDA z : /\ z.kind = "order_block"
                               /\ z.bias = bias
                               /\ z.start <= i
                               /\ z.end = None \/ z.end > i)

Score(bar, obs, direction) ==
  25 + bar.points[direction] + (IF obs = <<>> THEN 0 ELSE 10)

\* The stop of a signal: beyond the first block's far edge, or 1.5 ATR away.
StopFor(bar, obs, direction) ==
  IF direction = "long"
  THEN (IF obs = <<>> THEN 4 * bar.close - 6 * Atr ELSE 4 * obs[1].bottom) - Atr
  ELSE (IF obs = <<>> THEN 4 * bar.close + 6 * Atr ELSE 4 * obs[1].top) + Atr

Risk(bar, stop, direction) ==
  IF direction = "long" THEN 4 * bar.close - stop ELSE stop - 4 * bar.close

SignalAt(bars, blocks, i, direction) ==
  LET obs == ActiveBlocks(blocks, i, IF direction = "long" THEN "bullish" ELSE "bearish")
      stop == StopFor(bars[i], obs, direction)
  IN IF Score(bars[i], obs, direction) >= MinScore /\ Risk(bars[i], stop, direction) > 0
     THEN <<[bar |-> i, direction |-> direction, stop |-> stop,
              score |-> Score(bars[i], obs, direction)]>>
     ELSE <<>>

\* One bar of compute_trade_signals: without indicators the levels move on and
\* nothing is broken.
SignalStep(bars, swings, blocks, before, i) ==
  LET levels == Reached(swings, before.levels, i)
  IN IF i <= Warmup
     THEN [before EXCEPT !.levels = levels]
     ELSE [levels |-> Consumed(bars, levels, i),
           signals |-> before.signals
             \o (IF BreaksUp(bars, levels, i) THEN SignalAt(bars, blocks, i, "long") ELSE <<>>)
             \o (IF BreaksDown(bars, levels, i) THEN SignalAt(bars, blocks, i, "short") ELSE <<>>)]

\* compute_trade_signals on the blocks of the same series.
TradeSignals(bars) ==
  LET swings == Swings(bars)
      blocks == OrderBlocks(bars)
      walk[i \in 0..Len(bars)] ==
        IF i = 0 THEN [levels |-> NoLevels, signals |-> <<>>]
                 ELSE SignalStep(bars, swings, blocks, walk[i - 1], i)
  IN IF Len(bars) < MinSignalBars THEN <<>> ELSE walk[Len(bars)].signals

=============================================================================
