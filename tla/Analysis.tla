------------------------------- MODULE Analysis -------------------------------
(***************************************************************************)
(* A series that grows by one closed bar at a time, and what the detectors *)
(* of strategies/ and the backtest say of it.  The detectors keep no       *)
(* state: the alerts, the dashboard and a backtest each call them again on *)
(* the longer series, so the question is how an answer relates to the      *)
(* answers given before.                                                   *)
(***************************************************************************)
EXTENDS TradingHours, MarketStructure, SmcPro, ChartPatterns, Backtest

CONSTANTS
  Shapes,    \* the bars the market may close
  MaxBars,   \* bound: length of the series
  Clocks,    \* the minutes at which the bars of a series may open, in order
  Timeframes

Resample == INSTANCE Resampling

ASSUME AnalysisAssumption ==
  /\ MaxBars \in Nat
  /\ \A clock \in Clocks : /\ clock \in Seq(Nat)
                            /\ Len(clock) >= MaxBars
                            /\ \A k \in 2..MaxBars : clock[k - 1] < clock[k]
  /\ Timeframes \subseteq 1..(DayMinutes - SessionClose)   \* at most an hour in the code
  /\ Resample!ResamplingAssumption
  /\ AtrPeriod \in Nat \ {0}
  /\ BlockRange \in Nat \ {0}
  /\ DisplacementRange \in {r \in Nat : r >= BlockRange}
  /\ \A s \in Shapes : /\ {s.open, s.high, s.low, s.close} \subseteq Int
                       /\ s.low <= Min({s.open, s.close})
                       /\ Max({s.open, s.close}) <= s.high

\* A strategy decides on one trade or on none, and its levels are prices too.
ASSUME StrategyAssumption ==
  \A n \in 1..MaxBars : \A series \in [1..n -> Shapes] :
    LET decided == Strategy(series)
    IN decided # <<>> => /\ decided = <<decided[1]>>
                         /\ {decided[1].stop, decided[1].target} \subseteq Int

VARIABLE bars

NothingClosed == bars = <<>>

\* Two bars in a row are never the same: a bound, to afford more shapes.  Equal
\* highs or lows of neighbours come from different shapes.
CloseBar(shape) ==
  /\ Len(bars) < MaxBars
  /\ bars # <<>> => shape # Last(bars)
  /\ bars' = Append(bars, shape)

AnotherBar == \E shape \in Shapes : CloseBar(shape)

Growth == NothingClosed /\ [][AnotherBar]_bars

-----------------------------------------------------------------------------
(* Breaks, by definition: a bar is the first since `from` to close beyond  *)
(* the latest swing up to its own bar.  A bar that is a swing high itself  *)
(* is its own latest swing high, and so breaks no earlier one.             *)

LatestOf(points, i) == Max({None} \cup {s \in points : s <= i})

FirstClose(s, from, i, Beyond(_, _)) ==
  /\ s # None
  /\ Beyond(bars[i].close, s)
  /\ \A j \in (Max({s, from}) + 1)..(i - 1) : ~Beyond(bars[j].close, s)

UpBreaks(from) ==
  LET highs == Swings(bars).highs
      Above(close, s) == close > bars[s].high
  IN {<<i, LatestOf(highs, i)>> :
        i \in {k \in (from + 1)..Len(bars) : FirstClose(LatestOf(highs, k), from, k, Above)}}

DownBreaks(from) ==
  LET lows == Swings(bars).lows
      Below(close, s) == close < bars[s].low
  IN {<<i, LatestOf(lows, i)>> :
        i \in {k \in (from + 1)..Len(bars) : FirstClose(LatestOf(lows, k), from, k, Below)}}

BarsOf(breaks) == {b[1] : b \in breaks}

\* The walks of smc.py and smc_pro.py, written twice, find the same breaks, and
\* these are the first closes beyond the latest swing.  A break is a change of
\* character exactly when it turns the direction of the one before, and a signal
\* is given only at a break, counted from the end of the indicators' warm-up
\* (smc.py:45-74, smc_pro.py:117-188, 341-364).
BreaksAreFirstCloses ==
  LET events == BosChoch(bars)
      Found(direction) == {<<e.bar, e.swing>> : e \in {f \in ToSet(events) : f.direction = direction}}
      up == UpBreaks(0)
      down == DownBreaks(0)
  IN /\ Found("bullish") = up
     /\ Found("bearish") = down
     /\ BlockWalk(bars).breaks = up \cup down
     /\ \A k \in DOMAIN events :
          events[k].label = "CHOCH" <=> k > 1 /\ events[k - 1].direction # events[k].direction
     /\ \A s \in ToSet(TradeSignals(bars)) :
          s.bar \in BarsOf(IF s.direction = "long" THEN UpBreaks(Warmup) ELSE DownBreaks(Warmup))

-----------------------------------------------------------------------------
BreaksUpTo(series, n) ==
  LET events == BosChoch(series)
  IN Picked(events, {k \in DOMAIN events : events[k].bar <= n})

EndedBy(z, n) ==
  \/ z.kind = "order_block" /\ z.end # None /\ z.end <= n
  \/ z.kind = "breaker_block" /\ z.start <= n

EndedUpTo(series, n) ==
  LET zones == OrderBlocks(series)
  IN Picked(zones, {k \in DOMAIN zones : EndedBy(zones[k], n)})

\* What is said of the bars whose swings can no longer change, the breaks and the
\* blocks that have ended, is never said differently of a longer series
\* (patterns_common.py:61, smc.py:17-76, smc_pro.py:86-193).
SettledStructureFinal ==
  [][LET settled == Len(bars) - Lookback
     IN /\ BreaksUpTo(bars', settled) = BreaksUpTo(bars, settled)
        /\ EndedUpTo(bars', settled) = EndedUpTo(bars, settled)]_bars

\* A sweep is reported when its bar closes, an order block when its displacement
\* does and a chart pattern at most Lookback bars after the close that confirms
\* it, and none is ever withdrawn; a displacement that follows a candle against
\* it makes that candle an order block
\* (smc.py:102-186, ict.py:12-45, chart_patterns.py:26-146).
EventsNeverWithdrawn ==
  [][LET sweeps == Sweeps(bars')
         blocks == DisplacementBlocks(bars')
         displacements == Displacements(bars')
         patterns == Patterns(bars')
         n == Len(bars')
     IN /\ Sweeps(bars) = {e \in sweeps : e.bar < n}
        /\ n > AtrPeriod + 2 => DisplacementBlocks(bars) = {b \in blocks : b.displacement < n}
        /\ n > AtrPeriod + 2 =>
             \A d \in displacements :
               (\E b \in blocks : b.displacement = d.bar)
                 <=> d.bar > 1 /\ (IF d.direction = "bullish" THEN Bearish(bars'[d.bar - 1])
                                                               ELSE Bullish(bars'[d.bar - 1]))
        /\ Patterns(bars) \subseteq patterns
        /\ {p \in patterns : p.bar < n - Lookback} \subseteq Patterns(bars)]_bars

\* The signals of a series are signals of every longer one
\* (smc_pro.py:12-13, "non-repainting").
SignalsFinal == [][ToSet(TradeSignals(bars)) \subseteq ToSet(TradeSignals(bars'))]_bars

-----------------------------------------------------------------------------
GapOf(z) == [bar |-> z.start + 2, bias |-> z.bias, top |-> z.top, bottom |-> z.bottom]

FirstFill(z) ==
  LET fills == {i \in (z.start + 3)..Len(bars) : ClosedThrough(z, bars[i].close)}
  IN IF fills = {} THEN None ELSE Min(fills)

\* The gaps tracked by smc_pro.py are those of smc.py.  Each ends at the first
\* close through it, where its inverse begins, and the newest ones, twice as many
\* as max_active says, are all among them (smc_pro.py:196-232, smc.py:79-99).
GapsTracked ==
  LET walk == GapWalk(bars)
      all == ToSet(walk.zones \o walk.active)
      gaps == {z \in all : ~z.inverse}
      found == FairValueGaps(bars)
  IN /\ {GapOf(z) : z \in gaps} \subseteq found
     /\ \A z \in gaps : z.end = FirstFill(z)
     /\ \A z \in all \ gaps :
          \E g \in gaps : /\ g.end = z.start
                          /\ g.bias = Flipped(z.bias)
                          /\ <<g.top, g.bottom>> = <<z.top, z.bottom>>
     /\ \A g \in found :
          Cardinality({h \in found : h.bar > g.bar}) < 2 * MaxGaps =>
            g \in {GapOf(z) : z \in gaps}

-----------------------------------------------------------------------------
\* The series in the candle table, if its bars open at a clock's minutes.
Stored(series, clock) ==
  [m \in {clock[k] : k \in DOMAIN series} |->
     series[CHOOSE k \in DOMAIN series : clock[k] = m]]

\* Does a bar of n minutes hold a minute that opens at the session's close or later?
HoldsClose(start, minutes, n) ==
  \E m \in minutes : Resample!BucketStart(m, n) = start /\ m >= Resample!Closing(m)

\* A bar of a longer timeframe, once it is closed, never changes, whatever minutes
\* are missing, before the session's opening, on a holiday, or of the next day;
\* but for a bar that a tick at the very end of the session is added to
\* (resample.py:7-13, 86-121).
ResampledBarsFinal ==
  [][\A clock \in Clocks, n \in Timeframes :
       LET before == Resample!ClosedBars(Stored(bars, clock), n)
           later == Stored(bars', clock)
           after == Resample!ClosedBars(later, n)
       IN \A start \in DOMAIN before :
            ~HoldsClose(start, DOMAIN later, n) =>
              start \in DOMAIN after /\ after[start] = before[start]]_bars

-----------------------------------------------------------------------------
\* A backtest over a longer series makes the same trades again: those that ended
\* at their stop or target stay, whatever the market does next, and they never
\* overlap (harness.py:3-10, 111-136).
TradesWalkForward ==
  [][LET before == Trades(bars)
         after == Trades(bars')
     IN /\ \A k \in DOMAIN before :
             before[k].reason # "end_of_data" => k \in DOMAIN after /\ after[k] = before[k]
        /\ \A k \in 1..(Len(after) - 1) : after[k].exit < after[k + 1].entry]_bars

\* The summary's drawdown is the worst fall between any two points of the equity
\* curve, which starts at nothing (harness.py:151-159).
DrawdownIsWorstFall ==
  LET summary == Summary(Trades(bars))
      Equity(k) == IF k = 0 THEN 0 ELSE summary.curve[k]
      points == 0..Len(summary.curve)
  IN summary.drawdown =
       Max({Equity(p[1]) - Equity(p[2]) : p \in {q \in points \X points : q[1] <= q[2]}})

=============================================================================
