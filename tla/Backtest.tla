------------------------------- MODULE Backtest -------------------------------
(***************************************************************************)
(* backtesting/harness.py: the walk-forward simulation of a strategy over  *)
(* a series, and the summary of its trades.                                *)
(***************************************************************************)
EXTENDS Integers, Sequences, FiniteSetsExt, SequencesExt

CONSTANT Strategy(_)   \* a series to <<>>, or <<decision>>

Sign(direction) == IF direction = "LONG" THEN 1 ELSE -1

HitStop(bar, d) == IF d.direction = "LONG" THEN bar.low <= d.stop ELSE bar.high >= d.stop
HitTarget(bar, d) == IF d.direction = "LONG" THEN bar.high >= d.target ELSE bar.low <= d.target

Trade(bars, entry, exit, price, d, reason) ==
  [entry |-> entry, exit |-> exit, reason |-> reason, decision |-> d,
   pnl |-> Sign(d.direction) * (price - bars[entry].open)]

\* _simulate_trade: a bar that touches both is a stop.
SimulateTrade(bars, entry, d) ==
  LET hits == {j \in entry..Len(bars) : HitStop(bars[j], d) \/ HitTarget(bars[j], d)}
      exit == Min(hits)
  IN IF hits = {}
     THEN Trade(bars, entry, Len(bars), bars[Len(bars)].close, d, "end_of_data")
     ELSE IF HitStop(bars[exit], d)
     THEN Trade(bars, entry, exit, d.stop, d, "stop_loss")
     ELSE Trade(bars, entry, exit, d.target, d, "target")

\* Mutant of View: the strategy is handed the whole series.
ViewOfAll(bars, i) == bars

\* What the strategy is handed at bar i: no later bar exists in it.
View(bars, i) == SubSeq(bars, 1, i)

\* One bar of run_backtest: nothing is decided up to the exit of the last trade,
\* nor when no bar is left to be filled in.
WalkStep(bars, before, i) ==
  LET decision == Strategy(View(bars, i))
      trade == SimulateTrade(bars, i + 1, decision[1])
  IN IF i <= before.until \/ i = Len(bars) \/ decision = <<>>
     THEN before
     ELSE [until |-> trade.exit, trades |-> Append(before.trades, trade)]

Trades(bars) ==
  LET walk[i \in 0..Len(bars)] ==
        IF i = 0 THEN [until |-> 0, trades |-> <<>>] ELSE WalkStep(bars, walk[i - 1], i)
  IN walk[Len(bars)].trades

-----------------------------------------------------------------------------
(* _summarize, without its ratios.                                         *)

\* Mutant of Account: the peak follows the equity down as well.
AccountWithoutPeak(before, trade) ==
  LET running == before.running + trade.pnl
  IN [running |-> running, peak |-> running, curve |-> Append(before.curve, running),
      drawdown |-> Max({before.drawdown, before.peak - running})]

Account(before, trade) ==
  LET running == before.running + trade.pnl
      peak == Max({before.peak, running})
  IN [running |-> running, peak |-> peak, curve |-> Append(before.curve, running),
      drawdown |-> Max({before.drawdown, peak - running})]

Nothing == [running |-> 0, peak |-> 0, curve |-> <<>>, drawdown |-> 0]

Summary(trades) ==
  LET account[k \in 0..Len(trades)] ==
        IF k = 0 THEN Nothing ELSE Account(account[k - 1], trades[k])
  IN account[Len(trades)]

=============================================================================
