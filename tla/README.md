# A verification development of the trading terminal

This directory holds TLA+ modules that model the parts of the terminal where
state, time and failure meet, TLC configurations that check them on small
instances, and proofs, checked by TLAPS, of what holds for every instance. It is
written next to the code: every definition that stands for code is listed in
`PROJECT.json` under `map`, with the file and the lines it translates. Paths
below are relative to `src/`.

1. [The system](#1-the-system)
2. [The modules](#2-the-modules)
3. [The runs](#3-the-runs)
4. [What is proved](#4-what-is-proved)
5. [What the runs found](#5-what-the-runs-found)
6. [What is left out](#6-what-is-left-out)
7. [Plan](#7-plan)

## 1. The system

The terminal collects ticks from a broker (Angel One's SmartAPI), builds 1-minute
candles from them in SQLite, computes indicators and market-structure signals on
resampled candles, and trades the signals on paper. There is no live execution.
Several processes share nothing but the database: the ingestion
(`ingestion/run_ingestion.py`), a backfill (`scripts/download_historical*.py`),
the alerts (`ingestion/pattern_alerts.py`), and the dashboard (`app/`). The trade
path (signal engine, risk manager, executor) is a set of components called from
one loop, which the repository describes (`README.md:814-819`, `958-970`) and
leaves to its user.

    broker --ticks--> websocket_client -> candle_builder --+
       |                                                   v
       +--history--> backfill (token bucket / throttle) -> SQLite -> resample
                                                           ^            |
                                      dashboard, alerts ---+            v
                          journal <- paper executor <- risk manager <- signals
                                          ^                |
                                          +-- the loop ----+

### Components

| Component | State | Operations | Talks to |
|---|---|---|---|
| Risk manager, `engine/risk_manager.py`, `config/risk_config.py`, `config/market_calendar.py` | the day's record (result, trades, losses in a row, cooldown), a count of open positions, the kill switch; memory only | `evaluate`, `record_trade_opened`, `record_trade_closed`, `set_kill_switch` | called by the loop |
| Position manager, `engine/position_manager.py` | the pending and the open dict | `submit`, `fill`, `update_price`, `close` | owned by the executor |
| Paper executor, `execution/paper_executor.py` | an id counter; through the store, the journal | `submit_order`, `on_bar_open`, `on_price_update`, `close_position` | position manager, charges, store |
| Charges, `config/charges_config.py` | none | `leg_charges`, `round_trip_charges` | called by the executor |
| Rate limiter, `broker/ratelimit.py` | one bucket of tokens per endpoint, under a lock | `acquire`, `call_with_retry` | called by every thread that talks to the broker |
| Broker session, `broker/auth.py`, `angelone_client.py`, `market_data.py`, `options_api.py`, `instruments.py` | the SDK client and the session's tokens, with an expiry callback; the instrument list and its daily cache file | `login`, `refresh`, `logout` | limiter, SDK |
| Tick ingestion, `ingestion/websocket_client.py`, `candle_builder.py`, `run_ingestion.py`, `data/validation.py` | last timestamp per token, time of the disconnect; the bar in progress per token | `_on_open`, `_on_close`, `_on_data`, `on_tick`, `flush_all` | SDK calls it; it calls the store |
| Candle store, `data/database.py` | tables of candles, ticks, health events, journal; one transaction per call | upserts, inserts, `find_gaps`, reads | everybody |
| Backfill, `ingestion/backfill.py`, `dhan_historical.py`, `scripts/download_historical*.py` | none between calls; a throttle shared by the download's threads | `backfill_gaps`, `backfill_range`, `backfill_symbol` | broker history, limiter, store |
| Alerts, `ingestion/pattern_alerts.py`, `telegram_client.py` | last closed bar seen per symbol and timeframe; the chats | `check_one`, `run_once`, `send_message` | store, detectors, Telegram |
| Ingestion health, `ingestion/health.py` | none: counts of the store's events, age of the last tick | `get_data_health` | store, dashboard |
| Resampling, `data/resample.py` | none | 1-minute bars to any timeframe, anchored to the session | everybody who reads candles |
| Signal engine, `engine/signal_engine.py` | none | `generate_signal` | detectors |
| Backtest harness, `backtesting/harness.py` | local to a run | bar-by-bar walk | signal engine, charges |
| Structure and pattern detectors, `strategies/smc_pro.py`, `smc.py`, `ict.py`, `chart_patterns.py`, `candlestick.py` | none | functions over series | signal engine, alerts, dashboard |
| Indicators and options analytics, `strategies/indicators.py`, `option*.py` | none | formulas over series | dashboard |
| Dashboard and API, `app/` | a kill-switch flag of its own | HTTP and SSE reads | store |
| Live executor and factory, `execution/live_executor.py`, `factory.py`, `config/settings.py` | none | every method raises `NotImplementedError` | - |
| Scripts and logging, `scripts/fetch_ltp.py`, `config/logging_config.py` | none | I/O | - |

### What is hard, and what makes each component correct

*Risk manager.* Its counters roll over on the UTC date while its session window is
in IST; losses, wins, roll-overs and the kill switch come in any order; trades are
held overnight; a restart forgets everything. It is correct when the limits hold
for what its caller really did: trades per trading day, trades held at once, no
entry beyond the daily loss or within a cooldown, and no size over the budget.

*Executor, positions, journal.* An order waits for the next bar of its own
instrument; a price update walks a copy of the positions while settling removes
from the dict; the journal insert comes last and may raise. It is correct when each
order is filled once, at that bar's open, each position is closed once and
journaled once, and costs never help the trader.

*The loop.* Risk manager and executor hold related state (slots, book, journal)
that separate calls keep in step; failures and restarts come between them.

*Rate limiter.* Threads contend for one lock, poll, time out and retry. It is
correct when no window of grants exceeds a burst plus the rate, when a caller that
is alone is not refused, and when every call ends.

*Tick ingestion, store and backfill.* One tick makes up to three store calls, each
its own transaction, any of which may raise; the SDK disconnects and reconnects;
the process is stopped or killed, and started again within the same minute; a
backfill writes the same table meanwhile. It is correct when a bar is the bar of
its ticks, when bars behind the newest are closed and final, and when no tick
disappears without a trace.

*Broker session.* The broker may end it at any time, which is learnt only from a
call that is refused; a refresh may fail, and a connection outlives the session it was
opened with. It is correct when a call that finds the session invalid is not made.

*Downloads.* A range is walked in windows whose ends fall anywhere in the day, a
request may be throttled, refused or fail, and several threads share one throttle,
which waits, stamps and lets through under one lock. A download is correct when a
symbol it reports done misses nothing but the windows it gave up, when requests are spaced, and
when it ends.

*Alerts.* A process of its own polls a table that two others write; it advances its state
before the message is sent, one chat after the other, and any check or post may fail.
It is correct when a bar is alerted on once and in order, when a failing chat
costs no other one its message, and when every new bar is looked at.

*Signal engine.* A pure function of one score per factor, some of them missing. It is correct
when a trade rests on several factors that agree, and when more evidence for it never calls it off.

*Detectors, resampling, harness.* Pure functions over prefixes of a series: the
question is whether a later bar changes an earlier answer, whether a bucket mixes
sessions, and whether a bar that touches both the stop and the target is counted
against the trader.

The hazards, each at its line and with the properties that cover it, are in
`PROJECT.json` under `hazards`.

## 2. The modules

| Module | Models | Lines of code it stands for |
|---|---|---|
| `RiskManager` | risk manager, session check | `engine/risk_manager.py`, parts of `config/` |
| `Charges` | charges of one segment | `config/charges_config.py` |
| `TradeLifecycle` | what an executor promises | `execution/executor_protocol.py` |
| `PaperExecutor` | executor, position manager, journal | `execution/paper_executor.py`, `engine/position_manager.py` |
| `SignalEngine` | the confluence score and the signal | `engine/signal_engine.py` |
| `TradingLoop` | composition of `SignalEngine`, `RiskManager` and `PaperExecutor` | `README.md` (external), restart |
| `RateLimiter` | one bucket, its callers, the retries | `broker/ratelimit.py` |
| `BrokerSession` | login, expiry, refresh, logout | `broker/auth.py` |
| `Downloads` | both download scripts: windows, session, throttle, retries; composition with `BrokerSession` | `ingestion/backfill.py`, `ingestion/dhan_historical.py`, `scripts/` |
| `CandleStore` | the candle table and the gap search, as operators | `data/database.py` |
| `CandleIngestion` | tick handlers and candle builder | `ingestion/websocket_client.py`, `candle_builder.py`, `run_ingestion.py` |
| `GapBackfill` | `backfill_gaps` | `ingestion/backfill.py` |
| `CandleFeed` | what the writers promise the readers of the candle table | `ingestion/candle_builder.py`, `data/database.py` |
| `MarketData` | composition of `CandleIngestion` and `GapBackfill` on one store | - |
| `TradingHours` | the session's constants, which the readers of candles share | `config/market_calendar.py` |
| `Resampling` | bars of longer timeframes | `data/resample.py` |
| `PatternAlerts` | the alert monitor | `ingestion/pattern_alerts.py` |
| `TelegramClient` | delivery to the chats | `ingestion/telegram_client.py` |
| `AlertPipeline` | composition of `CandleFeed`, `PatternAlerts`, `Resampling` and `TelegramClient` | - |
| `SwingPoints` | swing points, and the walk that breaks them | `strategies/patterns_common.py`, `smc_pro.py` |
| `MarketStructure` | breaks of structure, gaps, order blocks, sweeps, displacements | `strategies/smc.py`, `ict.py` |
| `SmcPro` | order blocks, breakers, gaps with their inverse, signals | `strategies/smc_pro.py` |
| `ChartPatterns` | double tops and bottoms, head and shoulders | `strategies/chart_patterns.py` |
| `Backtest` | the walk-forward harness | `backtesting/harness.py` |
| `Analysis` | the detectors, the harness and `Resampling` over one growing series | - |
| `*Proofs` | theorems about `RiskManager`, `PaperExecutor` with `TradeLifecycle`, `TradingLoop` with `SignalEngine`, `RateLimiter`, `Downloads`, `MarketData`, `Analysis` and `AlertPipeline` (`CandleReadersProofs`) | - |
| `ArithmeticLemmas` | division, least and greatest elements, finite sets, sums: lemmas the proofs share | - |
| `MC*` | values of constants for TLC | - |

A module keeps the source's names where it can. Variables marked `history` in a
module are not in the code: they remember what happened so that a property can
relate a state to an earlier one. Operators preceded by "Mutant of ..." are changed
versions of the definition they name, such as a plausible bug would produce; each
property of a passing run is violated when one of them takes the definition's
place (`PROJECT.json`, `mutants`).

### RiskManager

`daily` is `_DailyState`, `openPositions` is `_open_positions`, `killSwitch` is
`_kill_switch`. `Rolled` is `_maybe_roll_day`, `Approves` is the conjunction of
`evaluate`'s rules with the day rolled first, `Opened` and `Closed` are the two
`record_` methods. The order of the rules decides only which reason is reported,
so it is not modelled. `Evaluate` is an evaluation that leads to no trade, since even a
rejection may roll the day. `OpenTrade` is the caller's sequence of `evaluate` and
`record_trade_opened` at one `now`. `Restart` builds a new manager; `TradingLoop` uses it.

The clock is a number of minutes since midnight UTC; `UtcDay` is what
`now.astimezone(timezone.utc).date()` sees and `IstDay`, `IstMinute` what the
session check sees. `ClockAssumption` says that the window starts later in the IST
day than IST is ahead of UTC (09:20 against 05:30), which is what makes a UTC
roll-over harmless. The calendar's own trading hours, 09:15 to 15:30, contain the
configured window, so only its set of trading days is kept.

### PaperExecutor, Charges, TradeLifecycle

`pending` and `open` are the position manager's dicts, keyed by the number of the
position id. A price update walks the open positions of its instrument, and the
store may raise at each settlement, so the walk is a variable (`call`) and one position
of it is one step: `StopOut`, `TakeTarget` or `Hold`. The stop is looked at first,
as in the code. `Settle` removes the position, then journals it or, where
`StoreMayFail`, raises and breaks off the walk.

Feed prices are whole rupees; a fill price is in units of `1/SlippageUnit` rupee
and profit in `1/RateUnit^2` of that, so slippage and charges are
whole numbers. The code computes them in `Decimal`, whose rounding at 28 digits is not modelled.

`TradeLifecycle` is the promise without prices: an order is pending, then open,
then closed and in the record, or lost where losing is allowed. `PaperExecutor`
maps to it by `StageOf` (`Lifecycle`). That it implements it (`ImplementsLifecycle`) is
checked by the run `executor` and proved.

### SignalEngine, TradingLoop

`SignalEngine` has no state. A score is a number of parts of `ScoreUnit`, so that the weighted
sum is a whole number, and `Total`, `Agreeing` and `MeetsConfluence` are the three
steps of `generate_signal`: the sum, the factors that agree with its sign at
the least strength, and the two conditions. A factor that has no score counts zero
and does not agree. `RestsOnConfluence` says what the function promises by comparing its
answer with those for fewer, stronger and mirrored scores.

`TradingLoop` extends it and holds instances of the risk manager and of the executor over
one set of variables: every signal the driver evaluates is one that `SignalEngine` makes of some input
(`SignalsAssumption`), and scores are integers of any size, which the engine clamps (`ScoresAssumption`). The driver finishes a call, hands the closes the call journaled to the risk manager (`ReportClose`), and only then makes
the next (`Ready`). `accounted` is how many journal rows it has handed over.
`Restart` keeps the journal, which is on disk, and empties the risk manager and
the book, which are not.

### RateLimiter

One variable per field of the bucket and, per thread, where it stands in
`acquire` or `call_with_retry`. A step is what a thread does between two points
where another thread or the clock may come in: the block under the lock
(`TryAcquire`), the look at the deadline after the lock was released
(`CheckDeadline`), the end of a sleep, the end of a request. Tokens are counted in
units, `Scale` to a token, so that the code's fractional tokens are whole numbers;
the rounding of its floats is not modelled.

### BrokerSession, Downloads

`session` is the state object, absent, valid or marked invalid; `accepted` is what the
broker thinks of the token and no caller can read. `OnSessionExpired` is the hook the
SDK calls when a call is refused.

A behaviour of `Downloads` is one run of one of the two scripts (`source`). Each
worker has a job: the symbol, the cursor of its walk and the step it is at. `request`
is the look at the session or the entry to the throttle, `throttle` the wait under the
throttle's lock, `post` the request on its way, `backoff` the sleep after a throttled one,
`store` the bars still to write and `finish` the health event. Dhan's windows are
stored in one transaction, SmartAPI's bar by bar. An error of a window
is logged and the window given up (`abandoned`); an error of the store ends a symbol
over Dhan and the script over SmartAPI. That a source answers with nothing when an
end of the request is not inside a session is the reason `backfill_range` gives for moving the
ends to the opening and the closing, and is taken from there. `quiet` and
`closest` are history: the time since the last request was let through, and the least there ever was.

### CandleStore, CandleIngestion, GapBackfill, MarketData, CandleFeed

The SDK calls the ingestion's handlers one at a time, and a handler makes store
calls between which another process may write. `handler` says which call comes
next: `insert` (the tick), `finalize` (the earlier bar, closed), `persist` (the
current bar, open). `StoreRaises` at any of them ends the handler, with the memory
as the code leaves it at that point: `lastTick` already advanced, `current` moved
only after the earlier bar was written. `Shutdown` and `FlushNext` are Ctrl-C;
`Crash` may come between any two store calls; a new process starts with empty
memory (`StartAgain`).

`job` is the backfill's call in progress: the gaps found at its start, and the
bars still to write for the gap it is filling. `FetchFails` is the exception that
is logged and passed over. The history API is external: it is taken to return any
subset of the minutes it is asked for, from the gap's first missing one to the stored bar that ends the gap,
that bar included. `backfill_gaps` writes whatever comes back, so the bar at the end, which may be
the one in progress, may be written as closed.

`life` and `writers` are history: which run of the process, or the backfill, wrote
each row. A minute of the model stands for a bar's open time; the timestamps inside
a minute are `MinuteLength`.

`CandleFeed` forgets prices, calls and failures: `rows` says which minutes have a row and whether
it is closed, `forming` which bar each instrument is at. A bar is begun, advanced over,
written in progress, flushed or filled in from history, and the process may stop. What is filled in lies between two
rows or is the later one of them, which may be the bar in progress.
`MarketData` implements it (`ImplementsFeed`), and `AlertPipeline` is
built on it instead of on the two writers.

### Resampling, TelegramClient, PatternAlerts, AlertPipeline

`Resampling` groups closed minutes into bars that start at the session's
opening and are clipped at its close. `ClosedBarTimes` is what its readers keep: the closing times
of the bars that a minute at their end, or past it, completes.

`PatternAlerts` is a cycle over the symbols and timeframes (`todo`): a check compares the newest
closed bar with the one seen last, remembers it, and may raise an alert, since which bars carry a signal is
left open. A check may raise, which the cycle logs. `TelegramClient` posts a
message to one chat after the other; a chat that was migrated answers with its new id
and is tried once more, any other failure is swallowed. The message a process was
sending when it ended is `cutShort`.

`AlertPipeline` composes them: ticks in the order of time across restarts of the
ingestion (the exchange's clock does not go back), and the monitor beside them, sharing nothing
but the table.

### SwingPoints, MarketStructure, SmcPro, ChartPatterns, Backtest, Analysis

The detectors and the harness are pure functions of a series of closed bars. A loop of
the code that carries state from bar to bar is a recursive function over the bars,
one operator per bar (`BreakStep`, `BlockStep`, `GapStep`, `SignalStep`,
`WalkStep`); a search for the first bar with some property is the minimum of a set.
Bars are numbered from 1 and `None` is 0.

Two walks of `smc_pro.py` and the one of `smc.py` keep the same two levels. They share
`Reached`, `BreaksUp`, `BreaksDown` and `Consumed` here. They differ in form only: a
price and a `crossed` flag in one, a swing that is set to `None` in the other, which also
tests `i > index` where no close can be beyond its own bar. An order block of `smc.py` is the last
opposite candle before a displacement of more than 1.5 ATR, and `ict.py`'s displacements use the same
operator with 2 ATR. The signals' walk skips `Consumed` until the
indicators have a value, as its `continue` does.

EMA, VWAP, ADX, volume and ATR are data: a bar carries the points its indicators are
worth to a long and to a short signal (15 each, volume 10), and the ATR is constant. An indicator
at a bar depends on earlier bars only, so a longer series does not change it.
A strategy of the backtest is the constant operator `Strategy`, the
caller's function.

`Analysis` has one variable, the series, and one action, the market's: another bar
closes. Nothing else is state, as each caller (dashboard, alerts, backtest) calls the detectors
again. What is checked is how the answers for a series and for a longer one relate. The bars of the
series double as the minutes `Resampling` groups, at the times one of a few `Clocks` gives
them: pre-open, across a holiday, with holes, and at the very end of a session.

## 3. The runs

`expect: pass` runs check invariants and action properties; a `violation` run checks
one sentence of a doc or a comment that the code does not keep (section 5).

| Run | Module, config | Question | States |
|---|---|---|---|
| `risk_limits` | `MCRiskManager`, `RiskManager.cfg` | do all limits hold in every order of operations? | 614 thousand |
| `executor` | `MCPaperExecutor`, `PaperExecutor.cfg` | fills, walks, costs, lifecycle, with a failing store | 408 thousand |
| `executor_journal` | `ExecutorJournal.cfg` | is every closed trade journaled? no | - |
| `loop` | `MCTradingLoop`, `TradingLoop.cfg` | do slots and book agree through failures and restarts, and do orders rest on confluence? | 804 thousand |
| `rate_limiter` | `MCRateLimiter`, `RateLimiter.cfg` | rate, fairness of refusal, termination | 14 thousand |
| `downloads` | `MCDownloads`, `Downloads.cfg` | coverage of the range, spacing of requests, termination | 250 thousand |
| `market_data` | `MCMarketData`, `MarketData.cfg` | bars, events and backfill through failures, crashes, restarts; what readers are promised | 1.63 million |
| `candle_restart` | `CandleRestart.cfg` | are stored candles well formed? not after a restart | - |
| `candle_gaps` | `CandleGaps.cfg` | are all missing bars found? not a single one | - |
| `alerts` | `MCAlertPipeline`, `Alerts.cfg` | is each bar alerted on once, to every chat, and is each new bar looked at? | 72 thousand |
| `structure` | `MCAnalysis`, `Analysis.cfg` | do the detectors, the backtest and the resampling agree with their definitions and with what they said before? | 117 thousand |
| `structure_repaint` | `AnalysisRepaint.cfg` | does a signal stay? not the newest one | - |

### What the properties say

*risk_limits.* `TradesPerDayBounded`: no IST day sees more than the limit, counted
from the history and not from the counter that enforces it. `SlotsMatchLiveTrades`:
the count is what the caller holds. `CountersMatchHistory`: the counters are the
totals of the closes and opens of the day they stand for. `SizedToBudget`: each
size is the largest number of lots that fits. `CooldownRespected` and
`NoOpenBeyondDailyLoss` are about steps: no entry while a streak is fresh, or when
the closes of the day sum to the limit.

*executor.* `FillsAtNextOpen`: each entry is the open of the first bar of its own
instrument after the submission, slipped, and an order still pending has seen
none. `NoTriggeredPositionLeft`: after a walk no position is beyond its stop or
target, as long as no close was lost. `CostsAgainstTrader`: the net result is below
what the same trade earns between the unslipped prices. `ImplementsLifecycle`.

*loop.* `SlotsMatchBook`: the slots are this process's orders not reported closed,
a lost trade included. `ExposureWithinLimit`: the executor never holds more than
`max_open_positions`, whatever fails or restarts. `OrdersRestOnConfluence`: every order and
position in the book has the direction, stop and target of a signal that was asked for (`Requested`), and of
none that was asked for by scores (`RequestedThinly`) of which fewer than `MinFactors`
would do alone, which more evidence would have called off, or whose mirror image would
not have asked for the opposite. With the code's defaults (weights of at most 20
points and a threshold of 60) the threshold implies three factors already; the count of factors matters for the
edited configurations it is there for, and the run uses such a one.

*rate_limiter.* `WindowBound`: any stretch of grants fits one burst plus the rate.
`TimeoutOnlyUnderContention`: a `TimeoutError` means another call got a token
meanwhile. `CallTerminates`: every call ends.

*downloads.* `FinishedRangesCovered`: a symbol reported done has every bar of its range but
those of windows given up, wherever windows begin and end in the day.
`RequestsSpaced`: no two requests over Dhan are let through the throttle closer than the
gap, whoever makes them. `DownloadEnds`: no retry and no wait goes on forever, even if
every request is throttled: only the count of a window's attempts ends its retries.

*market_data.* `CandlesFromTicks`: a bar one process wrote is the bar of its ticks.
`OpenBarsInProgress`: an unclosed bar is the one being built. `GapsStayBehind`: a bar
that the backfill shares with the first life of the ingestion is one a gap ended with: this process wrote a bar
before it, and none within the two minutes before.
`ClosedBarsFinal`: a closed bar no second process writes does not change.
`EventsAccountForTicks`: while nothing fails, each delivered tick is stored or counted as rejected,
and each reconnect has its disconnect. `ImplementsFeed`: the two
writers, at the grain of their store calls, implement `CandleFeed`.

*alerts.* `AlertsGoForwardUnlessReopened`: of one symbol and timeframe, each alert is about
a later bar than the one before it. It holds across restarts of the monitor, which starts by
remembering the newest bar, and fails only where a closed row is opened again, by a restarted ingestion or by the next tick
of a bar in progress that a backfill had closed: the bar then closes a second time. `EveryChatServed`: an alert whose sending is over has reached every chat whose own posts
did not fail; one migration of a chat loses it nothing. `NewBarsAreSeen`: a new closed bar of
a tracked symbol is looked at.

*structure.* `BreaksAreFirstCloses`: the walks of both files find the same breaks, by
definition the first closes beyond the latest swing; the labels and the bars of the
signals follow from them. `GapsTracked`: the incremental gap lifecycle against the
gaps of `smc.py` and the first close through each; each gap is tracked until twice `max_active` newer ones were found. `SettledStructureFinal`,
`EventsNeverWithdrawn` and `TradesWalkForward` are about two series, one a bar longer:
breaks and ended blocks of settled bars, sweeps and chart patterns, and decided
trades stay; sweeps are reported at once, patterns at most `Lookback` bars late.
`DrawdownIsWorstFall`: the running computation is the worst fall of the curve.
`ResampledBarsFinal`: a closed bar of a longer timeframe is the same in every longer series. A bar that holds
a minute which opens at the session's close or later is exempt: a tick at exactly 15:30:00
passes the validation, and its minute is added to the clipped last bar of 30 or 60 minutes after that
bar was complete; for 3, 5 and 15 minutes it makes a second bar with the same closing time.

### Bounds, and why they are enough

*RiskManager.* A day of four minutes with IST one ahead and a window of three, two
trading days and six minutes of clock: two sessions, two UTC midnights, and trades
held across both. Three trades a day, two at once, a cooldown of two minutes after
two losses, results of -2 and +2 against a loss limit of 3: each limit is reached, and
each is reached before the others in some behaviour. The signals are one that fits
two lots with a remainder, one that fits none, one with its stop at its entry, one
without a stop and one that is no trade.

*PaperExecutor.* Two instruments, two orders, two bars and three prices: both orders
on one instrument (a walk of two) or on two (a bar that must not fill the other's),
a stop met exactly, a target met exactly, and a stop that is jumped over. `MaxBars`
bounds the bars of all instruments. The instruments are interchangeable and enter
no other constant, hence the symmetry.

*TradingLoop.* One instrument and one bar of it, three orders, two slots, prices 20
and 30, and days of two minutes: the third order finds the slots taken, freed, lost or
emptied by a restart. The loss limit and the trade limit are set so as not to hide this.
Four factors, two of which reach the threshold alone while three must agree; scores that are
missing, too weak to count, strong, and out of range; a buy at 30 and a sell at 20, and a stop at
the entry, which the risk manager rejects.

*RateLimiter.* Two threads, a bucket of one token which takes one and a half polls to
refill (so fractions matter), a timeout of two polls, one retry, calls started until
time 3 and a clock until 14, by when every call has ended. Two threads already
contend; `WindowBound` for any number of threads and any schedule is proved.
Deadlock is not checked because the clock's bound ends the run.

*Downloads.* Days of four minutes with a session of two, windows of a day and a range of
three of them that starts at midnight or within the first day, so that the windows' ends fall before,
in and after the sessions. Two symbols, two workers (over SmartAPI only one of them works), two attempts
for a request, a gap of two ticks and two refusals or failures: a window is retried, or given up. Throttled answers
are not bounded by anything but the attempts of each window. The theorems
have any numbers of these. Deadlock is not checked: a download that has ended stops.

*MarketData.* Two instruments, three ticks or disconnects together (`MaxInputs`), one failing store call or cut handler, one
restart and one backfill. The timestamps are two of the first
minute, one of a minute with a gap of missing minutes before it, and one outside the session. Three ticks make a bar
of two ticks and its successor, a restart within the minute, or a gap and its
filling. The history's bar has a price no tick has, so a mixed bar is seen.
Deadlock is not checked: all bounds can be used up.

*AlertPipeline.* One stock, watched in bars of two and of three minutes, in a session of four, whose last bar
of three is clipped; ticks in minutes 1 to 3, two alerts, two chats, and one fault: a check
that raises, a post that fails, a chat that migrates, or a restart of the monitor. Restarts of the ingestion are not
counted among the faults. Two keys show that one key's state is not another's, and two chats that one's
failure is not the other's. Deadlock is not checked, as the market may be still.

*Analysis.* A swing needs one bar on each side (the code uses 2 and 7), an order block is
looked for three bars back, one block per side and two gaps are kept, indicators start
at bar 5, signals need a series of 6. All series of up to seven bars of six shapes, of
which no two neighbours are the same. Seven bars hold three swings with the two between
them, which is what a head and shoulders needs, and the shapes were chosen so that
every event in both directions, every kind of zone, a dropped block, more gaps than are
tracked, a signal at a level that was already broken before the indicators
started, and three trades with each kind of exit occur. Shapes with equal highs and equal lows
meet the strict comparisons. The clocks have days of twelve minutes with a session of minutes 2 to 6, the
second day a holiday: one with a pre-open minute and a full session, one with holes, a
tick at the close, and a minute of the holiday.

### Fairness

Three runs have a liveness property; each names the fairness it assumes.

`RateLimiter`: `PromptSpec` assumes weak fairness of
each thread's next step (the operating system schedules it) and of the clock, and that the
clock moves only while every thread sleeps or is outside a call: a thread is not held up for a whole
polling quantum. `TimeoutOnlyUnderContention` needs the last part, since a thread that is
held up past its deadline is refused though tokens were there. `CallTerminates`
needs no call to start; nobody is obliged to. `WindowBound` needs none of this: the run checks it
under `PromptSpec`, and the theorem has it for `Spec`, where threads may be held up anywhere.

`Downloads`: `FairSpec` assumes weak fairness of the script's start, of the clock and of each worker's next step:
threads are scheduled, sleeps and requests end. Refusals and failures
may come or not.

`AlertPipeline`: `FairSpec` assumes weak fairness of the monitor's next step (`Polling`), whose loop sleeps
and goes on after any exception. Nothing is assumed of the feed or of the chats.

`WindowBound`, `RequestsSpaced` and the other safety properties need none of this. No other component has a
thread that must run: they are called, and an idle one is correct.

The runs `loop`, `structure` and `alerts` check no type invariant of their own: their properties read
the whole state and would fail on a value of another shape.

## 4. What is proved

The proofs hold for every value of the constants that meets the named
assumptions; there is no bound on orders, threads, days or the length of a behaviour.

`RiskManagerProofs`, from `LimitsAssumption`, `ClockAssumption` and
`InputsAssumption`:

* `ManagerTypeOK`: `Spec => []TypeOK`.
* `SlotsAreExact`: `Spec => []SlotsMatchLiveTrades`. Inductive as it stands, given
  the types: an approval requires a free slot.
* `SizesFitBudget`: `Spec => []SizedToBudget`. It rests on a lemma about floor
  division: the sized quantity is a multiple of the lot, its risk fits, and one lot more
  does not.
* `TradesPerDayAreBounded`: `Spec => []TradesPerDayBounded`. The property speaks of IST
  days, the counter of UTC dates. The strengthening says that each trade was opened
  within the session (`OpensInSession`), where both clocks agree on the day, and that
  for every UTC date there are at most `MaxTradesPerDay` trades, exactly
  the counter's number on the current one (`UtcDaysBounded`).
* `CooldownIsRespected`: `Spec => CooldownRespected`. The strengthening relates the
  counter to the history: the last closes of the day, as many as
  `consecutive_losses` says, were losses and the one before was not
  (`StreakCounted`), and every streak of the current day is covered by
  `cooldown_until` (`StreaksCovered`); closes are in the past (`ClosesInThePast`).
* `CountersAreTotals`: `Spec => []CountersMatchHistory`, and `LossLimitIsRespected`: `Spec => NoOpenBeyondDailyLoss`. Both
  sum the results of a day's closes. `ResultCounted` says that the counter is the sum over the closes of its own
  date; a close adds one term, a roll-over starts at a date on which nothing was closed. An entry
  is made within the session, where the UTC date and the trading day have the same closes behind them.

`RateLimiterProofs`, from `BucketAssumption` (and `CallAssumption` for the types):

* `LimiterTypeOK`: `Spec => []TypeOK`.
* `RateIsBounded`: `Spec => []WindowBound`. The property is not inductive: it speaks of pairs
  of grants and not of the tokens left. `BucketInv` adds, for every grant, that the tokens now
  in the bucket and those granted since are at most a burst and what came in
  since that grant; the cap of `_refill` and the subtraction under one lock
  preserve it.
* `TimeoutsAreContended`: `PromptSpec => []TimeoutOnlyUnderContention`. `PromptIInv` adds what a waiting thread may
  count on: unless a token was taken since its start, the bucket holds by now what the rate brings in since
  then, up to its capacity (`WaitingEarns`); and a thread about to look at its deadline has seen the bucket without
  a whole token at this very time (`RefusedJustNow`). So whoever gives up at a deadline by which a token must have
  come in was overtaken (`DisturbedTimeouts`). The second conjunct is what `PromptSpec` is needed for: the clock
  moves there only while threads sleep.

`DownloadsProofs`, from `DownloadsAssumption`:

* `DownloadsTypeOK`: `Spec => []TypeOK`.
* `RangesAreCovered`: `Spec => []FinishedRangesCovered`. The strengthening, `JobsOnTrack`, says of each symbol in
  work that nothing before its cursor is missing but windows given up, and of an answer being stored that it
  holds what is missing of its window. That an answer covers its window, whose ends are anywhere in the day, is
  a lemma about division by the length of a day.
* `RequestsAreSpaced`: `Spec => []RequestsSpaced`. The strengthening, `ThrottleKept`, says that whoever waits in the throttle holds its
  lock and will not leave before the gap is over.

`MarketDataProofs`, from `MarketAssumption`, the assumptions of `CandleIngestion` and `GapBackfill`:

* `NoBarLeftOpen`: `Spec => []OpenBarsInProgress`; `BackfillStaysBehind`: `Spec => []GapsStayBehind`;
  `TicksAreAccounted`: `Spec => []EventsAccountForTicks`; `MarketTypeOK`. They follow from one inductive invariant, `IInv`,
  since none is inductive alone. `TickInHand` relates the handler between two store calls to the memory it
  left behind: the bar it is about to close is earlier than the tick. `OwnRows` says that a process has written nothing ahead
  of the bar it is at, so what it writes next is not closed yet (`NotYetClosed`). `JobBetween` says that what the backfill has still to
  write lies between stored bars or is the later of them. `Behind` says of the first process that what the backfill has
  still to write is behind the bar it is at, where no tick of it can come any more, or ends a gap (`MinuteBehind`), and that a row with both writers ended
  one (`RowBehind`). `Accounted`
  counts the tick in hand.
* `ClosedBarsAreFinal`: `Spec => ClosedBarsFinal`, from the same invariant, action by action.
* `WritersImplementFeed`: `Spec => ImplementsFeed`. Each store call maps to a step of `CandleFeed` or to a
  stutter; a fill is one of the feed's because of `JobBetween`. So what the `alerts` run finds on the feed it finds of the writers.
* `CandlesAreTicks`: `Spec => []CandlesFromTicks`. `FromTicks`, inductive relative to `IInv`, says it of every
  row and of the bar in memory (`RowsFromTicks`, `BarsFromTicks`), with the exception of the tick in hand, whose row lags
  behind by one call. That the two are the same needs `OpensAgree`, as the upsert keeps the open, and `TicksPassed`: no tick of a later
  minute is in the table while an earlier bar is being built.

`PaperExecutorProofs`, from `ExecutorAssumption` and `RatesAssumption`, first of the abstract `TradeLifecycle` over
variables of its own (`Promise`), from `MaxOrders \in Nat`:

* `LifecycleTypeOK`, and `JournalIsExact`: the record holds each closed order once and nothing is lost unless
  losing is allowed. The invariant adds that orders not yet submitted have no stage.

Then of the executor:

* `ExecutorTypeOK`: `Spec => []TypeOK`, and `OrdersFillAtNextOpen`: `Spec => []FillsAtNextOpen`. They need each other, and
  `BooksApart`: no number is pending and open, none in the journal is either or is there twice, and
  none is nowhere unless the store may raise.
* `ExecutorImplementsLifecycle`: `Spec => ImplementsLifecycle`. Each action maps to one of the lifecycle's
  or to a stutter (`SubmitMaps`, `FillMaps`, `SettleMaps`, `VisitMaps`, `CloseMaps`).
* `ExecutorJournalIsExact`: what `JournalIsExact` says of the promise holds of the executor's own journal.
* `NoTriggeredLeft`: `Spec => []NoTriggeredPositionLeft`. `WalkInv` says, while a walk goes on, that the positions behind it lie between
  their stops and targets and that those before it are about the last price; what is lost stays lost
  (`LostStays`, by the refinement), so the property's condition held before, too.
* `CostsAreAgainstTrader`: `Spec => []CostsAgainstTrader`, for any slippage above zero (the code's default is 2 bps) and signals
  whose stop and target are not negative. `PricesPositive` carries these from the signals and bars to the
  positions; `NetBelowGross` is the arithmetic of the two legs.
* `TradesAreJournaled`: as long as the store does not raise, a trade that has left the books is in the journal. The run
  `executor_journal` shows that it is not, once the store may raise.

`TradingLoopProofs`, from `LoopAssumption`: `SlotsAreTheBook` (`Spec => []SlotsMatchBook`) and `ExposureIsLimited`
(`Spec => []ExposureWithinLimit`). Neither component's invariant gives them alone. `LoopInv` says that
the book holds numbers this process has given out, that each journal row is of another number that has left the book,
and that what is still to be reported is a trade of this process; then a report frees the slot of exactly one
trade, and an approval takes one that is free.

Of the signal engine, from `SignalAssumption`: `TradesRestOnConfluence`, that every answer that trades satisfies
`RestsOnConfluence`. The sum grows with each score (`TotalGrows`) and changes its sign with all of
them (`TotalOfOpposites`). With `ScoresAssumption` and `SignalsAssumption`, `OrdersHaveEvidence`
(`Spec => []OrdersRestOnConfluence`): the executor keeps the terms of an order unchanged from `submit` through
`fill` to the settlement (`OrdersRequested`), and no order was requested thinly.

`CandleReadersProofs`, first of `Analysis`, from `AnalysisAssumption`, `StrategyAssumption`, `LookbackAssumption`, `ToleranceAssumption`, `SmcProAssumption` and
`ResamplingAssumption`. The state is a series that grows, and its only invariant is that it is one. A theorem
about two series relates an answer on one to the answer on one that is a bar longer (`OneLonger`).

* `DrawdownsAreWorstFalls`: `Growth => []DrawdownIsWorstFall`. By induction over the trades: the peak is the highest point so far
  and the drawdown the worst fall between any two of them (`Balanced`, `AccountBalances`).
* `TradesAreFinal`: `Growth => TradesWalkForward`. Before the last bar of the shorter series, the walks over the two are
  the same but for a trade that has not ended there (`WalksAgree`, by induction over the bars): a strategy sees the
  bars up to its own (`ViewStays`), and a trade that ended before the last bar ends the same way (`TradeStays`).
* `ClosedBarsStay`: `Growth => ResampledBarsFinal`. A minute that is stored later is of another bucket, or
  of one that was not closed, or one at the session's close, which the property excepts; the merged minutes of
  a closed bucket are the same. `Timeframes` must be shorter than the time from the close to midnight, and the code's
  are at most an hour.
* `EventsStay`: `Growth => EventsNeverWithdrawn`. A longer series has one more confirmed swing at most, the newest (`SwingsStay`). It lies
  after every other, so those that were neighbours still are (`RowsStay`); what a neckline or a sweep is compared with is
  behind it, and no bar of its own window can sweep it (`NewSwingUnswept`).

* `BreaksAreFirst`: `Growth => []BreaksAreFirstCloses`. By induction over the bars, the level of a walk at a bar is the latest swing up to it,
  unless a close since was beyond it (`LevelsAt`, `LevelsMove`), which holds since no bar closes beyond its own high or low
  (`SwingsBreakable`). The two walks of `smc_pro.py` and the one of `smc.py` keep this same level, the signals' one
  from the end of the warm-up on; `BreaksAreTold` adds that each event's label follows from the event before it.
* `GapsAreTracked`: `Growth => []GapsTracked`. The invariant of the gaps' walk (`GapsKept`): a gap that was filled by bar i was first closed through
  at its end, one that is open by none up to i, and an inverse has its gap. The list of active ones keeps the order in which the gaps were found, newest first
  (`Placed`), so an open gap is at the place that the gaps found after it (`Later`) have left it, or before; as long as these are
  fewer than twice `max_active`, it is not cut off.
* `SettledIsFinal`: `Growth => SettledStructureFinal`. Two walks are the same up to the newest bar that is no longer to become a swing
  (`BreakWalksAgree`, `BlockWalksAgree`). What either adds to its log after that is stamped with a later bar (`LogGrows`), so
  what is picked from the logs by their stamps is the same (`SamePicks`), for series shorter than the lookback too.

Then of the alerts, from `PipelineAssumption`:

* `ChatsAreServed`: `Spec => []EveryChatServed`. `ServedIInv` says of the message on its way which chats are behind it (`ServedSoFar`),
  that it is about the last alert (`NewestIsSent`), and that the client knows no id newer than the chat's own, and after a
  retry the new one (`IdsAreKnown`); so a retry can fail only by a failure of the chat or a second migration.
* `AlertsAreInOrder`: `Spec => []AlertsGoForwardUnlessReopened`. `ForwardIInv` says, while no closed row was opened again, that what was
  alerted on and what was seen last are among the key's closed bars, which only grow (`BarsStay`), and
  that no alert is beyond what was seen last. A monitor that starts takes the newest bar as seen,
  and by the first part no earlier alert was about a later one. By `WritersImplementFeed` the two writers keep the promises this rests on.

`ArithmeticLemmas` has the lemmas on division, on least and greatest elements, and on finite sums. The last
two are inductions over a finite set. `FiniteInduction` states one for a family of subsets, a set like any other, where the library's
theorem takes an operator: whoever uses it defines the family of the subsets for which the claim holds.

### Only model-checked

Every safety invariant and action property of a passing run is a theorem. What TLC alone says:

* `CallTerminates`, `DownloadEnds` and `NewBarsAreSeen`: liveness under fairness.

## 5. What the runs found

Each is a run with `expect: violation`, and an entry under `findings` that quotes the
line it disagrees with.

* `executor_journal`: `_settle` pops the position before it inserts the journal row;
  when the store raises, the trade is in neither, and the rest of the walk is not
  visited.
* `structure_repaint`: a bar that closes beyond the last swing high gives a signal while it is
  the newest one. When the next bar is lower, the bar itself becomes a swing high, and since
  the walk takes a swing up at its own bar, the level it had broken is replaced
  before the close is compared: the signal is gone, and the alert was sent.
* `candle_restart`: a process restarted within a minute starts the bar again, and the
  upsert keeps the first one's open: the open may lie outside low and high.
* `candle_gaps`: a single missing bar is at a distance of exactly one step, and `>`
  does not count it as a gap.
More disagreements were met while modelling, and have no run:

* the daily halt (`engine/risk_manager.py:88`, against `config/risk_config.py:17`) compares the current result, so a
  trade that was open when the limit was reached and closes with a profit lets trading resume the
  same day. It needs `max_open_positions` of two; the default is one. `NoOpenBeyondDailyLoss` says what does hold;
* a stop is filled at the stop's price however far the market has gone past it
  (`execution/paper_executor.py:83`, against lines 7 to 9);
* an expired session is one of the errors a window's download logs and goes on from (`ingestion/backfill.py:146`, against
  `broker/exceptions.py:14`): every later window is given up in turn, and the download reports itself done.
  `FinishedRangesCovered` counts such windows as given up;
* a gap's end, which is a stored bar's minute, is the `todate` of the backfill's request, and every row of the answer is
  written as closed (`ingestion/backfill.py:85-107`, against `ingestion/candle_builder.py:5`: "In-progress candles are persisted with
  is_closed=False"). Where the broker's answer includes that minute (the endpoint is outside of the repository, so the model
  allows both), the bar that the live process is building is closed under it. Its next tick opens it again; if the process
  dies first, the bar stays as the history has it. `GapsStayBehind` says that only such an end is shared, and `CandleFeed` has
  the step;
* up to twice `max_active` gaps are tracked, of whatever kind (`strategies/smc_pro.py:228`, against lines 200 and 201: "Only the most recent
  `max_active` gaps are tracked"). `GapsTracked` says what the code does: a gap is tracked until
  twice `max_active` were found after it;
* a head and shoulders is confirmed by a close below the higher of the two troughs between its shoulders
  (`strategies/chart_patterns.py:110`, against lines 92 and 93: "the lower of the two intervening swing lows"). No property speaks of the neckline's level.

## 6. What is left out

Components with no module: see the table of section 1 and
`components` in `PROJECT.json`, with the reason for each. In short: indicators and option analytics are
floating-point formulas; the dashboard and the ingestion's health only read; the live executor has no state;
scripts and logging are I/O.

Inside the modelled components:

* rounding: the limiter's float tokens and the executor's `Decimal` amounts are exact here;
* wording, logging, ids and the reason a rejection reports;
* the risk manager's holiday file and pre-open helpers; the position manager's
  unrealized result;
* a bar's volume and the error handler's event; the subscription batches, as the SDK
  subscribes again by itself; `is_stale`;
* in the limiter: the dictionary of buckets, which share no state. It bounds grants,
  and a thread held up after its grant may send its request later, so requests
  may bunch where grants do not;
* in the detectors: the indicators' formulas, premium and discount, the opening range, triangles, channels and
  flags, the candlestick patterns, which look at one to three bars and keep nothing, and `ict.py`'s kill zones, a
  time of day per bar; prices are integers and the ATR is constant. In the backtest: the ratios of the summary;
* in the broker session: the wrappers of the SDK's calls, the instrument list with its daily cache file, and the
  parsing of the option chain;
* in the downloads: the matching of the brokers' symbols. In the alerts: the one-shot demo, the setup of the process;
* volumes, in the resampling as elsewhere;
* in `flush_all`: the order of the bars, any of which the model allows;
* a process that dies for good: the model starts it again at once.

## 7. Plan

What is left, in this order:

1. The live tick that overwrites a backfilled bar (`data/database.py:132`), which no property covers: `Downloads`
   and `CandleIngestion` on one table, in `MarketData`. Abstract promise: a row says truthfully whether it is live or history.
2. `Analysis` as the detector of `PatternAlerts`: a chart pattern may be confirmed up to a lookback after its last bar,
   and the alerts look at the newest bar only.
3. The harness's walk against `PaperExecutor`'s, bar by bar.
4. The daily cache file of `broker/instruments.py`, written in place and read by other processes.

Of the properties the runs check only the three of liveness have no theorem, so what is worth proving next
comes with the modules above: that the two writers of one table keep a row's source truthful, and that the harness and
the executor settle the same trades.
