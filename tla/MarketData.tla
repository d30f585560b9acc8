------------------------------ MODULE MarketData -----------------------------
(***************************************************************************)
(* The ingestion process and the gap backfill on one store, interleaved at *)
(* every store call: what strategies and the dashboard read as candles.    *)
(***************************************************************************)
EXTENDS CandleStore

CONSTANTS
  Instruments, Prices, Times, SessionTimes, MinuteLength, HistoryBar,
  StoreMayFail, MaxFailures, MaxInputs, MaxRestarts, MaxBackfills

VARIABLES
  candles, events, writers,                                    \* the store
  ticks, current, lastTick, disconnected, connected, handler,  \* ingestion
  delivered, life, failures,
  job, backfills                                               \* backfill

ingestVars == <<ticks, current, lastTick, disconnected, connected, handler,
                delivered, life, failures>>
jobVars == <<job, backfills>>
vars == <<candles, events, writers, ticks, current, lastTick, disconnected,
          connected, handler, delivered, life, failures, job, backfills>>

Ingest == INSTANCE CandleIngestion
Fill == INSTANCE GapBackfill

ASSUME MarketAssumption == Ingest!IngestionAssumption /\ Fill!BackfillAssumption

Init == Ingest!Init /\ Fill!Init

Next ==
  \/ Ingest!Next /\ UNCHANGED jobVars
  \/ Fill!Next /\ UNCHANGED ingestVars

Spec == Init /\ [][Next]_vars

-----------------------------------------------------------------------------
(* Properties.                                                             *)

Minutes == UNION {0..Ingest!Minute(at) : at \in Times}
Keys == Instruments \X Minutes
Bars == [open : Nat, high : Nat, low : Nat, close : Nat]

\* The tables and the builder have their shape, and each bar of the builder is
\* well formed.
TypeOK ==
  /\ DOMAIN candles \subseteq Keys
  /\ \A key \in DOMAIN candles :
       candles[key] \in [open : Nat, high : Nat, low : Nat, close : Nat,
                         backfilled : BOOLEAN, closed : BOOLEAN]
  /\ DOMAIN writers = DOMAIN candles
  /\ events \in [Ingest!EventTypes -> Nat]
  /\ DOMAIN current \subseteq Instruments
  /\ \A i \in DOMAIN current :
       /\ current[i] \in [minute : Minutes, open : Nat, high : Nat, low : Nat, close : Nat]
       /\ WellFormed(current[i])

\* The places of the ticks that one life of the ingestion process stored for a bar.
TicksFor(key, who) ==
  {k \in DOMAIN ticks : /\ ticks[k].instrument = key[1]
                        /\ Ingest!Minute(ticks[k].at) = key[2]
                        /\ ticks[k].life = who}

PricesOf(places) == {ticks[k].price : k \in places}

\* A bar written by one life of the ingestion process only is a bar of that
\* life's ticks, whatever fails: it is well formed and each of its prices was
\* ticked.  As long as no store call raised and no handler was cut short, it is
\* exactly the first, highest, lowest and last of the minute's ticks, as soon
\* as the tick's handler is done (candle_builder.py:34-59,
\* websocket_client.py:126-149).
CandlesFromTicks ==
  \A key \in DOMAIN candles : \A who \in writers[key] \ {Backfiller} :
    LET row == candles[key]
        mine == TicksFor(key, who)
    IN writers[key] = {who} =>
         /\ WellFormed(row)
         /\ {row.open, row.high, row.low, row.close} \subseteq PricesOf(mine)
         /\ failures = 0 /\ handler = Ingest!Idle =>
              /\ row.open = ticks[Min(mine)].price
              /\ row.close = ticks[Max(mine)].price
              /\ row.high = Max(PricesOf(mine))
              /\ row.low = Min(PricesOf(mine))

\* A bar that is not closed is the one its process is still building: no bar is
\* left open behind a newer one, however calls fail, unless the process that
\* wrote it is gone (candle_builder.py:39-41, 79-84).
OpenBarsInProgress ==
  \A key \in DOMAIN candles :
    ~candles[key].closed /\ life \in writers[key] =>
      key[1] \in DOMAIN current /\ current[key[1]].minute = key[2]

\* The minutes before m of an instrument that the living process has written.
WrittenBefore(i, m) ==
  {n \in MinutesOf(candles, i) : n < m /\ life \in writers[<<i, n>>]}

\* The gap search is done once and filled later, and its answer may reach to the
\* bar that ends the gap.  Still that is the only bar the backfill shares with the
\* first process: ticks of a life never go back, so what was missing before it
\* stays behind them, and the process has an earlier bar but none of the two
\* minutes before (database.py:265-275, backfill.py:85-107, validation.py:37-40).
GapsStayBehind ==
  life = 0 =>
    \A key \in DOMAIN candles :
      Cardinality(writers[key]) > 1 =>
        LET before == WrittenBefore(key[1], key[2])
        IN before # {} /\ \A n \in before : key[2] - n > 2

\* Strategies act on closed bars: a closed bar whose minute no other process
\* writes never changes again (candle_builder.py:5-7, backfill.py:93-107).
ClosedBarsFinal ==
  [][\A key \in DOMAIN candles :
       candles[key].closed /\ Cardinality(writers'[key]) = 1 =>
         candles'[key] = candles[key]]_vars

\* validation.py:2 "Reject and log - never silently drop": while no store call
\* raises, each tick is in the ticks table or counted as rejected, and each
\* reconnect counted follows a disconnect (websocket_client.py:107-120, 138-146).
EventsAccountForTicks ==
  failures = 0 /\ handler = Ingest!Idle =>
    /\ delivered = Len(ticks) + events["rejected_bar"]
    /\ events["reconnect"] <= events["disconnect"]

\* Readers of the table may think of it as CandleFeed: one bar of an instrument is
\* formed at a time, it is closed before the next one is begun, and no row but the
\* one of the bar being formed is opened again (candle_builder.py:34-59,
\* database.py:132-156).
Feed ==
  INSTANCE CandleFeed
    WITH rows <- [key \in DOMAIN candles |-> candles[key].closed],
         forming <- [i \in DOMAIN current |-> current[i].minute]

ImplementsFeed == Feed!Spec

\* validation.py:1, "Validation for ticks and candles before they reach the
\* store/strategies", and 49-54: no candle in the store has an open or a close
\* outside its low and high.
StoredCandlesWellFormed ==
  \A key \in DOMAIN candles : WellFormed(candles[key])

\* database.py:267, "further apart than expected_step_seconds, i.e. missing
\* bars": each bar missing between two stored ones is in a gap.
MissingBarsFound ==
  \A i \in {key[1] : key \in DOMAIN candles} :
    \A m \in MissingMinutes(candles, i) :
      \E gap \in FindGaps(candles, i) : m \in Fill!InGap(gap)

=============================================================================
