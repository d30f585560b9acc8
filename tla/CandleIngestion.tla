--------------------------- MODULE CandleIngestion ---------------------------
(***************************************************************************)
(* ingestion/websocket_client.py and ingestion/candle_builder.py: the one  *)
(* process that turns the broker's ticks into 1-minute candles.            *)
(*                                                                         *)
(* The SDK calls the handlers one at a time.  A tick's handler makes up to *)
(* three store calls, each a transaction of its own, and any of them may   *)
(* raise and cut the handler short; other processes use the store between  *)
(* them.  The handler is therefore a variable, and each store call a step. *)
(*                                                                         *)
(* A time is the exchange timestamp of a tick; MinuteLength of them make a *)
(* minute.  A process that stopped or died is started again at once.       *)
(***************************************************************************)
EXTENDS CandleStore

CONSTANTS
  Instruments,
  Prices,          \* the prices a tick may carry, 0 for one that is not positive
  Times,           \* the timestamps a tick may carry
  SessionTimes,    \* those inside the pre-open or the regular session
  MinuteLength,
  MaxInputs,       \* bound on the ticks delivered and the disconnects recorded, together
  MaxFailures,     \* bound on the store calls that raise
  MaxRestarts      \* bound on the restarts

\* What the module takes for granted of its constants; MarketData assumes it.
IngestionAssumption ==
  /\ Prices \subseteq Nat
  /\ Times \subseteq Nat
  /\ SessionTimes \subseteq Times
  /\ MinuteLength \in Nat \ {0}
  /\ MaxInputs \in Nat
  /\ MaxFailures \in Nat
  /\ MaxRestarts \in Nat

VARIABLES
  candles,       \* the candle table
  ticks,         \* the ticks table, oldest first, each with the life that wrote it
  events,        \* number of data_health_events of each type
  current,       \* CandleBuilder._current: instrument -> the bar in progress
  lastTick,      \* _last_tick_ts
  disconnected,  \* _disconnected_at is not None
  connected,     \* between on_open and on_close
  handler,       \* the handler that is running
  delivered,     \* history: how many ticks the SDK has delivered
  life,          \* history: how many times the process was restarted
  writers,       \* history: who wrote each row of the candle table
  failures       \* history: how many handlers a store call or a crash cut short

tables == <<candles, ticks, events, writers, failures>>
connection == <<disconnected, connected>>
vars == <<candles, ticks, events, current, lastTick, disconnected, connected,
          handler, delivered, life, writers, failures>>

EventTypes == {"rejected_bar", "disconnect", "reconnect", "backfill"}
NoTick == -1
Idle == [step |-> "idle"]
Handling(step, i, price, at) == [step |-> step, instrument |-> i, price |-> price, at |-> at]
Flushing(todo) == [step |-> "flush", todo |-> todo]

Minute(at) == at \div MinuteLength

\* A store call raised: the handler is left where it is.
StoreRaises ==
  /\ failures < MaxFailures
  /\ failures' = failures + 1
  /\ handler' = Idle
  /\ UNCHANGED <<candles, ticks, events, writers>>

\* A row is written by this process.
WriteCandle(i, bar, closed) ==
  /\ candles' = Upserted(candles, <<i, bar.minute>>, Row(bar, FALSE, closed))
  /\ writers' = Signed(writers, <<i, bar.minute>>, life)
  /\ UNCHANGED <<ticks, events, failures>>

RecordEvent(type) ==
  /\ events' = [events EXCEPT ![type] = @ + 1]
  /\ UNCHANGED <<candles, ticks, writers, failures>>

-----------------------------------------------------------------------------
(* The bar in progress.                                                    *)

FreshBar(m, price) ==
  [minute |-> m, open |-> price, high |-> price, low |-> price, close |-> price]

\* Mutant of Updated: the low is not followed.
UpdatedHighOnly(bar, price) ==
  [bar EXCEPT !.high = Max({@, price}), !.close = price]

Updated(bar, price) ==
  [bar EXCEPT !.high = Max({@, price}), !.low = Min({@, price}), !.close = price]

InOtherMinute(i, at) == i \in DOMAIN current /\ current[i].minute # Minute(at)

\* The builder's state once the tick is in: the bar goes on, or a new one starts.
Absorbed(i, price, at) ==
  IF i \in DOMAIN current /\ ~InOtherMinute(i, at)
  THEN [current EXCEPT ![i] = Updated(@, price)]
  ELSE Put(current, i, FreshBar(Minute(at), price))

-----------------------------------------------------------------------------
Init ==
  /\ candles = <<>>
  /\ ticks = <<>>
  /\ events = [type \in EventTypes |-> 0]
  /\ current = <<>>
  /\ lastTick = [i \in Instruments |-> NoTick]
  /\ disconnected = FALSE
  /\ connected = FALSE
  /\ handler = Idle
  /\ delivered = 0
  /\ life = 0
  /\ writers = <<>>
  /\ failures = 0

\* _on_open: a reconnect is recorded before the subscription; the SDK also
\* subscribes again by itself, so an open connection delivers ticks.
OnOpen ==
  /\ handler = Idle
  /\ ~connected
  /\ connected' = TRUE
  /\ IF disconnected
     THEN \/ /\ RecordEvent("reconnect")
             /\ disconnected' = FALSE
             /\ UNCHANGED handler
          \/ /\ StoreRaises
             /\ UNCHANGED disconnected
     ELSE UNCHANGED <<tables, disconnected, handler>>
  /\ UNCHANGED <<current, lastTick, delivered, life>>

\* _on_close
OnClose ==
  /\ handler = Idle
  /\ connected
  /\ delivered + events["disconnect"] < MaxInputs
  /\ connected' = FALSE
  /\ disconnected' = TRUE
  /\ (RecordEvent("disconnect") /\ UNCHANGED handler) \/ StoreRaises
  /\ UNCHANGED <<current, lastTick, delivered, life>>

\* Mutant of ValidTick: an older tick than the last one is let through.
ValidTickUnordered(i, price, at) == price > 0 /\ at \in SessionTimes

\* validate_tick: a positive price, in the session, later than the last tick.
ValidTick(i, price, at) ==
  /\ price > 0
  /\ at \in SessionTimes
  /\ at > lastTick[i]

\* Mutant of OnInvalidTick: the tick is dropped and nothing is recorded.
OnInvalidTickSilently(i, price, at) ==
  /\ ~ValidTick(i, price, at)
  /\ UNCHANGED <<tables, handler, lastTick>>

\* _on_data for a tick that is malformed or fails the validation.
OnInvalidTick(i, price, at) ==
  /\ ~ValidTick(i, price, at)
  /\ (RecordEvent("rejected_bar") /\ UNCHANGED handler) \/ StoreRaises
  /\ UNCHANGED lastTick

\* _on_data up to the first store call: the timestamp is kept before the store
\* has the tick.
OnValidTick(i, price, at) ==
  /\ ValidTick(i, price, at)
  /\ lastTick' = [lastTick EXCEPT ![i] = at]
  /\ handler' = Handling("insert", i, price, at)
  /\ UNCHANGED tables

OnData(i, price, at) ==
  /\ handler = Idle
  /\ connected
  /\ delivered + events["disconnect"] < MaxInputs
  /\ delivered' = delivered + 1
  /\ OnValidTick(i, price, at) \/ OnInvalidTick(i, price, at)
  /\ UNCHANGED <<current, connection, life>>

\* insert_tick, and on_tick up to its first store call.
InsertTick ==
  /\ handler.step = "insert"
  /\ LET i == handler.instrument
     IN \/ /\ ticks' = Append(ticks, [instrument |-> i, price |-> handler.price,
                                      at |-> handler.at, life |-> life])
           /\ IF InOtherMinute(i, handler.at)
              THEN /\ handler' = [handler EXCEPT !.step = "finalize"]
                   /\ UNCHANGED current
              ELSE /\ handler' = [handler EXCEPT !.step = "persist"]
                   /\ current' = Absorbed(i, handler.price, handler.at)
           /\ UNCHANGED <<candles, events, writers, failures>>
        \/ /\ StoreRaises
           /\ UNCHANGED current
  /\ UNCHANGED <<lastTick, connection, delivered, life>>

\* Mutant of FinalizePrevious: the earlier bar is written as one in progress.
FinalizePreviousOpen ==
  /\ handler.step = "finalize"
  /\ \/ /\ WriteCandle(handler.instrument, current[handler.instrument], FALSE)
        /\ current' = Absorbed(handler.instrument, handler.price, handler.at)
        /\ handler' = [handler EXCEPT !.step = "persist"]
     \/ /\ StoreRaises
        /\ UNCHANGED current
  /\ UNCHANGED <<lastTick, connection, delivered, life>>

\* on_tick in a new minute: the earlier bar is written closed; only then does
\* the new bar replace it in memory.
FinalizePrevious ==
  /\ handler.step = "finalize"
  /\ \/ /\ WriteCandle(handler.instrument, current[handler.instrument], TRUE)
        /\ current' = Absorbed(handler.instrument, handler.price, handler.at)
        /\ handler' = [handler EXCEPT !.step = "persist"]
     \/ /\ StoreRaises
        /\ UNCHANGED current
  /\ UNCHANGED <<lastTick, connection, delivered, life>>

\* The end of on_tick: the bar in progress is written as such.
PersistCurrent ==
  /\ handler.step = "persist"
  /\ \/ /\ WriteCandle(handler.instrument, current[handler.instrument], FALSE)
        /\ handler' = Idle
     \/ StoreRaises
  /\ UNCHANGED <<current, lastTick, connection, delivered, life>>

\* A new process: everything in memory starts afresh.
StartAgain ==
  /\ life < MaxRestarts
  /\ life' = life + 1
  /\ current' = <<>>
  /\ lastTick' = [i \in Instruments |-> NoTick]
  /\ disconnected' = FALSE
  /\ connected' = FALSE
  /\ handler' = Idle

\* Ctrl-C: the process flushes what it has before it ends.
Shutdown ==
  /\ handler = Idle
  /\ life < MaxRestarts
  /\ handler' = Flushing(DOMAIN current)
  /\ UNCHANGED <<tables, current, lastTick, connection, delivered, life>>

\* flush_all writes one bar after the other closed; a call that raises ends the
\* process with the rest of them as they are.
FlushNext(i) ==
  /\ handler.step = "flush"
  /\ i \in handler.todo
  /\ \/ /\ WriteCandle(i, current[i], TRUE)
        /\ handler' = Flushing(handler.todo \ {i})
        /\ UNCHANGED <<current, lastTick, disconnected, connected, life>>
     \/ /\ failures < MaxFailures
        /\ failures' = failures + 1
        /\ StartAgain
        /\ UNCHANGED <<candles, ticks, events, writers>>
  /\ UNCHANGED delivered

FinishShutdown ==
  /\ handler = Flushing({})
  /\ StartAgain
  /\ UNCHANGED <<tables, delivered>>

\* The process is killed between any two store calls.
Crash ==
  /\ StartAgain
  /\ failures' = IF handler = Idle THEN failures ELSE failures + 1
  /\ UNCHANGED <<candles, ticks, events, writers, delivered>>

Next ==
  \/ OnOpen
  \/ OnClose
  \/ \E i \in Instruments, p \in Prices, at \in Times : OnData(i, p, at)
  \/ InsertTick
  \/ FinalizePrevious
  \/ PersistCurrent
  \/ Shutdown
  \/ \E i \in Instruments : FlushNext(i)
  \/ FinishShutdown
  \/ Crash

=============================================================================
