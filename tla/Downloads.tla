------------------------------- MODULE Downloads ------------------------------
(***************************************************************************)
(* The two download scripts: scripts/download_historical.py over SmartAPI  *)
(* (ingestion/backfill.py, backfill_range), one symbol after the other,    *)
(* and scripts/download_historical_dhan.py over Dhan                       *)
(* (ingestion/dhan_historical.py), a pool of threads that share one        *)
(* throttle.  Both walk a symbol's range in windows of the length the      *)
(* source allows, oldest first, and go on when a window cannot be fetched. *)
(* A behaviour is one run of one of the two.                               *)
(*                                                                         *)
(* A minute is counted from the first day's midnight.                      *)
(***************************************************************************)
EXTENDS Integers, Sequences, FiniteSets, FiniteSetsExt

CONSTANTS
  Symbols,
  Workers,        \* the pool's threads; the SmartAPI script has one of them
  MainThread,     \* which one that is
  Starts,         \* where the range to download may start
  To,             \* and where it ends: the moment the script is run
  WindowLength,   \* longest window a request may span
  DayMinutes, SessionOpen, SessionClose,
  MaxAttempts,    \* attempts for a throttled request
  RequestGap,     \* _MIN_REQUEST_GAP_SECONDS
  MaxRefusals,    \* bound on the failed requests and store calls, not the throttled ones
  NoWorker,       \* nobody holds the throttle's lock
  MayRenew        \* BrokerSession

ASSUME DownloadsAssumption ==
  /\ MainThread \in Workers
  /\ NoWorker \notin Workers
  /\ Starts \subseteq Nat
  /\ To \in Nat
  /\ WindowLength \in Nat \ {0}
  /\ DayMinutes \in Nat \ {0}
  /\ SessionOpen \in 0..DayMinutes - 1
  /\ SessionClose \in SessionOpen..DayMinutes - 1
  /\ MaxAttempts \in Nat \ {0}
  /\ RequestGap \in Nat
  /\ MaxRefusals \in Nat
  /\ MayRenew \in BOOLEAN

VARIABLES
  source,          \* which script runs: "smartapi" or "dhan"
  from,            \* from_dt, the start of its range
  queue,           \* the symbols nobody has begun
  job,             \* worker -> the symbol it downloads and how far it is
  candles,         \* the candle table: the <<symbol, minute>> stored
  finished,        \* the symbols with a health event
  session, accepted,   \* BrokerSession
  lock,            \* DhanHistoricalClient._lock: who holds it
  elapsed,         \* the time since _last_request_at, up to RequestGap
  refusals,        \* history: how many requests and store calls failed, throttled ones aside
  abandoned,       \* history: <<symbol, cursor>> of the windows given up
  quiet,           \* history: the time since a request was let through, likewise
  closest          \* history: the shortest time between two of them, likewise

script == <<source, from>>
walkVars == <<queue, candles, finished, abandoned>>
sessionVars == <<session, accepted>>
throttleVars == <<lock, elapsed, quiet, closest>>
vars == <<source, from, queue, job, candles, finished, session, accepted,
          lock, elapsed, refusals, abandoned, quiet, closest>>

Broker == INSTANCE BrokerSession

NoJob == [step |-> "idle"]

-----------------------------------------------------------------------------
(* The windows of a range, and what the two sources answer.                *)

WindowEnd(cursor) == Min({cursor + WindowLength, To})

Day(m) == m \div DayMinutes
Opening(m) == Day(m) * DayMinutes + SessionOpen
Closing(m) == Day(m) * DayMinutes + SessionClose
InSession(m) == Opening(m) <= m /\ m <= Closing(m)

\* External: a source has a bar for each minute of a session.
HasBar(m) == Opening(m) <= m /\ m < Closing(m)
HistoryIn(first, last) == {m \in first..last : HasBar(m)}

\* External: SmartAPI answers with no bar when either end of the request is not
\* inside a session.
SmartApiBars(first, last) ==
  IF InSession(first) /\ InSession(last) THEN HistoryIn(first, last) ELSE {}

\* Mutant of WindowBars: the window's own ends are requested.
WindowBarsUnsnapped(cursor) ==
  IF source = "smartapi"
  THEN SmartApiBars(cursor, WindowEnd(cursor))
  ELSE HistoryIn(cursor, WindowEnd(cursor))

\* backfill_range moves the ends to a session's opening and closing;
\* backfill_symbol requests the window as it is.
WindowBars(cursor) ==
  IF source = "smartapi"
  THEN SmartApiBars(Opening(cursor), Closing(WindowEnd(cursor)))
  ELSE HistoryIn(cursor, WindowEnd(cursor))

-----------------------------------------------------------------------------
(* The walk of one symbol's range.                                         *)

Step(w) == job[w].step

Init ==
  /\ source \in {"smartapi", "dhan"}
  /\ from \in Starts
  /\ queue = Symbols
  /\ job = [w \in Workers |-> NoJob]
  /\ candles = {}
  /\ finished = {}
  /\ Broker!Init
  /\ lock = NoWorker
  /\ elapsed = RequestGap
  /\ refusals = 0
  /\ abandoned = {}
  /\ quiet = RequestGap
  /\ closest = RequestGap

\* Where a symbol's job is when its next window starts at cursor.
At(symbol, cursor) ==
  [step |-> IF cursor < To THEN "request" ELSE "finish",
   symbol |-> symbol, cursor |-> cursor, attempt |-> 0]

\* client.start(): without a login the script ends.
Start ==
  /\ source = "smartapi"
  /\ session = "none"
  /\ \/ Broker!LoginSucceeds /\ UNCHANGED queue
     \/ Broker!LoginFails /\ queue # {} /\ queue' = {}
  /\ UNCHANGED <<script, job, candles, finished, throttleVars, refusals, abandoned>>

\* A worker takes the next symbol.
Take(w, symbol) ==
  /\ Step(w) = "idle"
  /\ symbol \in queue
  /\ source = "smartapi" => w = MainThread /\ session # "none"
  /\ queue' = queue \ {symbol}
  /\ job' = [job EXCEPT ![w] = At(symbol, from)]
  /\ UNCHANGED <<script, candles, finished, sessionVars, throttleVars, refusals, abandoned>>

\* The request raised: logged, and the walk goes on behind the window.
GiveUpWindow(w) ==
  /\ abandoned' = abandoned \cup {<<job[w].symbol, job[w].cursor>>}
  /\ job' = [job EXCEPT ![w] = At(@.symbol, WindowEnd(@.cursor))]
  /\ UNCHANGED <<queue, candles, finished>>

\* The answer is in: its bars are to be stored.
Answered(w) ==
  /\ job' = [job EXCEPT ![w] = [step |-> "store", symbol |-> @.symbol,
                                cursor |-> @.cursor, bars |-> WindowBars(@.cursor)]]
  /\ UNCHANGED walkVars

Refused == refusals < MaxRefusals /\ refusals' = refusals + 1

\* Mutant of Throttled: one attempt more.
ThrottledLate(w, then) ==
  /\ UNCHANGED refusals
  /\ IF job[w].attempt = MaxAttempts
     THEN GiveUpWindow(w)
     ELSE /\ job' = [job EXCEPT ![w] = then]
          /\ UNCHANGED walkVars

\* A throttled request is made again, but for the last attempt.  How many are
\* throttled is up to the source.
Throttled(w, then) ==
  /\ UNCHANGED refusals
  /\ IF job[w].attempt + 1 = MaxAttempts
     THEN GiveUpWindow(w)
     ELSE /\ job' = [job EXCEPT ![w] = then]
          /\ UNCHANGED walkVars

\* bulk_upsert_candles: one transaction for the window.
StoreWindow(w) ==
  /\ source = "dhan"
  /\ Step(w) = "store"
  /\ candles' = candles \cup ({job[w].symbol} \X job[w].bars)
  /\ job' = [job EXCEPT ![w] = At(@.symbol, WindowEnd(@.cursor))]
  /\ UNCHANGED <<script, queue, finished, sessionVars, throttleVars, refusals, abandoned>>

\* upsert_candle, one transaction for each bar.
StoreBar(w) ==
  /\ source = "smartapi"
  /\ Step(w) = "store"
  /\ IF job[w].bars = {}
     THEN /\ job' = [job EXCEPT ![w] = At(@.symbol, WindowEnd(@.cursor))]
          /\ UNCHANGED candles
     ELSE /\ candles' = candles \cup {<<job[w].symbol, Min(job[w].bars)>>}
          /\ job' = [job EXCEPT ![w].bars = @ \ {Min(@)}]
  /\ UNCHANGED <<script, queue, finished, sessionVars, throttleVars, refusals, abandoned>>

\* The store raises: Dhan's pool logs it and goes on with other symbols, the
\* other script ends.
StoreRaises(w) ==
  /\ Step(w) \in {"store", "finish"}
  /\ Refused
  /\ job' = [job EXCEPT ![w] = NoJob]
  /\ queue' = IF source = "dhan" THEN queue ELSE {}
  /\ UNCHANGED <<script, candles, finished, sessionVars, throttleVars, abandoned>>

\* The health event ends the symbol, whatever its windows came to.
Finish(w) ==
  /\ Step(w) = "finish"
  /\ finished' = finished \cup {job[w].symbol}
  /\ job' = [job EXCEPT ![w] = NoJob]
  /\ UNCHANGED <<script, queue, candles, sessionVars, throttleVars, refusals, abandoned>>

-----------------------------------------------------------------------------
(* SmartAPI: every attempt takes the client from the session anew.         *)

Call(w) ==
  /\ source = "smartapi"
  /\ Step(w) = "request"
  /\ IF ~Broker!Usable
     THEN GiveUpWindow(w) /\ UNCHANGED <<sessionVars, refusals>>
     ELSE IF ~accepted
     THEN GiveUpWindow(w) /\ Broker!OnSessionExpired /\ UNCHANGED refusals
     ELSE /\ \/ Answered(w) /\ UNCHANGED refusals
             \/ GiveUpWindow(w) /\ Refused
             \/ Throttled(w, [job[w] EXCEPT !.attempt = @ + 1])
          /\ UNCHANGED sessionVars
  /\ UNCHANGED <<script, throttleVars>>

SessionEvent ==
  /\ source = "smartapi"
  /\ Broker!Expire \/ Broker!Renew
  /\ UNCHANGED <<script, job, walkVars, throttleVars, refusals>>

-----------------------------------------------------------------------------
(* Dhan: the throttle, then the request.                                   *)

Capped(t) == Min({t, RequestGap})

\* A job that waits, for its turn or after a throttled request.
Waiting(w, step, attempt, wait) ==
  [step |-> step, symbol |-> job[w].symbol, cursor |-> job[w].cursor,
   attempt |-> attempt, wait |-> wait]

\* Mutant of EnterThrottle: there is no lock.
EnterThrottleUnlocked(w) ==
  /\ source = "dhan"
  /\ Step(w) = "request"
  /\ lock' = w
  /\ job' = [job EXCEPT ![w] = Waiting(w, "throttle", @.attempt, RequestGap - elapsed)]
  /\ UNCHANGED <<script, walkVars, sessionVars, elapsed, quiet, closest, refusals>>

\* _throttle takes the lock, and keeps it while it sleeps for what is left.
EnterThrottle(w) ==
  /\ source = "dhan"
  /\ Step(w) = "request"
  /\ lock = NoWorker
  /\ lock' = w
  /\ job' = [job EXCEPT ![w] = Waiting(w, "throttle", @.attempt, RequestGap - elapsed)]
  /\ UNCHANGED <<script, walkVars, sessionVars, elapsed, quiet, closest, refusals>>

LeaveThrottle(w) ==
  /\ Step(w) = "throttle"
  /\ job[w].wait = 0
  /\ job' = [job EXCEPT ![w].step = "post"]
  /\ lock' = NoWorker
  /\ elapsed' = 0
  /\ quiet' = 0
  /\ closest' = Min({closest, quiet})
  /\ UNCHANGED <<script, walkVars, sessionVars, refusals>>

\* Mutant of Post: a throttled request is made again without being counted.
PostUncounted(w) ==
  /\ Step(w) = "post"
  /\ \/ Answered(w) /\ UNCHANGED refusals
     \/ GiveUpWindow(w) /\ Refused
     \/ Throttled(w, Waiting(w, "backoff", job[w].attempt, 2 ^ job[w].attempt))
  /\ UNCHANGED <<script, sessionVars, throttleVars>>

\* The request is made outside the lock: answered, failed, or throttled and
\* then made again after a wait that doubles.
Post(w) ==
  /\ Step(w) = "post"
  /\ \/ Answered(w) /\ UNCHANGED refusals
     \/ GiveUpWindow(w) /\ Refused
     \/ Throttled(w, Waiting(w, "backoff", job[w].attempt + 1, 2 ^ job[w].attempt))
  /\ UNCHANGED <<script, sessionVars, throttleVars>>

Retry(w) ==
  /\ Step(w) = "backoff"
  /\ job[w].wait = 0
  /\ job' = [job EXCEPT ![w].step = "request"]
  /\ UNCHANGED <<script, walkVars, sessionVars, throttleVars, refusals>>

\* Time goes by for whoever waits.
Tick ==
  /\ source = "dhan"
  /\ elapsed' = Capped(elapsed + 1)
  /\ quiet' = Capped(quiet + 1)
  /\ job' = [w \in Workers |->
               IF Step(w) \in {"throttle", "backoff"} /\ job[w].wait > 0
               THEN [job[w] EXCEPT !.wait = @ - 1]
               ELSE job[w]]
  /\ UNCHANGED <<script, walkVars, sessionVars, lock, closest, refusals>>

-----------------------------------------------------------------------------
Work(w) ==
  \/ \E symbol \in Symbols : Take(w, symbol)
  \/ Call(w)
  \/ EnterThrottle(w)
  \/ LeaveThrottle(w)
  \/ Post(w)
  \/ Retry(w)
  \/ StoreWindow(w)
  \/ StoreBar(w)
  \/ Finish(w)

Next ==
  \/ Start
  \/ \E w \in Workers : Work(w) \/ StoreRaises(w)
  \/ SessionEvent
  \/ Tick

Spec == Init /\ [][Next]_vars

\* The threads run and time goes on.
FairSpec == Spec /\ WF_vars(Start) /\ WF_vars(Tick) /\ \A w \in Workers : WF_vars(Work(w))

-----------------------------------------------------------------------------
(* Properties.                                                             *)

Attempts == 0..MaxAttempts - 1

\* Where a worker is, how far its symbol is, and that it makes no more attempts
\* for a window than it may; the throttle's and the histories' shape.
JobType ==
  [step : {"idle"}]
    \cup [step : {"request", "finish"}, symbol : Symbols, cursor : Nat, attempt : Attempts]
    \cup [step : {"request", "throttle", "post"}, symbol : Symbols,
          cursor : Nat, attempt : Attempts, wait : Nat]
    \cup [step : {"backoff"}, symbol : Symbols, cursor : Nat, attempt : Attempts, wait : Int]
    \cup [step : {"store"}, symbol : Symbols, cursor : Nat, bars : SUBSET Nat]

TypeOK ==
  /\ source \in {"smartapi", "dhan"}
  /\ from \in Starts
  /\ queue \subseteq Symbols
  /\ job \in [Workers -> JobType]
  /\ candles \subseteq Symbols \X Nat
  /\ finished \subseteq Symbols
  /\ session \in {"none", "valid", "invalid"}
  /\ accepted \in BOOLEAN
  /\ lock \in Workers \cup {NoWorker}
  /\ elapsed \in 0..RequestGap
  /\ refusals \in 0..MaxRefusals
  /\ abandoned \subseteq Symbols \X Nat
  /\ quiet \in 0..RequestGap
  /\ closest \in 0..RequestGap

\* Has the walk of a symbol left no bar out before a minute?
DoneBefore(symbol, end) ==
  \A m \in from..(end - 1) :
    HasBar(m) =>
      \/ <<symbol, m>> \in candles
      \/ \E window \in abandoned :
           window[1] = symbol /\ window[2] <= m /\ m < WindowEnd(window[2])

\* backfill.py:117-121 and dhan_historical.py:190-196: a download that ends with
\* its health event has every bar of the range but those of the windows it gave
\* up, wherever the windows' ends fall in the day and whatever failed before.
FinishedRangesCovered ==
  \A symbol \in finished : DoneBefore(symbol, To)

\* dhan_historical.py:61-63 "concurrent symbol downloads still collectively
\* respect" the limit: whoever they are, two requests are let through at least
\* the gap apart.
RequestsSpaced == closest = RequestGap

\* A download comes to its end, though every request may be throttled: nothing
\* but the count of a window's attempts ends its retries, and nobody waits for
\* the throttle forever (dhan_historical.py:88-96, 119; ratelimit.py:79-88).
DownloadEnds ==
  <>[](queue = {} /\ \A w \in Workers : job[w] = NoJob)

=============================================================================
