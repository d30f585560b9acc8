---------------------------- MODULE MarketDataProofs ---------------------------
(***************************************************************************)
(* What the ingestion and the gap backfill guarantee of the candle table   *)
(* for any number of instruments, ticks, failures, crashes and restarts,   *)
(* and any gaps and answers of the broker's history.                       *)
(***************************************************************************)
EXTENDS MarketData, ArithmeticLemmas, SequenceTheorems, FiniteSetTheorems, TLAPS

-----------------------------------------------------------------------------
(* The invariant.                                                          *)

RowType == [open : Nat, high : Nat, low : Nat, close : Nat,
            backfilled : BOOLEAN, closed : BOOLEAN]
BarType == [minute : Minutes, open : Nat, high : Nat, low : Nat, close : Nat]

TickType == [instrument : Instruments, price : Nat, at : Times, life : Nat]

TickSteps == {"insert", "finalize", "persist"}

HandlerShape ==
  \/ handler = Ingest!Idle
  \/ \E step \in TickSteps, i \in Instruments, price \in Nat, at \in Times :
       handler = Ingest!Handling(step, i, price, at)
  \/ \E todo \in SUBSET Instruments : handler = Ingest!Flushing(todo)

GapType == Nat \X Nat

JobShape ==
  \/ job = Fill!NoJob
  \/ \E i \in Instruments, gaps \in SUBSET GapType : job = Fill!Looking(i, gaps)
  \/ \E i \in Instruments, gaps \in SUBSET GapType, bars \in SUBSET Nat :
       job = Fill!Filling(i, gaps, bars)

Shapes ==
  /\ TypeOK
  /\ lastTick \in [Instruments -> Int]
  /\ life \in Nat /\ failures \in Nat /\ delivered \in Nat
  /\ disconnected \in BOOLEAN
  /\ ticks \in Seq(TickType)
  /\ HandlerShape
  /\ JobShape

\* The bar in progress is of the last tick's minute or an earlier one, and the
\* tick in hand is the last one.
TickInHand ==
  /\ \A i \in DOMAIN current :
       lastTick[i] \in Nat /\ current[i].minute <= Ingest!Minute(lastTick[i])
  /\ handler.step \in TickSteps =>
       LET i == handler.instrument
       IN /\ handler.at = lastTick[i]
          /\ handler.step = "finalize" =>
               i \in DOMAIN current /\ current[i].minute < Ingest!Minute(handler.at)
          /\ handler.step = "persist" =>
               i \in DOMAIN current /\ current[i].minute = Ingest!Minute(handler.at)
  /\ handler.step = "flush" => handler.todo \subseteq DOMAIN current

\* What this process wrote is not ahead of the bar it is at, and what only the
\* backfill wrote is the history's bar.
OwnRows ==
  \A key \in DOMAIN candles :
    /\ writers[key] # {} /\ writers[key] \subseteq {Backfiller} \cup 0..life
    /\ life \in writers[key] =>
         key[1] \in DOMAIN current /\ key[2] <= current[key[1]].minute
    /\ writers[key] = {Backfiller} => candles[key] = Row(HistoryBar, TRUE, TRUE)

\* The bar in progress has not been closed, but by the flush that has passed it.
NotYetClosed ==
  \A i \in DOMAIN current :
    LET key == <<i, current[i].minute>>
    IN /\ key \in DOMAIN candles /\ writers[key] = {life}
       /\ handler.step = "flush" => i \in handler.todo
       => ~candles[key].closed

\* The minutes the backfill may still write.
InJob(m) ==
  \/ job.step = "bars" /\ m \in job.bars
  \/ job.step # "idle" /\ \E gap \in job.gaps : m \in Fill!InGap(gap)

Stored(i) == {m \in Minutes : <<i, m>> \in DOMAIN candles}

\* They lie between bars that are stored, or are the later of the two.
JobBetween ==
  \A m \in Nat : InJob(m) =>
    \E before, after \in Stored(job.instrument) : before < m /\ m <= after

\* This process has written a bar before a minute, and none near before it.
OwnBefore(key, i, m) == key[1] = i /\ key[2] < m /\ life \in writers[key]
HasOwn(i, m) == \E key \in DOMAIN candles : OwnBefore(key, i, m)
NoneNear(i, m) == \A key \in DOMAIN candles : OwnBefore(key, i, m) => m - key[2] > 2

\* A row that the backfill shares with this process, and only such a one, ended a gap.
RowBehind(key) ==
  /\ writers[key] \in {{Backfiller}, {0}, {Backfiller, 0}}
  /\ key[1] \in DOMAIN current
  /\ key[2] <= current[key[1]].minute
  /\ writers[key] = {Backfiller} => key[2] < current[key[1]].minute
  /\ writers[key] # {0} => HasOwn(key[1], key[2])
  /\ writers[key] = {Backfiller, 0} => NoneNear(key[1], key[2])

\* A minute still to fill is behind the builder and no bar of it, or the end of a gap.
MinuteBehind(i, m) ==
  /\ i \in DOMAIN current
  /\ m <= current[i].minute
  /\ HasOwn(i, m)
  /\ \/ /\ m < current[i].minute
        /\ <<i, m>> \in DOMAIN candles => writers[<<i, m>>] = {Backfiller}
     \/ <<i, m>> \in DOMAIN candles /\ NoneNear(i, m)

\* In the first process, the backfill stays behind but for the ends of gaps.
Behind ==
  life = 0 =>
    /\ \A key \in DOMAIN candles : RowBehind(key)
    /\ \A m \in Nat : InJob(m) => MinuteBehind(job.instrument, m)

\* As long as nothing was cut short, the tick in hand is the only one not yet
\* stored or counted, and a disconnect in effect was recorded.
Accounted ==
  failures = 0 =>
    /\ delivered = Len(ticks) + events["rejected_bar"]
                     + (IF handler.step = "insert" THEN 1 ELSE 0)
    /\ events["reconnect"] + (IF disconnected THEN 1 ELSE 0) <= events["disconnect"]

RowsInv == OwnRows /\ OpenBarsInProgress /\ NotYetClosed

IInv == Shapes /\ TickInHand /\ RowsInv /\ JobBetween /\ Behind /\ Accounted

-----------------------------------------------------------------------------
(* The operators.                                                          *)

LEMMA PutAt ==
  ASSUME NEW f, NEW k, NEW v
  PROVE  /\ DOMAIN Ingest!Put(f, k, v) = DOMAIN f \cup {k}
         /\ Ingest!Put(f, k, v)[k] = v
         /\ \A x \in DOMAIN f \ {k} : Ingest!Put(f, k, v)[x] = f[x]
         /\ Fill!Put(f, k, v) = Ingest!Put(f, k, v)
BY DEF Ingest!Put, Fill!Put

\* The minute of a tick is one of the model's, and later ticks are not in earlier ones.
LEMMA MinuteType ==
  ASSUME MarketAssumption, NEW at \in Times
  PROVE  at \in Nat /\ Ingest!Minute(at) \in Minutes /\ Ingest!Minute(at) \in Nat
<1>1. at \in Nat /\ MinuteLength \in Nat \ {0}
  BY DEF MarketAssumption, Ingest!IngestionAssumption
<1>2. PICK m \in Nat : m = Ingest!Minute(at)
  BY <1>1 DEF Ingest!Minute
<1>3. m \in 0..m
  BY <1>2
<1> QED BY <1>1, <1>2, <1>3 DEF Minutes

LEMMA MinutesNatural == ASSUME MarketAssumption PROVE Minutes \subseteq Nat
BY DEF Minutes

LEMMA MinuteMonotone ==
  ASSUME MarketAssumption, NEW a \in Nat, NEW b \in Nat, a <= b
  PROVE  Ingest!Minute(a) <= Ingest!Minute(b) /\ Ingest!Minute(a) \in Int /\ Ingest!Minute(b) \in Int
<1>1. MinuteLength \in Nat \ {0}
  BY DEF MarketAssumption, Ingest!IngestionAssumption
<1> QED BY <1>1, DivMonotone, DivMod DEF Ingest!Minute


-----------------------------------------------------------------------------
(* Steps that leave the table alone.                                       *)

\* No row is written, and the bars in progress stay in their minutes.
LEMMA CurrentGrows ==
  ASSUME IInv, UNCHANGED <<candles, writers, life, job>>,
         DOMAIN current \subseteq DOMAIN current',
         \A k \in DOMAIN current : current'[k].minute = current[k].minute,
         handler.step # "flush" \/ handler' = handler
  PROVE  RowsInv' /\ JobBetween' /\ Behind'
<1>1. \A key \in DOMAIN candles : key = <<key[1], key[2]>>
  BY DEF IInv, Shapes, TypeOK, Keys
<1>2. OwnRows'
  BY DEF IInv, RowsInv, OwnRows
<1>3. OpenBarsInProgress'
  BY DEF IInv, RowsInv, OpenBarsInProgress
<1>4. NotYetClosed'
  <2> SUFFICES ASSUME NEW i \in DOMAIN current', NEW key, key = <<i, current'[i].minute>>,
                      key \in DOMAIN candles, writers[key] = {life},
                      handler'.step = "flush" => i \in handler'.todo
               PROVE  ~candles[key].closed
    BY DEF NotYetClosed
  <2>1. i \in DOMAIN current
    BY DEF IInv, RowsInv, OwnRows
  <2> QED BY <2>1 DEF IInv, RowsInv, NotYetClosed
<1>5. JobBetween'
  BY DEF IInv, JobBetween, InJob, Stored
<1>6. Behind'
  BY DEF IInv, Behind, InJob, RowBehind, MinuteBehind, HasOwn, NoneNear, OwnBefore
<1> QED BY <1>2, <1>3, <1>4, <1>5, <1>6 DEF RowsInv

\* A store call raised: the handler ends, and the memory is as it was.
LEMMA CutShort ==
  ASSUME IInv, Ingest!StoreRaises, handler.step # "flush",
         UNCHANGED <<current, lastTick, life, job>>,
         delivered' \in Nat, disconnected' \in BOOLEAN
  PROVE  IInv'
<1>1. /\ UNCHANGED <<candles, writers, events, ticks>>
      /\ handler' = Ingest!Idle /\ failures' = failures + 1
  BY DEF Ingest!StoreRaises
<1>2. RowsInv' /\ JobBetween' /\ Behind'
  BY <1>1, CurrentGrows
<1>3. failures' \in Nat \ {0}
  BY <1>1 DEF IInv, Shapes
<1>4. Shapes'
  <2>1. TypeOK'
    BY <1>1 DEF IInv, Shapes, TypeOK, WellFormed
  <2>2. HandlerShape' /\ JobShape'
    BY <1>1 DEF IInv, Shapes, HandlerShape, JobShape
  <2> QED BY <1>1, <1>3, <2>1, <2>2 DEF IInv, Shapes
<1>5. TickInHand'
  BY <1>1 DEF IInv, TickInHand, Ingest!Idle, TickSteps
<1>6. Accounted'
  BY <1>3 DEF Accounted
<1> QED BY <1>2, <1>4, <1>5, <1>6 DEF IInv

\* A new process knows nothing of its predecessor's bars and has written none.
LEMMA StartsAgain ==
  ASSUME IInv, Ingest!StartAgain, UNCHANGED <<candles, ticks, events, writers, job, delivered>>,
         failures' \in Nat,
         failures' = 0 => failures = 0 /\ handler.step # "insert"
  PROVE  IInv'
<1>1. /\ life' = life + 1 /\ DOMAIN current' = {}
      /\ lastTick' = [i \in Instruments |-> Ingest!NoTick]
      /\ disconnected' = FALSE /\ handler' = Ingest!Idle
  BY DEF Ingest!StartAgain
<1>2. life \in Nat /\ life' \in Nat \ {0}
  BY <1>1 DEF IInv, Shapes
<1>3. Shapes'
  <2>1. TypeOK'
    BY <1>1 DEF IInv, Shapes, TypeOK, WellFormed
  <2>2. HandlerShape' /\ JobShape'
    BY <1>1 DEF IInv, Shapes, HandlerShape, JobShape
  <2>3. lastTick' \in [Instruments -> Int]
    BY <1>1 DEF Ingest!NoTick
  <2>5. ticks' \in Seq(TickType)
    BY DEF IInv, Shapes
  <2>6. /\ life' \in Nat /\ failures' \in Nat /\ delivered' \in Nat /\ disconnected' \in BOOLEAN
    BY <1>1, <1>2 DEF IInv, Shapes
  <2> QED BY <2>1, <2>2, <2>3, <2>5, <2>6 DEF Shapes
<1>4. TickInHand'
  BY <1>1 DEF TickInHand, Ingest!Idle, TickSteps
<1>5. \A key \in DOMAIN candles : writers[key] \subseteq {Backfiller} \cup 0..life
  BY DEF IInv, RowsInv, OwnRows
<1>6. \A key \in DOMAIN candles : life' \notin writers[key]
  BY <1>1, <1>2, <1>5 DEF Backfiller
<1>7. OwnRows'
  <2>1. 0..life \subseteq 0..life'
    BY <1>1, <1>2
  <2> QED BY <1>5, <1>6, <2>1 DEF IInv, RowsInv, OwnRows
<1>8. OpenBarsInProgress' /\ NotYetClosed'
  BY <1>1, <1>6 DEF OpenBarsInProgress, NotYetClosed
<1>9. JobBetween'
  BY DEF IInv, JobBetween, InJob, Stored
<1>10. Behind'
  BY <1>2 DEF Behind
<1>11. Accounted'
  <2>1. handler'.step = "idle"
    BY <1>1 DEF Ingest!Idle
  <2>2. /\ events["reconnect"] \in Nat /\ events["disconnect"] \in Nat
        /\ disconnected \in BOOLEAN
    BY DEF IInv, Shapes, TypeOK, Ingest!EventTypes
  <2> QED BY <1>1, <2>1, <2>2 DEF IInv, Accounted
<1> QED BY <1>3, <1>4, <1>7, <1>8, <1>9, <1>10, <1>11 DEF IInv, RowsInv

-----------------------------------------------------------------------------
(* Steps of the ingestion that write a row.                                *)

TableShape ==
  /\ DOMAIN candles \subseteq Keys
  /\ \A key \in DOMAIN candles : candles[key] \in RowType
  /\ DOMAIN writers = DOMAIN candles

\* What is written, and to which row.
LEMMA LiveWrite ==
  ASSUME IInv, NEW i \in DOMAIN current, NEW closed \in BOOLEAN,
         Ingest!WriteCandle(i, current[i], closed),
         NEW key, key = <<i, current[i].minute>>
  PROVE  /\ key \in Keys
         /\ DOMAIN candles' = DOMAIN candles \cup {key}
         /\ \A k \in DOMAIN candles \ {key} :
              candles'[k] = candles[k] /\ writers'[k] = writers[k]
         /\ writers'[key] = {life} \cup (IF key \in DOMAIN candles THEN writers[key] ELSE {})
         /\ candles'[key].closed = closed
         /\ TableShape'
         /\ UNCHANGED <<ticks, events, failures>>
<1> DEFINE new == Ingest!Row(current[i], FALSE, closed)
           row == IF key \in DOMAIN candles THEN [new EXCEPT !.open = candles[key].open] ELSE new
           who == {life} \cup (IF key \in DOMAIN writers THEN writers[key] ELSE {})
<1>1. candles' = Ingest!Put(candles, key, row) /\ writers' = Ingest!Put(writers, key, who)
      /\ UNCHANGED <<ticks, events, failures>>
  BY DEF Ingest!WriteCandle, Ingest!Upserted, Ingest!Signed
<1>2. /\ DOMAIN candles \subseteq Keys /\ DOMAIN writers = DOMAIN candles
      /\ \A k \in DOMAIN candles : candles[k] \in RowType
      /\ current[i] \in BarType /\ i \in Instruments
  BY DEF IInv, Shapes, TypeOK, RowType, BarType
<1>3. new \in RowType /\ new.closed = closed
  BY <1>2 DEF Ingest!Row, RowType, BarType
<1>4. row \in RowType /\ row.closed = closed
  BY <1>2, <1>3 DEF RowType
<1>5. key \in Keys
  BY <1>2 DEF Keys, BarType
<1> HIDE DEF row, who
<1>6. /\ DOMAIN candles' = DOMAIN candles \cup {key}
      /\ candles'[key] = row
      /\ \A k \in DOMAIN candles \ {key} : candles'[k] = candles[k]
  BY <1>1 DEF Ingest!Put
<1>7. /\ DOMAIN writers' = DOMAIN writers \cup {key}
      /\ writers'[key] = who
      /\ \A k \in DOMAIN writers \ {key} : writers'[k] = writers[k]
  BY <1>1 DEF Ingest!Put
<1>8. TableShape'
  BY <1>2, <1>4, <1>5, <1>6, <1>7 DEF TableShape, Keys, Minutes
<1> QED BY <1>1, <1>2, <1>4, <1>5, <1>6, <1>7, <1>8 DEF who

\* The row of the bar in progress is written: closed if the builder goes to a
\* later minute or the flush passes it, open otherwise.
LEMMA WriteRows ==
  ASSUME IInv, NEW i \in DOMAIN current, NEW closed \in BOOLEAN, MarketAssumption,
         Ingest!WriteCandle(i, current[i], closed), UNCHANGED <<life, job>>,
         DOMAIN current' = DOMAIN current,
         \A k \in DOMAIN current \ {i} : current'[k].minute = current[k].minute,
         current'[i].minute \in Nat,
         \/ /\ current'[i].minute = current[i].minute
            /\ closed => handler'.step = "flush" /\ i \notin handler'.todo
         \/ current'[i].minute > current[i].minute /\ closed,
         handler.step = "flush" =>
           handler'.step = "flush" /\ handler'.todo \subseteq handler.todo
  PROVE  RowsInv' /\ JobBetween' /\ Behind'
<1> DEFINE m == current[i].minute
           key == <<i, m>>
<1>1. /\ key \in Keys
      /\ DOMAIN candles' = DOMAIN candles \cup {key}
      /\ \A k \in DOMAIN candles \ {key} :
           candles'[k] = candles[k] /\ writers'[k] = writers[k]
      /\ writers'[key] = {life} \cup (IF key \in DOMAIN candles THEN writers[key] ELSE {})
      /\ candles'[key].closed = closed
  BY LiveWrite
<1>2. \A k \in DOMAIN current : current[k].minute \in Nat
  BY MinutesNatural DEF IInv, Shapes, TypeOK
<1>3. \A k \in DOMAIN current : current'[k].minute \in Nat /\ current[k].minute <= current'[k].minute
  BY <1>2
<1>4. \A k \in DOMAIN candles' : k = <<k[1], k[2]>> /\ k[1] \in Instruments /\ k[2] \in Nat
  <2>1. DOMAIN candles' \subseteq Keys
    BY <1>1 DEF IInv, Shapes, TypeOK
  <2>2. \A k \in Keys : k = <<k[1], k[2]>> /\ k[1] \in Instruments /\ k[2] \in Nat
    BY MinutesNatural DEF Keys
  <2> QED BY <2>1, <2>2
<1>5. life \in Nat
  BY DEF IInv, Shapes
<1>6. OwnRows'
  <2> SUFFICES ASSUME NEW k \in DOMAIN candles'
               PROVE  /\ writers'[k] # {} /\ writers'[k] \subseteq {Backfiller} \cup 0..life
                      /\ life \in writers'[k] =>
                           k[1] \in DOMAIN current' /\ k[2] <= current'[k[1]].minute
                      /\ writers'[k] = {Backfiller} => candles'[k] = Row(HistoryBar, TRUE, TRUE)
    BY DEF OwnRows
  <2>1. CASE k = key
    <3>1. writers'[k] \subseteq {Backfiller} \cup 0..life /\ life \in writers'[k]
      <4>1. key \in DOMAIN candles => writers[key] \subseteq {Backfiller} \cup 0..life
        BY DEF IInv, RowsInv, OwnRows
      <4>2. life \in 0..life
        BY <1>5
      <4>3. writers'[k] = {life} \cup (IF key \in DOMAIN candles THEN writers[key] ELSE {})
        BY <1>1, <2>1
      <4> QED BY <4>1, <4>2, <4>3
    <3>2. writers'[k] # {Backfiller}
      BY <3>1, <1>5 DEF Backfiller
    <3>3. k[1] = i /\ k[2] = m
      BY <2>1
    <3> QED BY <3>1, <3>2, <3>3, <1>3
  <2>2. CASE k # key
    <3>1. k \in DOMAIN candles
      BY <1>1, <2>2
    <3>2. candles'[k] = candles[k] /\ writers'[k] = writers[k]
      BY <1>1, <2>2, <3>1
    <3>3. life \in writers[k] => k[1] \in DOMAIN current /\ k[2] <= current[k[1]].minute
      BY <3>1 DEF IInv, RowsInv, OwnRows
    <3>4. life \in writers[k] => k[2] <= current'[k[1]].minute
      BY <3>3, <1>2, <1>3, <1>4
    <3> QED BY <3>1, <3>2, <3>3, <3>4 DEF IInv, RowsInv, OwnRows
  <2> QED BY <2>1, <2>2
<1>7. OpenBarsInProgress'
  <2> SUFFICES ASSUME NEW k \in DOMAIN candles', ~candles'[k].closed, life \in writers'[k]
               PROVE  k[1] \in DOMAIN current' /\ current'[k[1]].minute = k[2]
    BY DEF OpenBarsInProgress
  <2>1. CASE k = key
    BY <1>1, <1>2, <2>1
  <2>2. CASE k # key
    <3>1. k \in DOMAIN candles /\ candles'[k] = candles[k] /\ writers'[k] = writers[k]
      BY <1>1, <2>2
    <3>2. k[1] \in DOMAIN current /\ current[k[1]].minute = k[2]
      BY <3>1 DEF IInv, RowsInv, OpenBarsInProgress
    <3>3. k[1] # i
      BY <3>2, <2>2, <1>4
    <3> QED BY <3>2, <3>3
  <2> QED BY <2>1, <2>2
<1>8. NotYetClosed'
  <2> SUFFICES ASSUME NEW k \in DOMAIN current', NEW q, q = <<k, current'[k].minute>>,
                      q \in DOMAIN candles', writers'[q] = {life},
                      handler'.step = "flush" => k \in handler'.todo
               PROVE  ~candles'[q].closed
    BY DEF NotYetClosed
  <2>1. CASE k = i /\ current'[i].minute = m
    BY <1>1, <2>1
  <2>2. CASE k = i /\ current'[i].minute > m
    <3>1. q # key /\ q \in DOMAIN candles
      BY <1>1, <1>2, <2>2
    <3>2. life \in writers[q] /\ q[1] = i /\ q[2] = current'[i].minute
      BY <1>1, <2>2, <3>1
    <3>3. q[2] <= m
      BY <3>1, <3>2 DEF IInv, RowsInv, OwnRows
    <3> QED BY <3>2, <3>3, <2>2, <1>2
  <2>3. CASE k # i
    <3>1. q = <<k, current[k].minute>> /\ q # key /\ k \in DOMAIN current
      BY <2>3
    <3>2. q \in DOMAIN candles /\ candles'[q] = candles[q] /\ writers[q] = {life}
      BY <1>1, <3>1
    <3>3. handler.step = "flush" => k \in handler.todo
      OBVIOUS
    <3> QED BY <3>1, <3>2, <3>3 DEF IInv, RowsInv, NotYetClosed
  <2> QED BY <2>1, <2>2, <2>3
<1>9. JobBetween'
  <2> SUFFICES ASSUME NEW n \in Nat, InJob(n)
               PROVE  \E before, after \in Stored(job.instrument)' : before < n /\ n <= after
    BY DEF JobBetween, InJob
  <2>1. Stored(job.instrument) \subseteq Stored(job.instrument)'
    BY <1>1 DEF Stored
  <2> QED BY <2>1 DEF IInv, JobBetween
<1>10. Behind'
  <2> SUFFICES ASSUME life = 0, life' = 0
               PROVE  /\ \A k \in DOMAIN candles' : RowBehind(k)'
                      /\ \A n \in Nat : InJob(n) => MinuteBehind(job.instrument, n)'
    BY DEF Behind, InJob
  <2>1. \A k \in DOMAIN candles : RowBehind(k)
    BY DEF IInv, Behind
  <2>2. key[1] = i /\ key[2] = m /\ key = <<i, m>> /\ 0 # Backfiller
    BY DEF Backfiller
  <2>3. \A k \in DOMAIN candles : k \in DOMAIN candles' /\ (0 \in writers[k] => 0 \in writers'[k])
    BY <1>1
  <2>4. \A k \in DOMAIN candles' : 0 \in writers'[k] => k = key \/ (k \in DOMAIN candles /\ 0 \in writers[k])
    BY <1>1
  <2>5. ASSUME NEW j, NEW n, HasOwn(j, n)
        PROVE  HasOwn(j, n)'
    BY <2>3, <2>5 DEF HasOwn, OwnBefore
  <2>6. ASSUME NEW j, NEW n \in Nat, NoneNear(j, n), j = i => n <= m
        PROVE  NoneNear(j, n)'
    <3> SUFFICES ASSUME NEW k \in DOMAIN candles', k[1] = j, k[2] < n, 0 \in writers'[k]
                 PROVE  n - k[2] > 2
      BY DEF NoneNear, OwnBefore
    <3>1. k # key
      BY <1>2, <2>2, <2>6
    <3>2. k \in DOMAIN candles /\ 0 \in writers[k]
      BY <2>4, <3>1
    <3> QED BY <2>6, <3>2 DEF NoneNear, OwnBefore
  <2>7. ASSUME NEW k \in DOMAIN candles'
        PROVE  RowBehind(k)'
    <3>1. CASE k = key /\ key \in DOMAIN candles
      <4>1. RowBehind(key)
        BY <2>1, <3>1
      <4>2. writers[key] # {Backfiller}
        BY <4>1, <1>2, <2>2 DEF RowBehind
      <4>3. writers[key] \in {{0}, {Backfiller, 0}}
        BY <4>1, <4>2 DEF RowBehind
      <4>4. writers'[key] = writers[key]
        BY <1>1, <3>1, <4>3
      <4>5. writers[k] # {0} => HasOwn(k[1], k[2])'
        BY <2>5, <3>1, <4>1 DEF RowBehind
      <4>6. writers[k] = {Backfiller, 0} => NoneNear(k[1], k[2])'
        <5>1. k[2] \in Nat /\ k[2] <= m
          BY <1>2, <2>2, <3>1
        <5> QED BY <2>6, <3>1, <4>1, <5>1 DEF RowBehind
      <4>7. k[1] \in DOMAIN current' /\ k[2] <= current'[k[1]].minute
        BY <1>3, <2>2, <3>1
      <4> QED BY <2>2, <3>1, <4>2, <4>3, <4>4, <4>5, <4>6, <4>7 DEF RowBehind
    <3>2. CASE k = key /\ key \notin DOMAIN candles
      <4>1. writers'[key] = {0}
        BY <1>1, <3>2
      <4>2. i \in DOMAIN current' /\ m <= current'[i].minute
        BY <1>3
      <4>3. {0} # {Backfiller} /\ {0} # {Backfiller, 0}
        BY <2>2
      <4> QED BY <2>2, <3>2, <4>1, <4>2, <4>3 DEF RowBehind
    <3>3. CASE k # key
      <4>1. k \in DOMAIN candles /\ writers'[k] = writers[k]
        BY <1>1, <3>3
      <4>2. RowBehind(k)
        BY <2>1, <4>1
      <4>3. /\ k[1] \in DOMAIN current' /\ k[2] <= current'[k[1]].minute
            /\ writers[k] = {Backfiller} => k[2] < current'[k[1]].minute
        BY <4>2, <1>2, <1>3, <1>4 DEF RowBehind
      <4>4. writers[k] # {0} => HasOwn(k[1], k[2])'
        BY <2>5, <4>2 DEF RowBehind
      <4>5. writers[k] = {Backfiller, 0} => NoneNear(k[1], k[2])'
        <5>1. k[2] \in Nat /\ (k[1] = i => k[2] <= m)
          BY <1>4, <4>2 DEF RowBehind
        <5> QED BY <2>6, <4>2, <5>1 DEF RowBehind
      <4> QED BY <4>1, <4>2, <4>3, <4>4, <4>5 DEF RowBehind
    <3> QED BY <3>1, <3>2, <3>3
  <2>8. ASSUME NEW n \in Nat, InJob(n)
        PROVE  MinuteBehind(job.instrument, n)'
    <3>0. PICK j : j = job.instrument /\ j = job'.instrument
      OBVIOUS
    <3>1. MinuteBehind(j, n)
      BY <2>8, <3>0 DEF IInv, Behind
    <3>2. j \in DOMAIN current' /\ n <= current'[j].minute
      BY <3>1, <1>2, <1>3 DEF MinuteBehind
    <3>3. HasOwn(j, n)'
      BY <2>5, <3>1 DEF MinuteBehind
    <3>4. CASE /\ n < current[j].minute
               /\ <<j, n>> \in DOMAIN candles => writers[<<j, n>>] = {Backfiller}
      <4>1. <<j, n>> # key
        BY <3>4, <1>2, <2>2
      <4>2. <<j, n>> \in DOMAIN candles' => writers'[<<j, n>>] = {Backfiller}
        BY <3>4, <4>1, <1>1
      <4>3. n < current'[j].minute
        BY <3>1, <3>4, <1>2, <1>3 DEF MinuteBehind
      <4> QED BY <3>0, <3>2, <3>3, <4>2, <4>3 DEF MinuteBehind
    <3>5. CASE <<j, n>> \in DOMAIN candles /\ NoneNear(j, n)
      <4>1. <<j, n>> \in DOMAIN candles'
        BY <3>5, <2>3
      <4>2. NoneNear(j, n)'
        BY <3>1, <3>5, <2>6 DEF MinuteBehind
      <4> QED BY <3>0, <3>2, <3>3, <4>1, <4>2 DEF MinuteBehind
    <3> QED BY <3>1, <3>4, <3>5 DEF MinuteBehind
  <2> QED BY <2>7, <2>8
<1> QED BY <1>6, <1>7, <1>8, <1>9, <1>10 DEF RowsInv

-----------------------------------------------------------------------------
(* The steps of the ingestion.                                             *)

LEMMA TwoPrices ==
  ASSUME NEW a \in Nat, NEW b \in Nat
  PROVE  /\ Ingest!Max({a, b}) \in Nat /\ a <= Ingest!Max({a, b}) /\ b <= Ingest!Max({a, b})
         /\ Ingest!Min({a, b}) \in Nat /\ Ingest!Min({a, b}) <= a /\ Ingest!Min({a, b}) <= b
         /\ Ingest!Max({a, b}) \in {a, b} /\ Ingest!Min({a, b}) \in {a, b}
<1>1. \E x \in {a, b} : \A y \in {a, b} : x >= y
  <2>1. CASE a <= b
    BY <2>1
  <2>2. CASE b <= a
    BY <2>2
  <2> QED BY <2>1, <2>2
<1>2. \E x \in {a, b} : \A y \in {a, b} : x <= y
  <2>1. CASE a <= b
    BY <2>1
  <2>2. CASE b <= a
    BY <2>2
  <2> QED BY <2>1, <2>2
<1>3. Ingest!Max({a, b}) \in {a, b} /\ \A y \in {a, b} : Ingest!Max({a, b}) >= y
  BY <1>1 DEF Ingest!Max
<1>4. Ingest!Min({a, b}) \in {a, b} /\ \A y \in {a, b} : Ingest!Min({a, b}) <= y
  BY <1>2 DEF Ingest!Min
<1> QED BY <1>3, <1>4

\* A price keeps a bar well formed and in its minute.
LEMMA UpdatedBar ==
  ASSUME NEW bar \in BarType, WellFormed(bar), NEW price \in Nat
  PROVE  /\ Ingest!Updated(bar, price) \in BarType
         /\ WellFormed(Ingest!Updated(bar, price))
         /\ Ingest!Updated(bar, price).minute = bar.minute
<1>1. /\ bar.high \in Nat /\ bar.low \in Nat /\ bar.open \in Nat /\ bar.close \in Nat
  BY DEF BarType
<1>2. PICK top \in Nat : top = Ingest!Max({bar.high, price})
  BY <1>1, TwoPrices
<1>3. PICK bottom \in Nat : bottom = Ingest!Min({bar.low, price})
  BY <1>1, TwoPrices
<1>4. top >= bar.high /\ top >= price /\ bottom <= bar.low /\ bottom <= price
  BY <1>1, <1>2, <1>3, TwoPrices
<1>5. PICK new : new = [bar EXCEPT !.high = top, !.low = bottom, !.close = price]
  OBVIOUS
<1>6. new = Ingest!Updated(bar, price)
  BY <1>2, <1>3, <1>5 DEF Ingest!Updated, BarType
<1>7. /\ new \in BarType /\ new.minute = bar.minute /\ new.high = top /\ new.low = bottom
      /\ new.open = bar.open /\ new.close = price
  BY <1>5 DEF BarType
<1>8. WellFormed(new)
  BY <1>1, <1>4, <1>7 DEF WellFormed
<1> QED BY <1>6, <1>7, <1>8

\* The tick in hand is in the bar in progress once it is absorbed.
LEMMA AbsorbedBars ==
  ASSUME IInv, MarketAssumption,
         NEW i \in Instruments, NEW price \in Nat, NEW at \in Times,
         current' = Ingest!Absorbed(i, price, at)
  PROVE  /\ DOMAIN current' = DOMAIN current \cup {i}
         /\ \A k \in DOMAIN current \ {i} : current'[k] = current[k]
         /\ current'[i].minute = Ingest!Minute(at)
         /\ \A k \in DOMAIN current' : current'[k] \in BarType /\ WellFormed(current'[k])
<1>1. \A k \in DOMAIN current : current[k] \in BarType /\ WellFormed(current[k])
  BY DEF IInv, Shapes, TypeOK, BarType
<1>2. CASE i \in DOMAIN current /\ ~Ingest!InOtherMinute(i, at)
  <2>1. current' = [current EXCEPT ![i] = Ingest!Updated(@, price)]
    BY <1>2 DEF Ingest!Absorbed
  <2>2. PICK bar \in BarType : bar = current[i] /\ WellFormed(bar)
    BY <1>1, <1>2
  <2>3. current'[i] = Ingest!Updated(bar, price)
    BY <1>2, <2>1, <2>2
  <2>4. current'[i] \in BarType /\ WellFormed(current'[i]) /\ current'[i].minute = bar.minute
    BY <2>2, <2>3, UpdatedBar
  <2>5. bar.minute = Ingest!Minute(at)
    BY <1>2, <2>2 DEF Ingest!InOtherMinute
  <2>6. DOMAIN current' = DOMAIN current /\ \A k \in DOMAIN current \ {i} : current'[k] = current[k]
    BY <2>1
  <2> QED BY <1>1, <1>2, <2>4, <2>5, <2>6
<1>3. CASE ~(i \in DOMAIN current /\ ~Ingest!InOtherMinute(i, at))
  <2>1. PICK bar : bar = Ingest!FreshBar(Ingest!Minute(at), price)
    OBVIOUS
  <2>2. current' = Ingest!Put(current, i, bar)
    BY <1>3, <2>1 DEF Ingest!Absorbed
  <2>3. bar \in BarType /\ WellFormed(bar) /\ bar.minute = Ingest!Minute(at)
    BY <2>1, MinuteType DEF Ingest!FreshBar, BarType, WellFormed
  <2>4. /\ DOMAIN current' = DOMAIN current \cup {i}
        /\ current'[i] = bar
        /\ \A k \in DOMAIN current \ {i} : current'[k] = current[k]
    BY <2>2 DEF Ingest!Put
  <2> QED BY <1>1, <2>3, <2>4
<1> QED BY <1>2, <1>3

LEMMA TickHandler ==
  ASSUME IInv, handler.step \in TickSteps
  PROVE  /\ handler.instrument \in Instruments /\ handler.price \in Nat /\ handler.at \in Times
         /\ handler = Ingest!Handling(handler.step, handler.instrument, handler.price, handler.at)
BY DEF IInv, Shapes, HandlerShape, TickSteps, Ingest!Handling, Ingest!Idle, Ingest!Flushing

LEMMA OnOpenStep ==
  ASSUME IInv, Ingest!OnOpen, UNCHANGED jobVars
  PROVE  IInv'
<1>1. /\ handler = Ingest!Idle /\ handler.step = "idle" /\ UNCHANGED job
      /\ UNCHANGED <<current, lastTick, delivered, life>>
  BY DEF Ingest!OnOpen, Ingest!Idle, jobVars
<1>2. delivered' \in Nat
  BY <1>1 DEF IInv, Shapes
<1>3. CASE Ingest!StoreRaises /\ UNCHANGED disconnected
  <2>1. disconnected' \in BOOLEAN
    BY <1>3 DEF IInv, Shapes
  <2> QED BY <1>1, <1>2, <1>3, <2>1, CutShort
<1>4. CASE /\ UNCHANGED <<candles, ticks, writers, failures, handler>>
           /\ \/ UNCHANGED <<events, disconnected>>
              \/ /\ disconnected /\ disconnected' = FALSE
                 /\ events' = [events EXCEPT !["reconnect"] = @ + 1]
  <2>1. RowsInv' /\ JobBetween' /\ Behind'
    BY <1>1, <1>4, CurrentGrows
  <2>2. events \in [Ingest!EventTypes -> Nat] /\ events' \in [Ingest!EventTypes -> Nat]
    BY <1>4 DEF IInv, Shapes, TypeOK, Ingest!EventTypes
  <2>3. Shapes'
    <3>1. TypeOK'
      BY <1>1, <1>4, <2>2 DEF IInv, Shapes, TypeOK, WellFormed
    <3>2. HandlerShape' /\ JobShape'
      BY <1>1, <1>4 DEF IInv, Shapes, HandlerShape, JobShape
    <3>3. disconnected' \in BOOLEAN
      BY <1>4 DEF IInv, Shapes
    <3> QED BY <1>1, <1>4, <3>1, <3>2, <3>3 DEF IInv, Shapes
  <2>4. TickInHand'
    BY <1>1, <1>4 DEF IInv, TickInHand, TickSteps
  <2>5. Accounted'
    BY <1>1, <1>4, <2>2 DEF IInv, Accounted, Shapes, Ingest!EventTypes
  <2> QED BY <2>1, <2>3, <2>4, <2>5 DEF IInv
<1> QED BY <1>3, <1>4 DEF Ingest!OnOpen, Ingest!RecordEvent, Ingest!tables

LEMMA OnCloseStep ==
  ASSUME IInv, Ingest!OnClose, UNCHANGED jobVars
  PROVE  IInv'
<1>1. /\ handler = Ingest!Idle /\ handler.step = "idle" /\ UNCHANGED job
      /\ UNCHANGED <<current, lastTick, delivered, life>> /\ disconnected' = TRUE
  BY DEF Ingest!OnClose, Ingest!Idle, jobVars
<1>2. delivered' \in Nat
  BY <1>1 DEF IInv, Shapes
<1>3. CASE Ingest!StoreRaises
  BY <1>1, <1>2, <1>3, CutShort
<1>4. CASE Ingest!RecordEvent("disconnect") /\ UNCHANGED handler
  <2>0. /\ UNCHANGED <<candles, ticks, writers, failures, handler>>
        /\ events' = [events EXCEPT !["disconnect"] = @ + 1]
    BY <1>4 DEF Ingest!RecordEvent
  <2>1. RowsInv' /\ JobBetween' /\ Behind'
    BY <1>1, <2>0, CurrentGrows
  <2>2. events \in [Ingest!EventTypes -> Nat] /\ events' \in [Ingest!EventTypes -> Nat]
    BY <2>0 DEF IInv, Shapes, TypeOK, Ingest!EventTypes
  <2>3. Shapes'
    <3>1. TypeOK'
      BY <1>1, <2>0, <2>2 DEF IInv, Shapes, TypeOK, WellFormed
    <3>2. HandlerShape' /\ JobShape'
      BY <1>1, <2>0 DEF IInv, Shapes, HandlerShape, JobShape
    <3> QED BY <1>1, <2>0, <3>1, <3>2 DEF IInv, Shapes
  <2>4. TickInHand'
    BY <1>1, <2>0 DEF IInv, TickInHand, TickSteps
  <2>5. Accounted'
    BY <1>1, <2>0, <2>2 DEF IInv, Accounted, Shapes, Ingest!EventTypes
  <2> QED BY <2>1, <2>3, <2>4, <2>5 DEF IInv
<1> QED BY <1>3, <1>4 DEF Ingest!OnClose

LEMMA OnDataStep ==
  ASSUME IInv, MarketAssumption, NEW i \in Instruments, NEW p \in Prices, NEW at \in Times,
         Ingest!OnData(i, p, at), UNCHANGED jobVars
  PROVE  IInv'
<1>1. /\ handler = Ingest!Idle /\ handler.step = "idle" /\ UNCHANGED <<job, current, life, disconnected>>
      /\ delivered' = delivered + 1
  BY DEF Ingest!OnData, Ingest!Idle, Ingest!connection, jobVars
<1>2. delivered' \in Nat /\ disconnected' \in BOOLEAN
  BY <1>1 DEF IInv, Shapes
<1>3. CASE Ingest!StoreRaises /\ UNCHANGED lastTick
  BY <1>1, <1>2, <1>3, CutShort
<1>4. CASE Ingest!RecordEvent("rejected_bar") /\ UNCHANGED <<handler, lastTick>>
  <2>0. /\ UNCHANGED <<candles, ticks, writers, failures, handler, lastTick>>
        /\ events' = [events EXCEPT !["rejected_bar"] = @ + 1]
    BY <1>4 DEF Ingest!RecordEvent
  <2>1. RowsInv' /\ JobBetween' /\ Behind'
    BY <1>1, <2>0, CurrentGrows
  <2>2. events \in [Ingest!EventTypes -> Nat] /\ events' \in [Ingest!EventTypes -> Nat]
    BY <2>0 DEF IInv, Shapes, TypeOK, Ingest!EventTypes
  <2>3. Shapes'
    <3>1. TypeOK'
      BY <1>1, <2>0, <2>2 DEF IInv, Shapes, TypeOK, WellFormed
    <3>2. HandlerShape' /\ JobShape'
      BY <1>1, <2>0 DEF IInv, Shapes, HandlerShape, JobShape
    <3> QED BY <1>1, <1>2, <2>0, <3>1, <3>2 DEF IInv, Shapes
  <2>4. TickInHand'
    BY <1>1, <2>0 DEF IInv, TickInHand, TickSteps
  <2>5. Accounted'
    <3>1. Len(ticks) \in Nat
      BY LenProperties DEF IInv, Shapes
    <3> QED BY <1>1, <2>0, <2>2, <3>1 DEF IInv, Accounted, Shapes, Ingest!EventTypes
  <2> QED BY <2>1, <2>3, <2>4, <2>5 DEF IInv
<1>5. CASE Ingest!OnValidTick(i, p, at)
  <2>0. /\ UNCHANGED <<candles, ticks, events, writers, failures>>
        /\ lastTick' = [lastTick EXCEPT ![i] = at] /\ at > lastTick[i]
        /\ handler' = Ingest!Handling("insert", i, p, at)
    BY <1>5 DEF Ingest!OnValidTick, Ingest!ValidTick, Ingest!tables
  <2>1. RowsInv' /\ JobBetween' /\ Behind'
    BY <1>1, <2>0, CurrentGrows
  <2>2. p \in Nat /\ at \in Nat
    BY DEF MarketAssumption, Ingest!IngestionAssumption
  <2>3. Shapes'
    <3>1. TypeOK'
      BY <1>1, <2>0 DEF IInv, Shapes, TypeOK, WellFormed
    <3>2. HandlerShape' /\ JobShape'
      BY <1>1, <2>0, <2>2 DEF IInv, Shapes, HandlerShape, JobShape, TickSteps
    <3>3. lastTick' \in [Instruments -> Int]
      BY <2>0, <2>2 DEF IInv, Shapes
    <3> QED BY <1>1, <1>2, <2>0, <3>1, <3>2, <3>3 DEF IInv, Shapes
  <2>4. TickInHand'
    <3>1. handler'.step = "insert" /\ handler'.instrument = i /\ handler'.at = at
      BY <2>0 DEF Ingest!Handling
    <3>2. lastTick'[i] = at /\ \A k \in Instruments \ {i} : lastTick'[k] = lastTick[k]
      BY <2>0 DEF IInv, Shapes
    <3>3. ASSUME NEW k \in DOMAIN current'
          PROVE  lastTick'[k] \in Nat /\ current'[k].minute <= Ingest!Minute(lastTick'[k])
      <4>1. /\ k \in DOMAIN current /\ k \in Instruments
            /\ lastTick[k] \in Nat /\ current[k].minute <= Ingest!Minute(lastTick[k])
            /\ current[k].minute \in Nat
        BY <1>1, MinutesNatural DEF IInv, Shapes, TypeOK, TickInHand
      <4>2. CASE k = i
        <5>1. PICK last \in Nat : last = lastTick[i]
          BY <4>1, <4>2
        <5>2. /\ Ingest!Minute(last) <= Ingest!Minute(at)
              /\ Ingest!Minute(last) \in Int /\ Ingest!Minute(at) \in Int
          BY <2>0, <2>2, <5>1, MinuteMonotone
        <5>3. current[i].minute <= Ingest!Minute(last)
          BY <4>1, <4>2, <5>1
        <5> QED BY <1>1, <2>2, <3>2, <4>1, <4>2, <5>2, <5>3
      <4>3. CASE k # i
        BY <1>1, <3>2, <4>1, <4>3
      <4> QED BY <4>2, <4>3
    <3> QED BY <3>1, <3>2, <3>3 DEF TickInHand
  <2>5. Accounted'
    <3>1. Len(ticks) \in Nat /\ events["rejected_bar"] \in Nat
      BY LenProperties DEF IInv, Shapes, TypeOK, Ingest!EventTypes
    <3>2. handler'.step = "insert"
      BY <2>0 DEF Ingest!Handling
    <3> QED BY <1>1, <2>0, <3>1, <3>2 DEF IInv, Accounted, Shapes
  <2> QED BY <2>1, <2>3, <2>4, <2>5 DEF IInv
<1> QED BY <1>3, <1>4, <1>5 DEF Ingest!OnData, Ingest!OnInvalidTick

LEMMA InsertTickStep ==
  ASSUME IInv, MarketAssumption, Ingest!InsertTick, UNCHANGED jobVars
  PROVE  IInv'
<1>1. /\ handler.step = "insert" /\ UNCHANGED <<job, lastTick, disconnected, delivered, life>>
  BY DEF Ingest!InsertTick, Ingest!connection, jobVars
<1>2. /\ handler.instrument \in Instruments /\ handler.price \in Nat /\ handler.at \in Times
      /\ handler = Ingest!Handling("insert", handler.instrument, handler.price, handler.at)
  BY <1>1, TickHandler DEF TickSteps
<1>3. PICK i \in Instruments : i = handler.instrument
  BY <1>2
<1>4. PICK at \in Times : at = handler.at
  BY <1>2
<1>5. PICK price \in Nat : price = handler.price
  BY <1>2
<1>6. delivered' \in Nat /\ disconnected' \in BOOLEAN
  BY <1>1 DEF IInv, Shapes
<1>7. CASE Ingest!StoreRaises /\ UNCHANGED current
  BY <1>1, <1>6, <1>7, CutShort
<1>8. CASE /\ ticks' = Append(ticks, [instrument |-> i, price |-> handler.price,
                                      at |-> handler.at, life |-> life])
           /\ \/ /\ Ingest!InOtherMinute(i, at) /\ handler' = [handler EXCEPT !.step = "finalize"]
                 /\ UNCHANGED current
              \/ /\ ~Ingest!InOtherMinute(i, at) /\ handler' = [handler EXCEPT !.step = "persist"]
                 /\ current' = Ingest!Absorbed(i, price, at)
           /\ UNCHANGED <<candles, events, writers, failures>>
  <2>1. PICK step \in {"finalize", "persist"} : handler' = Ingest!Handling(step, i, price, at)
    BY <1>2, <1>3, <1>4, <1>5, <1>8 DEF Ingest!Handling
  <2>2. /\ DOMAIN current \subseteq DOMAIN current' /\ DOMAIN current' \subseteq DOMAIN current \cup {i}
        /\ \A k \in DOMAIN current : current'[k].minute = current[k].minute
        /\ \A k \in DOMAIN current' : current'[k] \in BarType /\ WellFormed(current'[k])
        /\ \A k \in DOMAIN current' \ {i} : current'[k] = current[k]
        /\ step = "finalize" => i \in DOMAIN current /\ current[i].minute # Ingest!Minute(at)
                                 /\ UNCHANGED current
        /\ step = "persist" => i \in DOMAIN current' /\ current'[i].minute = Ingest!Minute(at)
    <3>1. CASE Ingest!InOtherMinute(i, at) /\ handler' = [handler EXCEPT !.step = "finalize"]
                 /\ UNCHANGED current
      <4>1. step = "finalize"
        BY <2>1, <3>1, <1>2 DEF Ingest!Handling
      <4>2. \A k \in DOMAIN current : current[k] \in BarType /\ WellFormed(current[k])
        BY DEF IInv, Shapes, TypeOK, BarType
      <4> QED BY <3>1, <4>1, <4>2 DEF Ingest!InOtherMinute
    <3>2. CASE ~Ingest!InOtherMinute(i, at) /\ handler' = [handler EXCEPT !.step = "persist"]
                 /\ current' = Ingest!Absorbed(i, price, at)
      <4>1. step = "persist"
        BY <2>1, <3>2, <1>2 DEF Ingest!Handling
      <4>2. /\ DOMAIN current' = DOMAIN current \cup {i}
            /\ \A k \in DOMAIN current \ {i} : current'[k] = current[k]
            /\ current'[i].minute = Ingest!Minute(at)
            /\ \A k \in DOMAIN current' : current'[k] \in BarType /\ WellFormed(current'[k])
        BY <3>2, AbsorbedBars
      <4>3. i \in DOMAIN current => current[i].minute = Ingest!Minute(at)
        BY <3>2 DEF Ingest!InOtherMinute
      <4> QED BY <4>1, <4>2, <4>3
    <3> QED BY <1>8, <3>1, <3>2
  <2>3. RowsInv' /\ JobBetween' /\ Behind'
    BY <1>1, <1>8, <2>2, CurrentGrows
  <2>4. handler'.step = step /\ handler'.instrument = i /\ handler'.at = at
    BY <2>1 DEF Ingest!Handling
  <2>5. ticks \in Seq(TickType) /\ life \in Nat
    BY DEF IInv, Shapes
  <2>6. PICK tick \in TickType :
          tick = [instrument |-> i, price |-> handler.price, at |-> handler.at, life |-> life]
    BY <1>2, <2>5 DEF TickType
  <2>7. ticks' \in Seq(TickType) /\ Len(ticks') = Len(ticks) + 1
    BY <1>8, <2>5, <2>6, AppendProperties
  <2>8. Shapes'
    <3>1. TypeOK'
      <4>1. DOMAIN current' \subseteq Instruments
        BY <2>2 DEF IInv, Shapes, TypeOK
      <4>2. \A k \in DOMAIN current' :
              /\ current'[k] \in [minute : Minutes, open : Nat, high : Nat, low : Nat, close : Nat]
              /\ WellFormed(current'[k])
        BY <2>2 DEF BarType
      <4> QED BY <1>8, <4>1, <4>2 DEF IInv, Shapes, TypeOK, WellFormed
    <3>2. HandlerShape'
      BY <2>1 DEF HandlerShape, TickSteps
    <3>3. JobShape'
      BY <1>1 DEF IInv, Shapes, JobShape
    <3> QED BY <1>1, <1>6, <1>8, <2>7, <3>1, <3>2, <3>3 DEF IInv, Shapes
  <2>9. TickInHand'
    <3>1. at = lastTick[i] /\ at \in Nat /\ Ingest!Minute(at) \in Nat
      BY <1>1, <1>3, <1>4, MinuteType DEF IInv, TickInHand, TickSteps
    <3>2. \A k \in DOMAIN current : current[k].minute \in Nat
      BY MinutesNatural DEF IInv, Shapes, TypeOK
    <3>3. ASSUME NEW k \in DOMAIN current'
          PROVE  lastTick'[k] \in Nat /\ current'[k].minute <= Ingest!Minute(lastTick'[k])
      <4>1. CASE k \in DOMAIN current
        BY <1>1, <2>2, <4>1 DEF IInv, TickInHand
      <4>2. CASE k \notin DOMAIN current
        <5>1. k = i /\ step = "persist"
          BY <2>2, <4>2
        <5> QED BY <1>1, <2>2, <3>1, <5>1
      <4> QED BY <4>1, <4>2
    <3>4. step = "finalize" => i \in DOMAIN current' /\ current'[i].minute < Ingest!Minute(at)
      <4> SUFFICES ASSUME step = "finalize"
                   PROVE  i \in DOMAIN current' /\ current'[i].minute < Ingest!Minute(at)
        OBVIOUS
      <4>1. current[i].minute <= Ingest!Minute(at)
        BY <2>2, <3>1 DEF IInv, TickInHand
      <4> QED BY <2>2, <3>1, <3>2, <4>1
    <3>5. handler'.step # "flush"
      BY <2>4
    <3> QED BY <1>1, <2>2, <2>4, <3>1, <3>3, <3>4, <3>5 DEF TickInHand
  <2>10. Accounted'
    <3>1. Len(ticks) \in Nat
      BY <2>5, LenProperties
    <3>2. handler'.step # "insert"
      BY <2>4
    <3> QED BY <1>1, <1>8, <2>7, <3>1, <3>2 DEF IInv, Accounted, Shapes, TypeOK, Ingest!EventTypes
  <2> QED BY <2>3, <2>8, <2>9, <2>10 DEF IInv
<1> QED BY <1>3, <1>4, <1>5, <1>7, <1>8 DEF Ingest!InsertTick

LEMMA FinalizePreviousStep ==
  ASSUME IInv, MarketAssumption, Ingest!FinalizePrevious, UNCHANGED jobVars
  PROVE  IInv'
<1>1. handler.step = "finalize" /\ UNCHANGED <<job, lastTick, disconnected, delivered, life>>
  BY DEF Ingest!FinalizePrevious, Ingest!connection, jobVars
<1>2. /\ handler.instrument \in Instruments /\ handler.price \in Nat /\ handler.at \in Times
      /\ handler = Ingest!Handling("finalize", handler.instrument, handler.price, handler.at)
  BY <1>1, TickHandler DEF TickSteps
<1>3. PICK i \in Instruments : i = handler.instrument
  BY <1>2
<1>4. PICK at \in Times : at = handler.at
  BY <1>2
<1>5. PICK price \in Nat : price = handler.price
  BY <1>2
<1>6. /\ i \in DOMAIN current /\ current[i].minute < Ingest!Minute(at) /\ lastTick[i] = at
      /\ at \in Nat /\ Ingest!Minute(at) \in Nat
  BY <1>1, <1>3, <1>4, MinuteType DEF IInv, TickInHand, TickSteps
<1>7. CASE Ingest!StoreRaises /\ UNCHANGED current
  <2>1. delivered' \in Nat /\ disconnected' \in BOOLEAN
    BY <1>1 DEF IInv, Shapes
  <2> QED BY <1>1, <2>1, <1>7, CutShort
<1>8. CASE /\ Ingest!WriteCandle(i, current[i], TRUE)
           /\ current' = Ingest!Absorbed(i, price, at)
           /\ handler' = [handler EXCEPT !.step = "persist"]
  <2>1. handler' = Ingest!Handling("persist", i, price, at)
    BY <1>2, <1>3, <1>4, <1>5, <1>8 DEF Ingest!Handling
  <2>2. handler'.step = "persist" /\ handler'.instrument = i /\ handler'.at = at
    BY <2>1 DEF Ingest!Handling
  <2>3. /\ DOMAIN current' = DOMAIN current \cup {i}
        /\ \A k \in DOMAIN current \ {i} : current'[k] = current[k]
        /\ current'[i].minute = Ingest!Minute(at)
        /\ \A k \in DOMAIN current' : current'[k] \in BarType /\ WellFormed(current'[k])
    BY <1>8, AbsorbedBars
  <2>4. TableShape' /\ UNCHANGED <<ticks, events, failures>>
    BY <1>6, <1>8, LiveWrite
  <2>5. RowsInv' /\ JobBetween' /\ Behind'
    BY <1>1, <1>6, <1>8, <2>3, WriteRows
  <2>6. Shapes'
    <3>1. TypeOK'
      <4>1. DOMAIN current' \subseteq Instruments
        BY <2>3 DEF IInv, Shapes, TypeOK
      <4>2. \A k \in DOMAIN current' :
              /\ current'[k] \in [minute : Minutes, open : Nat, high : Nat, low : Nat, close : Nat]
              /\ WellFormed(current'[k])
        BY <2>3 DEF BarType
      <4>3. events' \in [Ingest!EventTypes -> Nat]
        BY <2>4 DEF IInv, Shapes, TypeOK
      <4> QED BY <2>4, <4>1, <4>2, <4>3 DEF TableShape, TypeOK, WellFormed, RowType
    <3>2. HandlerShape'
      BY <2>1 DEF HandlerShape, TickSteps
    <3>3. JobShape'
      BY <1>1 DEF IInv, Shapes, JobShape
    <3> QED BY <1>1, <2>4, <3>1, <3>2, <3>3 DEF IInv, Shapes
  <2>7. TickInHand'
    <3>1. ASSUME NEW k \in DOMAIN current'
          PROVE  lastTick'[k] \in Nat /\ current'[k].minute <= Ingest!Minute(lastTick'[k])
      <4>1. CASE k = i
        BY <1>1, <1>6, <2>3, <4>1
      <4>2. CASE k # i
        BY <1>1, <2>3, <4>2 DEF IInv, TickInHand
      <4> QED BY <4>1, <4>2
    <3>2. handler'.at = lastTick'[i]
      BY <1>1, <1>6, <2>2
    <3> QED BY <2>2, <2>3, <3>1, <3>2 DEF TickInHand
  <2>8. Accounted'
    BY <1>1, <2>2, <2>4 DEF IInv, Accounted
  <2> QED BY <2>5, <2>6, <2>7, <2>8 DEF IInv
<1> QED BY <1>3, <1>4, <1>5, <1>7, <1>8 DEF Ingest!FinalizePrevious

LEMMA PersistCurrentStep ==
  ASSUME IInv, MarketAssumption, Ingest!PersistCurrent, UNCHANGED jobVars
  PROVE  IInv'
<1>1. /\ handler.step = "persist"
      /\ UNCHANGED <<job, current, lastTick, disconnected, delivered, life>>
  BY DEF Ingest!PersistCurrent, Ingest!connection, jobVars
<1>2. PICK i : i = handler.instrument
  OBVIOUS
<1>3. i \in DOMAIN current /\ current[i].minute \in Nat
  BY <1>1, <1>2, MinutesNatural DEF IInv, TickInHand, TickSteps, Shapes, TypeOK
<1>4. CASE Ingest!StoreRaises
  <2>1. delivered' \in Nat /\ disconnected' \in BOOLEAN
    BY <1>1 DEF IInv, Shapes
  <2> QED BY <1>1, <1>4, <2>1, CutShort
<1>5. CASE Ingest!WriteCandle(i, current[i], FALSE) /\ handler' = Ingest!Idle
  <2>1. TableShape' /\ UNCHANGED <<ticks, events, failures>>
    BY <1>3, <1>5, LiveWrite
  <2>2. RowsInv' /\ JobBetween' /\ Behind'
    <3>1. current'[i].minute \in Nat /\ current'[i].minute = current[i].minute
      BY <1>1, <1>3
    <3> QED BY <1>1, <1>3, <1>5, <3>1, WriteRows
  <2>3. Shapes'
    <3>1. TypeOK'
      BY <1>1, <2>1 DEF IInv, Shapes, TypeOK, TableShape, RowType, WellFormed
    <3>2. HandlerShape' /\ JobShape'
      BY <1>1, <1>5 DEF IInv, Shapes, HandlerShape, JobShape
    <3> QED BY <1>1, <2>1, <3>1, <3>2 DEF IInv, Shapes
  <2>4. TickInHand'
    BY <1>1, <1>5 DEF IInv, TickInHand, TickSteps, Ingest!Idle
  <2>5. Accounted'
    BY <1>1, <1>5, <2>1 DEF IInv, Accounted, Ingest!Idle
  <2> QED BY <2>2, <2>3, <2>4, <2>5 DEF IInv
<1> QED BY <1>2, <1>4, <1>5 DEF Ingest!PersistCurrent

LEMMA ShutdownStep ==
  ASSUME IInv, Ingest!Shutdown, UNCHANGED jobVars
  PROVE  IInv'
<1>1. /\ handler = Ingest!Idle /\ handler.step = "idle"
      /\ handler' = Ingest!Flushing(DOMAIN current)
      /\ UNCHANGED <<candles, ticks, events, writers, failures>>
      /\ UNCHANGED <<job, current, lastTick, disconnected, delivered, life>>
  BY DEF Ingest!Shutdown, Ingest!tables, Ingest!connection, Ingest!Idle, jobVars
<1>2. RowsInv' /\ JobBetween' /\ Behind'
  BY <1>1, CurrentGrows
<1>3. Shapes'
  <2>1. TypeOK'
    BY <1>1 DEF IInv, Shapes, TypeOK, WellFormed
  <2>2. HandlerShape'
    BY <1>1 DEF IInv, Shapes, TypeOK, HandlerShape
  <2>3. JobShape'
    BY <1>1 DEF IInv, Shapes, JobShape
  <2> QED BY <1>1, <2>1, <2>2, <2>3 DEF IInv, Shapes
<1>4. TickInHand'
  BY <1>1 DEF IInv, TickInHand, TickSteps, Ingest!Flushing
<1>5. Accounted'
  BY <1>1 DEF IInv, Accounted, Ingest!Flushing
<1> QED BY <1>2, <1>3, <1>4, <1>5 DEF IInv

\* What a process that ends during its flush, or is killed, leaves.
LEMMA FlushNextStep ==
  ASSUME IInv, MarketAssumption, NEW i \in Instruments, Ingest!FlushNext(i), UNCHANGED jobVars
  PROVE  IInv'
<1>1. /\ handler.step = "flush" /\ i \in handler.todo /\ UNCHANGED <<job, delivered>>
      /\ handler.todo \subseteq DOMAIN current
  BY DEF Ingest!FlushNext, jobVars, IInv, TickInHand
<1>2. current[i].minute \in Nat /\ i \in DOMAIN current
  BY <1>1, MinutesNatural DEF IInv, Shapes, TypeOK
<1>3. CASE /\ failures' = failures + 1 /\ Ingest!StartAgain
           /\ UNCHANGED <<candles, ticks, events, writers>>
  <2>1. failures' \in Nat /\ failures' # 0
    BY <1>3 DEF IInv, Shapes
  <2> QED BY <1>1, <1>3, <2>1, StartsAgain
<1>4. CASE /\ Ingest!WriteCandle(i, current[i], TRUE)
           /\ handler' = Ingest!Flushing(handler.todo \ {i})
           /\ UNCHANGED <<current, lastTick, disconnected, life>>
  <2>1. TableShape' /\ UNCHANGED <<ticks, events, failures>>
    BY <1>2, <1>4, LiveWrite
  <2>2. handler'.step = "flush" /\ handler'.todo = handler.todo \ {i}
    BY <1>4 DEF Ingest!Flushing
  <2>3. RowsInv' /\ JobBetween' /\ Behind'
    <3>1. current'[i].minute \in Nat /\ current'[i].minute = current[i].minute
      BY <1>2, <1>4
    <3> QED BY <1>1, <1>2, <1>4, <2>2, <3>1, WriteRows
  <2>4. Shapes'
    <3>1. TypeOK'
      BY <1>4, <2>1 DEF IInv, Shapes, TypeOK, TableShape, RowType, WellFormed
    <3>2. handler.todo \ {i} \in SUBSET Instruments
      BY <1>1 DEF IInv, Shapes, TypeOK
    <3>3. HandlerShape' /\ JobShape'
      BY <1>1, <1>4, <3>2 DEF IInv, Shapes, HandlerShape, JobShape
    <3> QED BY <1>1, <1>4, <2>1, <3>1, <3>3 DEF IInv, Shapes
  <2>5. TickInHand'
    BY <1>1, <1>4, <2>2 DEF IInv, TickInHand, TickSteps
  <2>6. Accounted'
    BY <1>1, <1>4, <2>1, <2>2 DEF IInv, Accounted
  <2> QED BY <2>3, <2>4, <2>5, <2>6 DEF IInv
<1> QED BY <1>3, <1>4 DEF Ingest!FlushNext

LEMMA FinishShutdownStep ==
  ASSUME IInv, Ingest!FinishShutdown, UNCHANGED jobVars
  PROVE  IInv'
<1>1. handler.step = "flush"
  BY DEF Ingest!FinishShutdown, Ingest!Flushing
<1>2. /\ Ingest!StartAgain /\ UNCHANGED <<candles, ticks, events, writers, failures, job, delivered>>
  BY DEF Ingest!FinishShutdown, Ingest!tables, jobVars
<1>3. failures' \in Nat
  BY <1>2 DEF IInv, Shapes
<1> QED BY <1>1, <1>2, <1>3, StartsAgain

LEMMA CrashStep ==
  ASSUME IInv, Ingest!Crash, UNCHANGED jobVars
  PROVE  IInv'
<1>1. /\ Ingest!StartAgain /\ UNCHANGED <<candles, ticks, events, writers, job, delivered>>
      /\ failures' = IF handler = Ingest!Idle THEN failures ELSE failures + 1
  BY DEF Ingest!Crash, jobVars
<1>2. failures' \in Nat /\ (failures' = 0 => failures = 0 /\ handler.step # "insert")
  BY <1>1 DEF IInv, Shapes, Ingest!Idle
<1> QED BY <1>1, <1>2, StartsAgain

-----------------------------------------------------------------------------
(* The steps of the backfill.                                              *)

LEMMA FillMin == ASSUME NEW S PROVE Fill!Min(S) = Min(S)
BY DEF Fill!Min, Min

\* The oldest gap is one of the gaps.
LEMMA NextGapIsOne ==
  ASSUME IInv, job.step = "gaps", job.gaps # {}
  PROVE  Fill!NextGap \in job.gaps /\ job.gaps \in SUBSET GapType
<1>1. job.gaps \in SUBSET GapType
  BY DEF IInv, Shapes, JobShape, Fill!NoJob, Fill!Looking, Fill!Filling
<1>2. PICK gaps \in SUBSET GapType : gaps = job.gaps
  BY <1>1
<1> DEFINE starts == {gap[1] : gap \in gaps}
<1>3. starts \in SUBSET Nat /\ starts # {}
  BY <1>2 DEF GapType
<1>4. \E gap \in gaps : gap[1] = Min(starts)
  BY <1>3, MinOfNaturals
<1>5. PICK gap \in gaps : gap[1] = Min(starts)
  BY <1>4
<1>6. \A other \in gaps : gap[1] <= other[1]
  BY <1>3, <1>5, MinOfNaturals
<1> QED BY <1>1, <1>2, <1>6 DEF Fill!NextGap

\* Nothing is written, and the job has nothing new to do.
LEMMA JobShrinks ==
  ASSUME IInv, UNCHANGED ingestVars, UNCHANGED <<candles, writers>>, JobShape',
         events' \in [Ingest!EventTypes -> Nat],
         \A type \in Ingest!EventTypes \ {"backfill"} : events'[type] = events[type],
         \A m \in Nat : InJob(m)' => InJob(m) /\ job'.instrument = job.instrument
  PROVE  IInv'
<1>0. UNCHANGED <<ticks, current, lastTick, disconnected, handler, delivered, life, failures>>
  BY DEF ingestVars
<1>1. Shapes'
  <2>1. TypeOK'
    BY <1>0 DEF IInv, Shapes, TypeOK, WellFormed
  <2> QED BY <1>0, <2>1 DEF IInv, Shapes, HandlerShape
<1>2. TickInHand' /\ RowsInv'
  BY <1>0 DEF IInv, TickInHand, RowsInv, OwnRows, OpenBarsInProgress, NotYetClosed
<1>3. JobBetween'
  <2> SUFFICES ASSUME NEW n \in Nat, InJob(n)'
               PROVE  \E before, after \in Stored(job.instrument)' : before < n /\ n <= after
    BY DEF JobBetween
  <2>1. InJob(n) /\ job'.instrument = job.instrument
    OBVIOUS
  <2>2. Stored(job.instrument)' = Stored(job.instrument)
    BY <2>1 DEF Stored
  <2> QED BY <2>1, <2>2 DEF IInv, JobBetween
<1>4. Behind'
  <2> SUFFICES ASSUME life = 0, life' = 0
               PROVE  /\ \A key \in DOMAIN candles' : RowBehind(key)'
                      /\ \A m \in Nat : InJob(m)' => MinuteBehind(job.instrument, m)'
    BY <1>0 DEF Behind
  <2>1. \A key \in DOMAIN candles : RowBehind(key) => RowBehind(key)'
    BY <1>0 DEF RowBehind, HasOwn, NoneNear, OwnBefore
  <2>2. ASSUME NEW m \in Nat, InJob(m)'
        PROVE  MinuteBehind(job.instrument, m)'
    <3>1. PICK i : i = job.instrument /\ i = job'.instrument
      BY <2>2
    <3>2. MinuteBehind(i, m)
      BY <2>2, <3>1 DEF IInv, Behind
    <3>3. MinuteBehind(i, m)'
      BY <1>0, <3>2 DEF MinuteBehind, HasOwn, NoneNear, OwnBefore
    <3> QED BY <3>1, <3>3
  <2> QED BY <2>1, <2>2 DEF IInv, Behind
<1>5. Accounted'
  <2>1. /\ events'["rejected_bar"] = events["rejected_bar"]
        /\ events'["disconnect"] = events["disconnect"]
        /\ events'["reconnect"] = events["reconnect"]
    BY DEF Ingest!EventTypes
  <2> QED BY <1>0, <2>1 DEF IInv, Accounted
<1> QED BY <1>1, <1>2, <1>3, <1>4, <1>5 DEF IInv

LEMMA JobDone ==
  ASSUME IInv, UNCHANGED ingestVars, UNCHANGED <<candles, writers, events>>, job' = Fill!NoJob
  PROVE  IInv'
<1>1. JobShape' /\ \A m \in Nat : ~InJob(m)'
  BY DEF JobShape, InJob, Fill!NoJob
<1>2. events' \in [Ingest!EventTypes -> Nat]
  BY DEF IInv, Shapes, TypeOK
<1> QED BY <1>1, <1>2, JobShrinks

\* Every minute of a gap lies between the two bars that bound it, and has none.
LEMMA StartBackfillStep ==
  ASSUME IInv, MarketAssumption, NEW i \in Instruments, Fill!StartBackfill(i), UNCHANGED ingestVars
  PROVE  IInv'
<1>0. /\ UNCHANGED <<ticks, current, lastTick, disconnected, handler, delivered, life, failures>>
      /\ UNCHANGED <<candles, writers, events>>
      /\ job' = Fill!Looking(i, Fill!FindGaps(candles, i))
  BY DEF ingestVars, Fill!StartBackfill
<1> DEFINE gaps == Fill!FindGaps(candles, i)
           minutes == Fill!MinutesOf(candles, i)
<1>1. \A m \in minutes : m \in Minutes /\ m \in Nat /\ <<i, m>> \in DOMAIN candles
  <2> SUFFICES ASSUME NEW m \in minutes
               PROVE  m \in Minutes /\ m \in Nat /\ <<i, m>> \in DOMAIN candles
    OBVIOUS
  <2>1. PICK key \in DOMAIN candles : key[1] = i /\ key[2] = m
    BY DEF Fill!MinutesOf
  <2>2. key \in Keys
    BY <2>1 DEF IInv, Shapes, TypeOK
  <2> QED BY <2>1, <2>2, MinutesNatural DEF Keys
<1>2. \A gap \in gaps : \E a, b \in minutes :
        /\ gap = <<a + 1, b>> /\ b - (a + 1) > 1
        /\ \A m \in minutes : m <= a \/ m >= b
  BY DEF Fill!FindGaps, Fill!Neighbours
<1>3. job'.step = "gaps" /\ job'.instrument = i /\ job'.gaps = gaps
  BY <1>0 DEF Fill!Looking
<1>4. ASSUME NEW n \in Nat, InJob(n)'
      PROVE  \E a, b \in minutes :
               /\ a < n /\ n <= b /\ b - a > 2
               /\ \A m \in minutes : m <= a \/ m >= b
  <2>1. PICK gap \in gaps : n \in Fill!InGap(gap)
    BY <1>3, <1>4 DEF InJob
  <2>2. PICK a \in minutes, b \in minutes :
          /\ gap = <<a + 1, b>> /\ b - (a + 1) > 1
          /\ \A m \in minutes : m <= a \/ m >= b
    BY <1>2
  <2>3. n \in (a + 1)..b /\ a \in Nat /\ b \in Nat
    BY <1>1, <2>1, <2>2 DEF Fill!InGap
  <2>4. a < n /\ n <= b /\ b - a > 2
    BY <2>2, <2>3
  <2> QED BY <2>2, <2>4
<1>5. Shapes'
  <2>1. TypeOK'
    BY <1>0 DEF IInv, Shapes, TypeOK, WellFormed
  <2>2. gaps \in SUBSET GapType
    <3> SUFFICES ASSUME NEW gap \in gaps PROVE gap \in GapType
      OBVIOUS
    <3>1. PICK a \in minutes, b \in minutes : gap = <<a + 1, b>>
      BY <1>2
    <3>2. a \in Nat /\ b \in Nat
      BY <1>1
    <3>3. a + 1 \in Nat
      BY <3>2
    <3> QED BY <3>1, <3>2, <3>3 DEF GapType
  <2>3. JobShape'
    BY <1>0, <2>2 DEF JobShape
  <2> QED BY <1>0, <2>1, <2>3 DEF IInv, Shapes, HandlerShape
<1>6. TickInHand' /\ RowsInv'
  BY <1>0 DEF IInv, TickInHand, RowsInv, OwnRows, OpenBarsInProgress, NotYetClosed
<1>7. JobBetween'
  <2>1. minutes \subseteq Stored(i)'
    BY <1>0, <1>1 DEF Stored, Minutes
  <2> QED BY <1>3, <1>4, <2>1 DEF JobBetween
<1>8. Behind'
  <2> SUFFICES ASSUME life = 0, life' = 0
               PROVE  /\ \A key \in DOMAIN candles' : RowBehind(key)'
                      /\ \A n \in Nat : InJob(n)' => MinuteBehind(job.instrument, n)'
    BY <1>0 DEF Behind
  <2>0. \A key \in DOMAIN candles : RowBehind(key)
    BY DEF IInv, Behind
  <2>1. \A key \in DOMAIN candles : RowBehind(key) => RowBehind(key)'
    BY <1>0 DEF RowBehind, HasOwn, NoneNear, OwnBefore
  <2>2. ASSUME NEW n \in Nat, InJob(n)'
        PROVE  MinuteBehind(i, n)
    <3>1. PICK a \in minutes, b \in minutes :
            /\ a < n /\ n <= b /\ b - a > 2
            /\ \A m \in minutes : m <= a \/ m >= b
      BY <1>4, <2>2
    <3>2. a \in Nat /\ b \in Nat
      BY <1>1
    <3>3. PICK first, last : first = <<i, a>> /\ last = <<i, b>>
      OBVIOUS
    <3>4. first \in DOMAIN candles /\ last \in DOMAIN candles
      BY <1>1, <3>3
    <3>5. first[1] = i /\ first[2] = a /\ last[1] = i /\ last[2] = b
      BY <3>3
    <3>6. i \in DOMAIN current /\ b <= current[i].minute
      BY <2>0, <3>4, <3>5 DEF RowBehind
    <3>7. current[i].minute \in Nat
      BY <3>6, MinutesNatural DEF IInv, Shapes, TypeOK
    <3>8. \A key \in DOMAIN candles : key[1] = i => key[2] \in minutes /\ key[2] \in Nat
      BY <1>1 DEF Fill!MinutesOf
    <3>9. HasOwn(i, n)
      <4>1. CASE 0 \in writers[first]
        BY <3>1, <3>4, <3>5, <4>1 DEF HasOwn, OwnBefore
      <4>2. CASE 0 \notin writers[first]
        <5>1. HasOwn(i, a)
          BY <2>0, <3>4, <3>5, <4>2 DEF RowBehind
        <5>2. PICK key \in DOMAIN candles : OwnBefore(key, i, a)
          BY <5>1 DEF HasOwn
        <5>3. OwnBefore(key, i, n)
          BY <3>1, <3>2, <3>8, <5>2 DEF OwnBefore
        <5> QED BY <5>3 DEF HasOwn
      <4> QED BY <4>1, <4>2
    <3>10. CASE n < b
      <4>1. n \notin minutes
        BY <3>1, <3>2, <3>10
      <4>2. <<i, n>> \notin DOMAIN candles
        BY <4>1 DEF Fill!MinutesOf
      <4> QED BY <3>2, <3>6, <3>7, <3>9, <3>10, <4>2 DEF MinuteBehind
    <3>11. CASE n = b
      <4>1. ASSUME NEW key \in DOMAIN candles, OwnBefore(key, i, b)
            PROVE  b - key[2] > 2
        <5>1. key[2] \in minutes /\ key[2] \in Nat /\ key[2] < b
          BY <3>8, <4>1 DEF OwnBefore
        <5>2. key[2] <= a
          BY <3>1, <3>2, <5>1
        <5> QED BY <3>1, <3>2, <5>1, <5>2
      <4>2. NoneNear(i, n)
        BY <3>11, <4>1 DEF NoneNear
      <4> QED BY <3>3, <3>4, <3>6, <3>9, <3>11, <4>2 DEF MinuteBehind
    <3> QED BY <3>1, <3>2, <3>10, <3>11
  <2>3. ASSUME NEW n \in Nat, InJob(n)'
        PROVE  MinuteBehind(job.instrument, n)'
    <3>1. PICK j : j = i /\ j = job'.instrument
      BY <1>3
    <3>2. MinuteBehind(j, n)
      BY <2>2, <2>3, <3>1
    <3>3. MinuteBehind(j, n)'
      BY <1>0, <3>2 DEF MinuteBehind, HasOwn, NoneNear, OwnBefore
    <3> QED BY <3>1, <3>3
  <2> QED BY <1>0, <2>0, <2>1, <2>3
<1>9. Accounted'
  BY <1>0 DEF IInv, Accounted
<1> QED BY <1>5, <1>6, <1>7, <1>8, <1>9 DEF IInv

LEMMA FetchFailsStep ==
  ASSUME IInv, Fill!FetchFails, UNCHANGED ingestVars
  PROVE  IInv'
<1>1. /\ UNCHANGED <<candles, writers, events>> /\ job.step = "gaps" /\ job.gaps # {}
      /\ job' = Fill!Looking(job.instrument, job.gaps \ {Fill!NextGap})
  BY DEF Fill!FetchFails
<1>2. job.gaps \in SUBSET GapType /\ job.instrument \in Instruments
  BY <1>1 DEF IInv, Shapes, JobShape, Fill!NoJob, Fill!Looking, Fill!Filling
<1>3. JobShape'
  BY <1>1, <1>2 DEF JobShape
<1>4. /\ job'.step = "gaps" /\ job'.instrument = job.instrument /\ job'.gaps \subseteq job.gaps
  BY <1>1 DEF Fill!Looking
<1>5. \A m \in Nat : InJob(m)' => InJob(m)
  BY <1>1, <1>4 DEF InJob
<1>6. events' \in [Ingest!EventTypes -> Nat]
  BY <1>1 DEF IInv, Shapes, TypeOK
<1> QED BY <1>1, <1>3, <1>4, <1>5, <1>6, JobShrinks

LEMMA FetchGapStep ==
  ASSUME IInv, NEW minutes, Fill!FetchGap(minutes), UNCHANGED ingestVars
  PROVE  IInv'
<1>1. /\ UNCHANGED <<candles, writers, events>> /\ job.step = "gaps" /\ job.gaps # {}
      /\ minutes \subseteq Fill!InGap(Fill!NextGap)
      /\ job' = Fill!Filling(job.instrument, job.gaps \ {Fill!NextGap}, minutes)
  BY DEF Fill!FetchGap
<1>2. job.gaps \in SUBSET GapType /\ job.instrument \in Instruments
  BY <1>1 DEF IInv, Shapes, JobShape, Fill!NoJob, Fill!Looking, Fill!Filling
<1>3. Fill!NextGap \in job.gaps
  BY <1>1, NextGapIsOne
<1>4. minutes \in SUBSET Nat
  BY <1>1, <1>2, <1>3 DEF GapType, Fill!InGap
<1>5. JobShape'
  BY <1>1, <1>2, <1>4 DEF JobShape
<1>6. /\ job'.step = "bars" /\ job'.instrument = job.instrument
      /\ job'.gaps \subseteq job.gaps /\ job'.bars = minutes
  BY <1>1 DEF Fill!Filling
<1>7. \A m \in Nat : InJob(m)' => InJob(m)
  BY <1>1, <1>3, <1>6 DEF InJob
<1>8. events' \in [Ingest!EventTypes -> Nat]
  BY <1>1 DEF IInv, Shapes, TypeOK
<1> QED BY <1>1, <1>5, <1>6, <1>7, <1>8, JobShrinks

\* The backfill writes the next bar of its gap.
BarWritten(key) ==
  /\ job.step = "bars" /\ job.bars # {}
  /\ key = <<job.instrument, Fill!Min(job.bars)>>
  /\ candles' = Fill!Upserted(candles, key, Fill!Row(HistoryBar, TRUE, TRUE))
  /\ writers' = Fill!Signed(writers, key, Backfiller)

\* What it writes, and to which row: the history's bar, unless the ingestion has one.
RowFilled(key) ==
  /\ key \in Keys /\ key[2] \in Nat /\ key[1] = job.instrument
  /\ InJob(key[2])
  /\ DOMAIN candles' = DOMAIN candles \cup {key}
  /\ \A k \in DOMAIN candles \ {key} :
       candles'[k] = candles[k] /\ writers'[k] = writers[k]
  /\ writers'[key] = {Backfiller} \cup (IF key \in DOMAIN candles THEN writers[key] ELSE {})
  /\ candles'[key].closed
  /\ writers'[key] = {Backfiller} => candles'[key] = Row(HistoryBar, TRUE, TRUE)
  /\ TableShape'

LEMMA FillWrite ==
  ASSUME IInv, MarketAssumption, NEW key, BarWritten(key)
  PROVE  RowFilled(key)
<1>0. /\ job.step = "bars" /\ job.bars # {}
      /\ key = <<job.instrument, Fill!Min(job.bars)>>
      /\ candles' = Fill!Upserted(candles, key, Fill!Row(HistoryBar, TRUE, TRUE))
      /\ writers' = Fill!Signed(writers, key, Backfiller)
  BY DEF BarWritten
<1>1. job.bars \in SUBSET Nat /\ job.instrument \in Instruments
  BY <1>0 DEF IInv, Shapes, JobShape, Fill!NoJob, Fill!Looking, Fill!Filling
<1>2. PICK m \in Nat : m = Fill!Min(job.bars) /\ m \in job.bars
  BY <1>0, <1>1, FillMin, MinOfNaturals
<1>3. InJob(m) /\ key[2] = m /\ key[1] = job.instrument
  BY <1>0, <1>2 DEF InJob
<1>4. m \in Minutes
  <2>1. PICK after \in Minutes : m <= after
    BY <1>3 DEF IInv, JobBetween, Stored
  <2>2. PICK at \in Times : after \in 0..Ingest!Minute(at)
    BY <2>1 DEF Minutes
  <2>3. Ingest!Minute(at) \in Nat
    BY MinuteType
  <2>4. m \in 0..Ingest!Minute(at)
    BY <2>1, <2>2, <2>3
  <2> QED BY <2>4 DEF Minutes
<1>5. key \in Keys
  BY <1>0, <1>1, <1>2, <1>4 DEF Keys
<1> DEFINE bar == Row(HistoryBar, TRUE, TRUE)
           row == IF key \in DOMAIN candles THEN [bar EXCEPT !.open = candles[key].open] ELSE bar
           who == {Backfiller} \cup (IF key \in DOMAIN writers THEN writers[key] ELSE {})
<1>6. candles' = Fill!Put(candles, key, row) /\ writers' = Fill!Put(writers, key, who)
  BY <1>0 DEF Fill!Upserted, Fill!Signed, Fill!Row, Row
<1>7. /\ DOMAIN candles \subseteq Keys /\ DOMAIN writers = DOMAIN candles
      /\ \A k \in DOMAIN candles : candles[k] \in RowType
  BY DEF IInv, Shapes, TypeOK, RowType
<1>8. bar \in RowType /\ bar.closed
  BY DEF MarketAssumption, Fill!BackfillAssumption, Row, RowType
<1>9. row \in RowType /\ row.closed
  BY <1>7, <1>8 DEF RowType
<1>10. who = {Backfiller} => row = bar
  <2>1. CASE key \in DOMAIN candles
    <3> SUFFICES ASSUME who = {Backfiller} PROVE row = bar
      OBVIOUS
    <3>0. writers[key] # {} /\ writers[key] \subseteq {Backfiller}
      BY <1>7, <2>1 DEF IInv, RowsInv, OwnRows
    <3>1. writers[key] = {Backfiller}
      BY <3>0
    <3>2. candles[key] = bar
      BY <2>1, <3>1 DEF IInv, RowsInv, OwnRows
    <3>3. [bar EXCEPT !.open = bar.open] = bar
      BY DEF Row
    <3> QED BY <2>1, <3>2, <3>3
  <2>2. CASE key \notin DOMAIN candles
    BY <2>2
  <2> QED BY <2>1, <2>2
<1>11. who = {Backfiller} \cup (IF key \in DOMAIN candles THEN writers[key] ELSE {})
  BY <1>7
<1> HIDE DEF row, who, bar
<1>12. /\ DOMAIN candles' = DOMAIN candles \cup {key}
       /\ candles'[key] = row
       /\ \A k \in DOMAIN candles \ {key} : candles'[k] = candles[k]
  BY <1>6 DEF Fill!Put
<1>13. /\ DOMAIN writers' = DOMAIN writers \cup {key}
       /\ writers'[key] = who
       /\ \A k \in DOMAIN writers \ {key} : writers'[k] = writers[k]
  BY <1>6 DEF Fill!Put
<1>14. TableShape'
  BY <1>5, <1>7, <1>9, <1>12, <1>13 DEF TableShape, Keys, Minutes
<1> QED BY <1>2, <1>3, <1>5, <1>7, <1>9, <1>10, <1>11, <1>12, <1>13, <1>14 DEF bar, RowFilled

LEMMA WriteBarStep ==
  ASSUME IInv, MarketAssumption, Fill!WriteBar, UNCHANGED ingestVars
  PROVE  IInv'
<1>0. /\ UNCHANGED <<ticks, current, lastTick, disconnected, handler, delivered, life, failures>>
      /\ job.step = "bars" /\ job.bars # {}
  BY DEF ingestVars, Fill!WriteBar
<1>1. CASE Fill!StoreRaises
  BY <1>1, JobDone DEF Fill!StoreRaises
<1>2. PICK key : key = <<job.instrument, Fill!Min(job.bars)>>
  OBVIOUS
<1>3. CASE /\ candles' = Fill!Upserted(candles, key, Fill!Row(HistoryBar, TRUE, TRUE))
           /\ writers' = Fill!Signed(writers, key, Backfiller)
           /\ job' = [job EXCEPT !.bars = @ \ {Fill!Min(@)}]
           /\ UNCHANGED events
  <2>1. /\ key \in Keys /\ key[2] \in Nat /\ key[1] = job.instrument
        /\ InJob(key[2])
        /\ DOMAIN candles' = DOMAIN candles \cup {key}
        /\ \A k \in DOMAIN candles \ {key} :
             candles'[k] = candles[k] /\ writers'[k] = writers[k]
        /\ writers'[key] = {Backfiller} \cup (IF key \in DOMAIN candles THEN writers[key] ELSE {})
        /\ candles'[key].closed
        /\ writers'[key] = {Backfiller} => candles'[key] = Row(HistoryBar, TRUE, TRUE)
        /\ TableShape'
    <3>1. BarWritten(key)
      BY <1>0, <1>2, <1>3 DEF BarWritten
    <3>2. RowFilled(key)
      BY <3>1, FillWrite
    <3> QED BY <3>2 DEF RowFilled
  <2>2. PICK i \in Instruments, gaps \in SUBSET GapType, bars \in SUBSET Nat :
          job = Fill!Filling(i, gaps, bars)
    BY <1>0 DEF IInv, Shapes, JobShape, Fill!NoJob, Fill!Looking, Fill!Filling
  <2>3. job' = Fill!Filling(i, gaps, bars \ {Fill!Min(bars)})
    BY <1>3, <2>2 DEF Fill!Filling
  <2>4. /\ job'.step = "bars" /\ job'.instrument = job.instrument /\ job'.gaps = job.gaps
        /\ job'.bars \subseteq job.bars
    BY <2>2, <2>3 DEF Fill!Filling
  <2>5. \A n \in Nat : InJob(n)' => InJob(n)
    BY <1>0, <2>4 DEF InJob
  <2>6. life \in Nat
    BY DEF IInv, Shapes
  <2>7. Backfiller # life /\ \A k \in DOMAIN candles : k = <<k[1], k[2]>>
    BY <2>6 DEF Backfiller, IInv, Shapes, TypeOK, Keys
  <2>8. Shapes'
    <3>1. TypeOK'
      BY <1>0, <1>3, <2>1 DEF IInv, Shapes, TypeOK, TableShape, RowType, WellFormed
    <3>2. JobShape'
      <4>1. bars \ {Fill!Min(bars)} \in SUBSET Nat
        OBVIOUS
      <4> QED BY <2>3, <4>1 DEF JobShape
    <3> QED BY <1>0, <3>1, <3>2 DEF IInv, Shapes, HandlerShape
  <2>9. TickInHand'
    BY <1>0 DEF IInv, TickInHand
  <2>10. OwnRows'
    <3> SUFFICES ASSUME NEW k \in DOMAIN candles'
                 PROVE  /\ writers'[k] # {} /\ writers'[k] \subseteq {Backfiller} \cup 0..life
                        /\ life \in writers'[k] =>
                             k[1] \in DOMAIN current /\ k[2] <= current[k[1]].minute
                        /\ writers'[k] = {Backfiller} => candles'[k] = Row(HistoryBar, TRUE, TRUE)
      BY <1>0 DEF OwnRows
    <3>1. CASE k = key
      <4>1. key \in DOMAIN candles =>
              /\ writers[key] \subseteq {Backfiller} \cup 0..life
              /\ life \in writers[key] =>
                   key[1] \in DOMAIN current /\ key[2] <= current[key[1]].minute
        BY DEF IInv, RowsInv, OwnRows
      <4>2. writers'[key] # {} /\ writers'[key] \subseteq {Backfiller} \cup 0..life
        BY <2>1, <4>1
      <4>3. life \in writers'[key] => key \in DOMAIN candles /\ life \in writers[key]
        BY <2>1, <2>7
      <4> QED BY <2>1, <3>1, <4>1, <4>2, <4>3
    <3>2. CASE k # key
      <4>1. k \in DOMAIN candles /\ candles'[k] = candles[k] /\ writers'[k] = writers[k]
        BY <2>1, <3>2
      <4> QED BY <4>1 DEF IInv, RowsInv, OwnRows
    <3> QED BY <3>1, <3>2
  <2>11. OpenBarsInProgress'
    <3> SUFFICES ASSUME NEW k \in DOMAIN candles', ~candles'[k].closed, life \in writers'[k]
                 PROVE  k[1] \in DOMAIN current /\ current[k[1]].minute = k[2]
      BY <1>0 DEF OpenBarsInProgress
    <3>1. k # key /\ k \in DOMAIN candles
      BY <2>1
    <3> QED BY <2>1, <3>1 DEF IInv, RowsInv, OpenBarsInProgress
  <2>12. NotYetClosed'
    <3> SUFFICES ASSUME NEW k \in DOMAIN current, NEW q, q = <<k, current[k].minute>>,
                        q \in DOMAIN candles', writers'[q] = {life},
                        handler.step = "flush" => k \in handler.todo
                 PROVE  ~candles'[q].closed
      BY <1>0 DEF NotYetClosed
    <3>1. q # key
      BY <2>1, <2>7
    <3>2. q \in DOMAIN candles /\ candles'[q] = candles[q] /\ writers[q] = {life}
      BY <2>1, <3>1
    <3> QED BY <3>2 DEF IInv, RowsInv, NotYetClosed
  <2>13. JobBetween'
    <3> SUFFICES ASSUME NEW n \in Nat, InJob(n)'
                 PROVE  \E before, after \in Stored(job.instrument)' : before < n /\ n <= after
      BY DEF JobBetween
    <3>1. Stored(job.instrument) \subseteq Stored(job.instrument)'
      BY <2>1, <2>4 DEF Stored
    <3> QED BY <2>5, <3>1 DEF IInv, JobBetween
  <2>14. Behind'
    <3> SUFFICES ASSUME life = 0, life' = 0
                 PROVE  /\ \A k \in DOMAIN candles' : RowBehind(k)'
                        /\ \A n \in Nat : InJob(n)' => MinuteBehind(job.instrument, n)'
      BY <1>0 DEF Behind
    <3>1. \A k \in DOMAIN candles : RowBehind(k)
      BY DEF IInv, Behind
    <3>2. key = <<job.instrument, key[2]>> /\ key[1] = job.instrument
      BY <1>2, <2>1
    <3>3. MinuteBehind(key[1], key[2])
      BY <2>1, <3>2 DEF IInv, Behind
    <3>4. \A k \in DOMAIN candles : k \in DOMAIN candles' /\ (0 \in writers[k] => 0 \in writers'[k])
      BY <2>1
    <3>5. \A k \in DOMAIN candles' : 0 \in writers'[k] => k \in DOMAIN candles /\ 0 \in writers[k]
      BY <2>1, <2>7
    <3>6. ASSUME NEW j, NEW n, HasOwn(j, n)
          PROVE  HasOwn(j, n)'
      BY <3>4, <3>6 DEF HasOwn, OwnBefore
    <3>7. ASSUME NEW j, NEW n, NoneNear(j, n)
          PROVE  NoneNear(j, n)'
      BY <3>5, <3>7 DEF NoneNear, OwnBefore
    <3>8. RowBehind(key)'
      <4>1. /\ key[1] \in DOMAIN current' /\ key[2] <= current'[key[1]].minute
            /\ HasOwn(key[1], key[2])'
        BY <1>0, <3>3, <3>6 DEF MinuteBehind
      <4>2. CASE key \in DOMAIN candles /\ 0 \in writers[key]
        <5>1. writers'[key] = {Backfiller, 0}
          BY <2>1, <3>1, <4>2 DEF RowBehind
        <5>2. writers[key] # {Backfiller}
          BY <4>2, <2>7
        <5>3. NoneNear(key[1], key[2])
          BY <3>2, <3>3, <5>2, <4>2 DEF MinuteBehind
        <5>4. NoneNear(key[1], key[2])'
          BY <3>7, <5>3
        <5>5. {Backfiller, 0} # {Backfiller}
          BY <2>7
        <5> QED BY <4>1, <5>1, <5>4, <5>5 DEF RowBehind
      <4>3. CASE key \in DOMAIN candles /\ 0 \notin writers[key]
        <5>1. writers[key] = {Backfiller} /\ key[2] < current[key[1]].minute
          BY <3>1, <4>3 DEF RowBehind
        <5>2. writers'[key] = {Backfiller}
          BY <2>1, <4>3, <5>1
        <5>3. {Backfiller, 0} # {Backfiller}
          BY <2>7
        <5> QED BY <1>0, <4>1, <5>1, <5>2, <5>3 DEF RowBehind
      <4>4. CASE key \notin DOMAIN candles
        <5>1. writers'[key] = {Backfiller}
          BY <2>1, <4>4
        <5>2. key[2] < current[key[1]].minute
          BY <3>2, <3>3, <4>4 DEF MinuteBehind
        <5>3. {Backfiller, 0} # {Backfiller}
          BY <2>7
        <5> QED BY <1>0, <4>1, <5>1, <5>2, <5>3 DEF RowBehind
      <4> QED BY <4>2, <4>3, <4>4
    <3>9. ASSUME NEW k \in DOMAIN candles', k # key
          PROVE  RowBehind(k)'
      <4>1. k \in DOMAIN candles /\ writers'[k] = writers[k]
        BY <2>1, <3>9
      <4>2. RowBehind(k)
        BY <3>1, <4>1
      <4>3. writers[k] # {0} => HasOwn(k[1], k[2])'
        BY <3>6, <4>2 DEF RowBehind
      <4>4. writers[k] = {Backfiller, 0} => NoneNear(k[1], k[2])'
        BY <3>7, <4>2 DEF RowBehind
      <4> QED BY <1>0, <4>1, <4>2, <4>3, <4>4 DEF RowBehind
    <3>10. ASSUME NEW n \in Nat, InJob(n)'
           PROVE  MinuteBehind(job.instrument, n)'
      <4>1. PICK j : j = job.instrument /\ j = job'.instrument
        BY <2>4
      <4>2. MinuteBehind(j, n)
        BY <2>5, <3>10, <4>1 DEF IInv, Behind
      <4>3. j \in DOMAIN current' /\ n <= current'[j].minute /\ HasOwn(j, n)'
        BY <1>0, <3>6, <4>2 DEF MinuteBehind
      <4>4. CASE /\ n < current[j].minute
                 /\ <<j, n>> \in DOMAIN candles => writers[<<j, n>>] = {Backfiller}
        <5>1. <<j, n>> \in DOMAIN candles' => writers'[<<j, n>>] = {Backfiller}
          BY <2>1, <4>4
        <5> QED BY <1>0, <4>1, <4>3, <4>4, <5>1 DEF MinuteBehind
      <4>5. CASE <<j, n>> \in DOMAIN candles /\ NoneNear(j, n)
        <5>1. <<j, n>> \in DOMAIN candles' /\ NoneNear(j, n)'
          BY <3>4, <3>7, <4>5
        <5> QED BY <4>1, <4>3, <5>1 DEF MinuteBehind
      <4> QED BY <4>2, <4>4, <4>5 DEF MinuteBehind
    <3> QED BY <3>8, <3>9, <3>10
  <2>15. Accounted'
    BY <1>0, <1>3 DEF IInv, Accounted
  <2> QED BY <2>8, <2>9, <2>10, <2>11, <2>12, <2>13, <2>14, <2>15 DEF IInv, RowsInv
<1> QED BY <1>1, <1>2, <1>3 DEF Fill!WriteBar, Fill!Backfiller, Backfiller

LEMMA FinishGapStep ==
  ASSUME IInv, Fill!FinishGap, UNCHANGED ingestVars
  PROVE  IInv'
<1>1. CASE Fill!StoreRaises
  BY <1>1, JobDone DEF Fill!StoreRaises
<1>2. CASE /\ events' = [events EXCEPT !["backfill"] = @ + 1]
           /\ job' = Fill!Looking(job.instrument, job.gaps)
           /\ UNCHANGED <<candles, writers>>
  <2>0. job.step = "bars"
    BY DEF Fill!FinishGap
  <2>1. job.gaps \in SUBSET GapType /\ job.instrument \in Instruments
    BY <2>0 DEF IInv, Shapes, JobShape, Fill!NoJob, Fill!Looking, Fill!Filling
  <2>2. JobShape'
    BY <1>2, <2>1 DEF JobShape
  <2>3. job'.step = "gaps" /\ job'.instrument = job.instrument /\ job'.gaps = job.gaps
    BY <1>2 DEF Fill!Looking
  <2>4. \A m \in Nat : InJob(m)' => InJob(m)
    BY <2>0, <2>3 DEF InJob
  <2>5. events' \in [Ingest!EventTypes -> Nat]
    BY <1>2 DEF IInv, Shapes, TypeOK, Ingest!EventTypes
  <2>6. \A type \in Ingest!EventTypes \ {"backfill"} : events'[type] = events[type]
    BY <1>2 DEF IInv, Shapes, TypeOK
  <2> QED BY <1>2, <2>2, <2>3, <2>4, <2>5, <2>6, JobShrinks
<1> QED BY <1>1, <1>2 DEF Fill!FinishGap

-----------------------------------------------------------------------------
LEMMA InitIInv ==
  ASSUME MarketAssumption, Init
  PROVE  IInv
<1>1. /\ candles = <<>> /\ ticks = <<>> /\ current = <<>> /\ writers = <<>>
      /\ events = [type \in Ingest!EventTypes |-> 0]
      /\ lastTick = [i \in Instruments |-> Ingest!NoTick] /\ disconnected = FALSE
      /\ handler = Ingest!Idle /\ delivered = 0 /\ life = 0 /\ failures = 0 /\ job = Fill!NoJob
  BY DEF Init, Ingest!Init, Fill!Init
<1>2. DOMAIN candles = {} /\ DOMAIN current = {} /\ DOMAIN writers = {}
  BY <1>1
<1>3. Shapes
  <2>1. TypeOK
    BY <1>1, <1>2 DEF TypeOK, Ingest!EventTypes
  <2>2. HandlerShape /\ JobShape
    BY <1>1 DEF HandlerShape, JobShape
  <2>3. lastTick \in [Instruments -> Int]
    BY <1>1 DEF Ingest!NoTick
  <2>4. ticks \in Seq(TickType)
    BY <1>1
  <2> QED BY <1>1, <2>1, <2>2, <2>3, <2>4 DEF Shapes
<1>4. TickInHand /\ RowsInv
  BY <1>1, <1>2 DEF TickInHand, RowsInv, OwnRows, OpenBarsInProgress, NotYetClosed,
       Ingest!Idle, TickSteps
<1>5. \A m \in Nat : ~InJob(m)
  BY <1>1 DEF InJob, Fill!NoJob
<1>6. JobBetween /\ Behind
  BY <1>2, <1>5 DEF JobBetween, Behind
<1>7. Accounted
  BY <1>1 DEF Accounted, Ingest!Idle, Ingest!EventTypes
<1> QED BY <1>3, <1>4, <1>6, <1>7 DEF IInv

LEMMA NextIInv ==
  ASSUME MarketAssumption, IInv, [Next]_vars
  PROVE  IInv'
<1>1. CASE Ingest!Next /\ UNCHANGED jobVars
  BY <1>1, OnOpenStep, OnCloseStep, OnDataStep, InsertTickStep, FinalizePreviousStep,
     PersistCurrentStep, ShutdownStep, FlushNextStep, FinishShutdownStep, CrashStep
     DEF Ingest!Next
<1>2. CASE Fill!Next /\ UNCHANGED ingestVars
  <2>1. CASE \E i \in Instruments : Fill!StartBackfill(i)
    BY <1>2, <2>1, StartBackfillStep
  <2>2. CASE Fill!FetchFails
    BY <1>2, <2>2, FetchFailsStep
  <2>3. CASE \E gap \in job.gaps : \E minutes \in SUBSET Fill!InGap(gap) : Fill!FetchGap(minutes)
    BY <1>2, <2>3, FetchGapStep
  <2>4. CASE Fill!WriteBar
    BY <1>2, <2>4, WriteBarStep
  <2>5. CASE Fill!FinishGap
    BY <1>2, <2>5, FinishGapStep
  <2>6. CASE Fill!FinishBackfill
    BY <1>2, <2>6, JobDone DEF Fill!FinishBackfill
  <2> QED BY <1>2, <2>1, <2>2, <2>3, <2>4, <2>5, <2>6 DEF Fill!Next
<1>3. CASE UNCHANGED vars
  <2>1. UNCHANGED ingestVars /\ UNCHANGED <<candles, writers, events, job>>
    BY <1>3 DEF vars, ingestVars
  <2>2. JobShape' /\ events' \in [Ingest!EventTypes -> Nat]
    BY <2>1 DEF IInv, Shapes, TypeOK, JobShape
  <2>3. \A m \in Nat : InJob(m)' => InJob(m)
    BY <2>1 DEF InJob
  <2> QED BY <2>1, <2>2, <2>3, JobShrinks
<1> QED BY <1>1, <1>2, <1>3 DEF Next

LEMMA SpecIInv == Spec => []IInv
<1>1. Init => IInv
  BY MarketAssumption, InitIInv
<1>2. IInv /\ [Next]_vars => IInv'
  BY MarketAssumption, NextIInv
<1> QED BY <1>1, <1>2, PTL DEF Spec

-----------------------------------------------------------------------------
(* Closed bars.                                                            *)

LEMMA WritersFinite ==
  ASSUME NEW n \in Nat, NEW S, S \subseteq {Backfiller} \cup 0..n
  PROVE  IsFiniteSet(S)
<1>1. IsFiniteSet((-1)..n)
  BY FS_Interval
<1>2. \A x \in {Backfiller} \cup 0..n : x \in (-1)..n
  BY DEF Backfiller
<1>3. S \in SUBSET ((-1)..n)
  BY <1>2
<1> QED BY <1>1, <1>3, FS_Subset

\* Who signs a row that is left with one writer was its only writer before.
LEMMA OneWriter ==
  ASSUME NEW who, NEW S, S # {}, IsFiniteSet({who} \cup S), Cardinality({who} \cup S) = 1
  PROVE  S = {who} /\ {who} \cup S = {who}
<1>1. PICK x : {who} \cup S = {x}
  BY FS_Singleton
<1> QED BY <1>1

ClosedStay ==
  \A key \in DOMAIN candles :
    candles[key].closed /\ Cardinality(writers'[key]) = 1 => candles'[key] = candles[key]

LEMMA LiveClosedStay ==
  ASSUME IInv, IInv', NEW i \in DOMAIN current, NEW closed \in BOOLEAN,
         Ingest!WriteCandle(i, current[i], closed),
         handler.step = "flush" => i \in handler.todo
  PROVE  ClosedStay
<1> SUFFICES ASSUME NEW k \in DOMAIN candles, candles[k].closed, Cardinality(writers'[k]) = 1
             PROVE  candles'[k] = candles[k]
  BY DEF ClosedStay
<1>1. PICK key : key = <<i, current[i].minute>>
  OBVIOUS
<1>2. /\ DOMAIN candles' = DOMAIN candles \cup {key}
      /\ \A q \in DOMAIN candles \ {key} :
           candles'[q] = candles[q] /\ writers'[q] = writers[q]
      /\ writers'[key] = {life} \cup (IF key \in DOMAIN candles THEN writers[key] ELSE {})
  BY <1>1, LiveWrite
<1>3. CASE k = key
  <2>1. writers'[k] = {life} \cup writers[k] /\ writers[k] # {}
    BY <1>2, <1>3 DEF IInv, RowsInv, OwnRows
  <2>2. PICK n \in Nat, S \in {writers'[k]} : n = life' /\ S = writers'[k]
    BY DEF IInv, Shapes
  <2>3. S \subseteq {Backfiller} \cup 0..n
    BY <1>2, <1>3, <2>2 DEF IInv, RowsInv, OwnRows
  <2>4. IsFiniteSet(S) /\ Cardinality(S) = 1
    BY <2>2, <2>3, WritersFinite
  <2>5. PICK T, who : T = writers[k] /\ who = life
    OBVIOUS
  <2>6. S = {who} \cup T /\ T # {}
    BY <2>1, <2>2, <2>5
  <2>7. T = {who}
    BY <2>4, <2>6, OneWriter
  <2> QED BY <1>1, <1>3, <2>5, <2>7 DEF IInv, RowsInv, NotYetClosed
<1>4. CASE k # key
  BY <1>2, <1>4
<1> QED BY <1>3, <1>4

LEMMA FillClosedStay ==
  ASSUME IInv, IInv', MarketAssumption, NEW key, BarWritten(key)
  PROVE  ClosedStay
<1> SUFFICES ASSUME NEW k \in DOMAIN candles, candles[k].closed, Cardinality(writers'[k]) = 1
             PROVE  candles'[k] = candles[k]
  BY DEF ClosedStay
<1>1. /\ key \in Keys /\ key[2] \in Nat /\ key[1] = job.instrument
      /\ InJob(key[2])
      /\ DOMAIN candles' = DOMAIN candles \cup {key}
      /\ \A q \in DOMAIN candles \ {key} :
           candles'[q] = candles[q] /\ writers'[q] = writers[q]
      /\ writers'[key] = {Backfiller} \cup (IF key \in DOMAIN candles THEN writers[key] ELSE {})
      /\ candles'[key].closed
      /\ writers'[key] = {Backfiller} => candles'[key] = Row(HistoryBar, TRUE, TRUE)
      /\ TableShape'
  BY FillWrite DEF RowFilled
<1>2. CASE k = key
  <2>1. writers'[k] = {Backfiller} \cup writers[k] /\ writers[k] # {}
    BY <1>1, <1>2 DEF IInv, RowsInv, OwnRows
  <2>2. PICK n \in Nat, S \in {writers'[k]} : n = life' /\ S = writers'[k]
    BY DEF IInv, Shapes
  <2>3. S \subseteq {Backfiller} \cup 0..n
    BY <1>1, <1>2, <2>2 DEF IInv, RowsInv, OwnRows
  <2>4. IsFiniteSet(S) /\ Cardinality(S) = 1
    BY <2>2, <2>3, WritersFinite
  <2>5. PICK T : T = writers[k]
    OBVIOUS
  <2>6. S = {Backfiller} \cup T /\ T # {}
    BY <2>1, <2>2, <2>5
  <2>7. T = {Backfiller} /\ S = {Backfiller}
    BY <2>4, <2>6, OneWriter
  <2>8. writers[k] = {Backfiller} /\ writers'[k] = {Backfiller}
    BY <2>2, <2>5, <2>7
  <2>9. candles[k] = Row(HistoryBar, TRUE, TRUE)
    BY <2>8 DEF IInv, RowsInv, OwnRows
  <2>10. candles'[k] = Row(HistoryBar, TRUE, TRUE)
    BY <1>1, <1>2, <2>8
  <2> QED BY <2>9, <2>10
<1>3. CASE k # key
  BY <1>1, <1>3
<1> QED BY <1>2, <1>3

LEMMA NextClosedStay ==
  ASSUME MarketAssumption, IInv, IInv', [Next]_vars
  PROVE  ClosedStay
<1>0. CASE UNCHANGED candles
  BY <1>0 DEF ClosedStay
<1>1. CASE Ingest!Next /\ UNCHANGED jobVars
  <2>1. CASE Ingest!FinalizePrevious
    <3>1. handler.step = "finalize" /\ handler.instrument \in DOMAIN current
      BY <2>1 DEF Ingest!FinalizePrevious, IInv, TickInHand, TickSteps
    <3> QED BY <1>0, <2>1, <3>1, LiveClosedStay DEF Ingest!FinalizePrevious, Ingest!StoreRaises
  <2>2. CASE Ingest!PersistCurrent
    <3>1. handler.step = "persist" /\ handler.instrument \in DOMAIN current
      BY <2>2 DEF Ingest!PersistCurrent, IInv, TickInHand, TickSteps
    <3> QED BY <1>0, <2>2, <3>1, LiveClosedStay DEF Ingest!PersistCurrent, Ingest!StoreRaises
  <2>3. ASSUME NEW i \in Instruments, Ingest!FlushNext(i)
        PROVE  ClosedStay
    <3>1. handler.step = "flush" /\ i \in handler.todo /\ i \in DOMAIN current
      BY <2>3 DEF Ingest!FlushNext, IInv, TickInHand
    <3> QED BY <1>0, <2>3, <3>1, LiveClosedStay DEF Ingest!FlushNext
  <2>4. CASE \/ Ingest!OnOpen \/ Ingest!OnClose
             \/ \E i \in Instruments, p \in Prices, at \in Times : Ingest!OnData(i, p, at)
             \/ Ingest!InsertTick \/ Ingest!Shutdown \/ Ingest!FinishShutdown \/ Ingest!Crash
    BY <1>0, <2>4 DEF Ingest!OnOpen, Ingest!OnClose, Ingest!OnData, Ingest!OnValidTick,
       Ingest!OnInvalidTick, Ingest!InsertTick, Ingest!Shutdown, Ingest!FinishShutdown,
       Ingest!Crash, Ingest!RecordEvent, Ingest!StoreRaises, Ingest!tables
  <2> QED BY <1>1, <2>1, <2>2, <2>3, <2>4 DEF Ingest!Next
<1>2. CASE Fill!Next /\ UNCHANGED ingestVars
  <2>1. CASE Fill!WriteBar
    <3>1. PICK key : key = <<job.instrument, Fill!Min(job.bars)>>
      OBVIOUS
    <3>2. UNCHANGED candles \/ BarWritten(key)
      BY <2>1, <3>1
      DEF BarWritten, Fill!WriteBar, Fill!StoreRaises, Fill!Backfiller, Backfiller
    <3> QED BY <1>0, <3>2, FillClosedStay
  <2>2. CASE ~Fill!WriteBar
    BY <1>0, <1>2, <2>2 DEF Fill!Next, Fill!StartBackfill, Fill!FetchFails, Fill!FetchGap,
       Fill!FinishGap, Fill!FinishBackfill, Fill!StoreRaises
  <2> QED BY <2>1, <2>2
<1>3. CASE UNCHANGED vars
  BY <1>0, <1>3 DEF vars
<1> QED BY <1>1, <1>2, <1>3 DEF Next

-----------------------------------------------------------------------------
(* Readers may think of the table as CandleFeed.                           *)

FeedRows == [key \in DOMAIN candles |-> candles[key].closed]
FeedForming == [i \in DOMAIN current |-> current[i].minute]

\* A step that writes no row and keeps the bars in progress in their minutes is
\* none of the feed.
LEMMA FeedStutters ==
  ASSUME UNCHANGED candles, DOMAIN current' = DOMAIN current,
         \A k \in DOMAIN current : current'[k].minute = current[k].minute
  PROVE  UNCHANGED Feed!vars
<1>1. FeedRows' = FeedRows /\ FeedForming' = FeedForming
  BY DEF FeedRows, FeedForming
<1> QED BY <1>1 DEF Feed!vars, FeedRows, FeedForming

\* One row is written.
LEMMA FeedWrite ==
  ASSUME NEW key, NEW closed, DOMAIN candles' = DOMAIN candles \cup {key},
         candles'[key].closed = closed,
         \A k \in DOMAIN candles \ {key} : candles'[k] = candles[k]
  PROVE  FeedRows' = Feed!WithRow(key, closed)
<1>1. FeedRows' = [k \in DOMAIN candles \cup {key} |-> IF k = key THEN closed ELSE candles[k].closed]
  BY DEF FeedRows
<1>2. Feed!WithRow(key, closed) =
        [r \in DOMAIN FeedRows \cup {key} |-> IF r = key THEN closed ELSE FeedRows[r]]
  BY DEF Feed!WithRow, FeedRows
<1> QED BY <1>1, <1>2 DEF FeedRows

\* A process starts again.
LEMMA FeedStops ==
  ASSUME Ingest!StartAgain, UNCHANGED candles
  PROVE  Feed!Next
<1>1. current' = <<>>
  BY DEF Ingest!StartAgain
<1>2. FeedForming' = <<>> /\ FeedRows' = FeedRows
  BY <1>1 DEF FeedForming, FeedRows
<1>3. Feed!Stop
  BY <1>2 DEF Feed!Stop, FeedForming, FeedRows
<1> QED BY <1>3 DEF Feed!Next

LEMMA IngestMaps ==
  ASSUME MarketAssumption, IInv, Ingest!Next
  PROVE  [Feed!Next]_(Feed!vars)
<1>1. CASE Ingest!InsertTick
  <2>1. PICK i \in Instruments, at \in Times, price \in Nat :
          i = handler.instrument /\ at = handler.at /\ price = handler.price
    BY <1>1, TickHandler DEF Ingest!InsertTick, TickSteps
  <2>2. CASE UNCHANGED <<candles, current>>
    BY <2>2, FeedStutters
  <2>3. CASE current' = Ingest!Absorbed(i, price, at) /\ ~Ingest!InOtherMinute(i, at) /\ UNCHANGED candles
    <3>1. /\ DOMAIN current' = DOMAIN current \cup {i}
          /\ \A k \in DOMAIN current \ {i} : current'[k] = current[k]
          /\ current'[i].minute = Ingest!Minute(at)
      BY <2>3, AbsorbedBars
    <3>2. CASE i \in DOMAIN current
      <4>1. current[i].minute = Ingest!Minute(at)
        BY <2>3, <3>2 DEF Ingest!InOtherMinute
      <4> QED BY <2>3, <3>1, <3>2, <4>1, FeedStutters
    <3>3. CASE i \notin DOMAIN current
      <4>1. PICK m \in Minutes : m = Ingest!Minute(at)
        BY MinuteType
      <4>2. FeedForming' = [k \in DOMAIN current \cup {i} |-> IF k = i THEN m ELSE current[k].minute]
        BY <3>1, <3>3, <4>1 DEF FeedForming
      <4>3. FeedForming' = [k \in DOMAIN FeedForming \cup {i} |-> IF k = i THEN m ELSE FeedForming[k]]
        BY <4>2 DEF FeedForming
      <4>4. FeedRows' = FeedRows
        BY <2>3 DEF FeedRows
      <4>5. Feed!Begin(i)
        BY <3>3, <4>3, <4>4 DEF Feed!Begin, FeedForming, FeedRows
      <4> QED BY <4>5 DEF Feed!Next
    <3> QED BY <3>2, <3>3
  <2> QED BY <1>1, <2>1, <2>2, <2>3 DEF Ingest!InsertTick, Ingest!StoreRaises
<1>2. CASE Ingest!FinalizePrevious
  <2>0. handler.step = "finalize"
    BY <1>2 DEF Ingest!FinalizePrevious
  <2>1. PICK i \in Instruments, at \in Times, price \in Nat :
          i = handler.instrument /\ at = handler.at /\ price = handler.price
    BY <2>0, TickHandler DEF TickSteps
  <2>2. i \in DOMAIN current /\ current[i].minute < Ingest!Minute(at)
    BY <2>0, <2>1 DEF IInv, TickInHand, TickSteps
  <2>3. CASE UNCHANGED <<candles, current>>
    BY <2>3, FeedStutters
  <2>4. CASE Ingest!WriteCandle(i, current[i], TRUE) /\ current' = Ingest!Absorbed(i, price, at)
    <3>1. /\ DOMAIN current' = DOMAIN current \cup {i}
          /\ \A k \in DOMAIN current \ {i} : current'[k] = current[k]
          /\ current'[i].minute = Ingest!Minute(at)
      BY <2>4, AbsorbedBars
    <3>2. PICK key : key = <<i, current[i].minute>>
      OBVIOUS
    <3>3. FeedRows' = Feed!WithRow(key, TRUE)
      <4>1. /\ DOMAIN candles' = DOMAIN candles \cup {key}
            /\ candles'[key].closed = TRUE
            /\ \A k \in DOMAIN candles \ {key} : candles'[k] = candles[k]
        BY <2>2, <2>4, <3>2, LiveWrite
      <4> QED BY <4>1, FeedWrite
    <3>4. PICK m \in Minutes : m = Ingest!Minute(at)
      BY MinuteType
    <3>5. FeedForming' = [FeedForming EXCEPT ![i] = m]
      BY <2>2, <3>1, <3>4 DEF FeedForming
    <3>6. m > FeedForming[i] /\ FeedForming[i] = current[i].minute /\ i \in DOMAIN FeedForming
      <4>1. current[i].minute \in Nat /\ m \in Nat
        BY <2>2, <3>4, MinutesNatural DEF IInv, Shapes, TypeOK
      <4> QED BY <2>2, <3>4, <4>1 DEF FeedForming
    <3>7. Feed!Advance(i)
      BY <3>2, <3>3, <3>4, <3>5, <3>6 DEF Feed!Advance, FeedForming, FeedRows
    <3> QED BY <3>7 DEF Feed!Next
  <2> QED BY <1>2, <2>1, <2>3, <2>4 DEF Ingest!FinalizePrevious, Ingest!StoreRaises
<1>3. CASE Ingest!PersistCurrent
  <2>0. handler.step = "persist"
    BY <1>3 DEF Ingest!PersistCurrent
  <2>1. PICK i \in Instruments : i = handler.instrument
    BY <2>0, TickHandler DEF TickSteps
  <2>2. i \in DOMAIN current /\ UNCHANGED current
    BY <1>3, <2>0, <2>1 DEF IInv, TickInHand, TickSteps, Ingest!PersistCurrent
  <2>3. CASE UNCHANGED candles
    BY <2>2, <2>3, FeedStutters
  <2>4. CASE Ingest!WriteCandle(i, current[i], FALSE)
    <3>1. PICK key : key = <<i, current[i].minute>>
      OBVIOUS
    <3>2. FeedRows' = Feed!WithRow(key, FALSE)
      <4>1. /\ DOMAIN candles' = DOMAIN candles \cup {key}
            /\ candles'[key].closed = FALSE
            /\ \A k \in DOMAIN candles \ {key} : candles'[k] = candles[k]
        BY <2>2, <2>4, <3>1, LiveWrite
      <4> QED BY <4>1, FeedWrite
    <3>3. FeedForming' = FeedForming /\ FeedForming[i] = current[i].minute /\ i \in DOMAIN FeedForming
      BY <2>2 DEF FeedForming
    <3>4. Feed!Progress(i)
      BY <3>1, <3>2, <3>3 DEF Feed!Progress, FeedForming, FeedRows
    <3> QED BY <3>4 DEF Feed!Next
  <2> QED BY <1>3, <2>1, <2>3, <2>4 DEF Ingest!PersistCurrent, Ingest!StoreRaises
<1>4. ASSUME NEW i \in Instruments, Ingest!FlushNext(i)
      PROVE  [Feed!Next]_(Feed!vars)
  <2>1. i \in DOMAIN current
    BY <1>4 DEF IInv, TickInHand, Ingest!FlushNext
  <2>2. CASE Ingest!StartAgain /\ UNCHANGED candles
    BY <2>2, FeedStops
  <2>3. CASE Ingest!WriteCandle(i, current[i], TRUE) /\ UNCHANGED current
    <3>1. PICK key : key = <<i, current[i].minute>>
      OBVIOUS
    <3>2. FeedRows' = Feed!WithRow(key, TRUE)
      <4>1. /\ DOMAIN candles' = DOMAIN candles \cup {key}
            /\ candles'[key].closed = TRUE
            /\ \A k \in DOMAIN candles \ {key} : candles'[k] = candles[k]
        BY <2>1, <2>3, <3>1, LiveWrite
      <4> QED BY <4>1, FeedWrite
    <3>3. FeedForming' = FeedForming /\ FeedForming[i] = current[i].minute /\ i \in DOMAIN FeedForming
      BY <2>1, <2>3 DEF FeedForming
    <3>4. Feed!Flush(i)
      BY <3>1, <3>2, <3>3 DEF Feed!Flush, FeedForming, FeedRows
    <3> QED BY <3>4 DEF Feed!Next
  <2> QED BY <1>4, <2>2, <2>3 DEF Ingest!FlushNext
<1>5. CASE Ingest!FinishShutdown \/ Ingest!Crash
  BY <1>5, FeedStops DEF Ingest!FinishShutdown, Ingest!Crash, Ingest!tables
<1>6. CASE \/ Ingest!OnOpen \/ Ingest!OnClose \/ Ingest!Shutdown
           \/ \E i \in Instruments, p \in Prices, at \in Times : Ingest!OnData(i, p, at)
  <2>1. UNCHANGED <<candles, current>>
    BY <1>6 DEF Ingest!OnOpen, Ingest!OnClose, Ingest!OnData, Ingest!OnValidTick,
       Ingest!OnInvalidTick, Ingest!Shutdown, Ingest!RecordEvent, Ingest!StoreRaises, Ingest!tables
  <2> QED BY <2>1, FeedStutters
<1> QED BY <1>1, <1>2, <1>3, <1>4, <1>5, <1>6 DEF Ingest!Next

LEMMA FillMaps ==
  ASSUME MarketAssumption, IInv, Fill!Next, UNCHANGED ingestVars
  PROVE  [Feed!Next]_(Feed!vars)
<1>0. UNCHANGED current
  BY DEF ingestVars
<1>1. CASE UNCHANGED candles
  BY <1>0, <1>1, FeedStutters
<1>2. CASE Fill!WriteBar /\ ~UNCHANGED candles
  <2>1. PICK key : key = <<job.instrument, Fill!Min(job.bars)>>
    OBVIOUS
  <2>2. /\ job.step = "bars" /\ job.bars # {}
        /\ candles' = Fill!Upserted(candles, key, Fill!Row(HistoryBar, TRUE, TRUE))
        /\ writers' = Fill!Signed(writers, key, Backfiller)
    BY <1>2, <2>1 DEF Fill!WriteBar, Fill!StoreRaises, Fill!Backfiller, Backfiller
  <2>3. /\ key \in Keys /\ key[2] \in Nat /\ key[1] = job.instrument
        /\ InJob(key[2])
        /\ DOMAIN candles' = DOMAIN candles \cup {key}
        /\ \A k \in DOMAIN candles \ {key} :
             candles'[k] = candles[k] /\ writers'[k] = writers[k]
        /\ writers'[key] = {Backfiller} \cup (IF key \in DOMAIN candles THEN writers[key] ELSE {})
        /\ candles'[key].closed
        /\ writers'[key] = {Backfiller} => candles'[key] = Row(HistoryBar, TRUE, TRUE)
        /\ TableShape'
    <3>1. BarWritten(key)
      BY <2>1, <2>2 DEF BarWritten
    <3>2. RowFilled(key)
      BY <3>1, FillWrite
    <3> QED BY <3>2 DEF RowFilled
  <2>4. PICK i \in Instruments, m \in Minutes : key = <<i, m>> /\ i = job.instrument
    BY <2>3 DEF Keys
  <2>5. candles'[key].closed = TRUE
    BY <2>3 DEF TableShape, RowType
  <2>6. FeedRows' = Feed!WithRow(<<i, m>>, TRUE)
    <3>1. \A k \in DOMAIN candles \ {key} : candles'[k] = candles[k]
      BY <2>3
    <3>2. FeedRows' = Feed!WithRow(key, TRUE)
      BY <2>3, <2>5, <3>1, FeedWrite
    <3> QED BY <2>4, <3>2
  <2> DEFINE stored == {k[2] : k \in {q \in DOMAIN FeedRows : q[1] = i}}
  <2>7. \E before, after \in stored : before < m /\ m <= after
    <3>1. PICK before \in Stored(i), after \in Stored(i) : before < m /\ m <= after
      BY <2>3, <2>4 DEF IInv, JobBetween
    <3>2. \A n \in Stored(i) : n \in stored
      <4> SUFFICES ASSUME NEW n \in Stored(i) PROVE n \in stored
        OBVIOUS
      <4>1. PICK q : q = <<i, n>>
        OBVIOUS
      <4>2. q \in DOMAIN FeedRows /\ q[1] = i /\ q[2] = n
        BY <4>1 DEF Stored, FeedRows
      <4> QED BY <4>2
    <3> QED BY <3>1, <3>2
  <2>8. FeedForming' = FeedForming
    BY <1>0 DEF FeedForming
  <2>9. Feed!Fill(i)
    BY <2>6, <2>7, <2>8 DEF Feed!Fill, FeedForming, FeedRows
  <2> QED BY <2>9 DEF Feed!Next
<1>3. Fill!WriteBar \/ UNCHANGED candles
  BY DEF Fill!Next, Fill!StartBackfill, Fill!FetchFails, Fill!FetchGap, Fill!FinishGap,
     Fill!FinishBackfill, Fill!StoreRaises
<1> QED BY <1>1, <1>2, <1>3

-----------------------------------------------------------------------------
(* Candles are made of ticks: the invariant.                               *)

Ticked(price, places) == \E k \in places : ticks[k].price = price

\* Each price of a bar was ticked at one of the places.
Within(bar, places) ==
  /\ Ticked(bar.open, places)
  /\ Ticked(bar.high, places)
  /\ Ticked(bar.low, places)
  /\ Ticked(bar.close, places)

\* The bar is the first, the last and the range of the ticks at the places.
Exact(bar, places) ==
  /\ \E first \in places : ticks[first].price = bar.open /\ \A k \in places : first <= k
  /\ \E last \in places : ticks[last].price = bar.close /\ \A k \in places : k <= last
  /\ \A k \in places : bar.low <= ticks[k].price /\ ticks[k].price <= bar.high

\* The row of the bar whose last tick has not been written yet.
Lagging(key, who) ==
  /\ handler.step = "persist" /\ who = life
  /\ key = <<handler.instrument, current[handler.instrument].minute>>

RowFromTicks(key, who) ==
  /\ WellFormed(candles[key])
  /\ Within(candles[key], TicksFor(key, who))
  /\ failures = 0 /\ ~Lagging(key, who) => Exact(candles[key], TicksFor(key, who))

RowsFromTicks ==
  \A key \in DOMAIN candles : \A who \in 0..life :
    writers[key] = {who} => RowFromTicks(key, who)

BarsFromTicks ==
  \A i \in DOMAIN current :
    LET mine == TicksFor(<<i, current[i].minute>>, life)
    IN Within(current[i], mine) /\ (failures = 0 => Exact(current[i], mine))

\* The open that the store keeps is the bar's own.
OpensAgree ==
  \A i \in DOMAIN current :
    LET key == <<i, current[i].minute>>
    IN key \in DOMAIN candles /\ writers[key] = {life} => candles[key].open = current[i].open

\* The tick whose bar is about to replace an earlier one is stored last.
LastInHand ==
  handler.step = "finalize" =>
    /\ Len(ticks) > 0
    /\ ticks[Len(ticks)] = [instrument |-> handler.instrument, price |-> handler.price,
                            at |-> handler.at, life |-> life]

\* Until a handler is cut short, every tick of this process but the one in hand is in
\* the bar in progress or an earlier one.
TicksPassed ==
  \A k \in DOMAIN ticks :
    /\ ticks[k].life <= life
    /\ failures = 0 /\ ticks[k].life = life =>
         \/ /\ ticks[k].instrument \in DOMAIN current
            /\ Ingest!Minute(ticks[k].at) <= current[ticks[k].instrument].minute
         \/ handler.step = "finalize" /\ k = Len(ticks)

FromTicks == RowsFromTicks /\ BarsFromTicks /\ OpensAgree /\ LastInHand /\ TicksPassed

\* What is said of a bar's ticks is said of the ticks that stay.
LEMMA SameTicks ==
  ASSUME NEW bar, NEW S, \A k \in S : ticks'[k] = ticks[k]
  PROVE  /\ Within(bar, S) => Within(bar, S)'
         /\ Exact(bar, S) => Exact(bar, S)'
<1>1. Within(bar, S) => Within(bar, S)'
  BY DEF Within, Ticked
<1>2. Exact(bar, S) => Exact(bar, S)'
  BY DEF Exact
<1> QED BY <1>1, <1>2

\* A bar keeps what is known of it where neither it nor its ticks change.
LEMMA RowKept ==
  ASSUME NEW key, NEW who, RowFromTicks(key, who), candles'[key] = candles[key],
         TicksFor(key, who)' = TicksFor(key, who),
         \A k \in TicksFor(key, who) : ticks'[k] = ticks[k],
         failures' = 0 /\ ~Lagging(key, who)' => failures = 0 /\ ~Lagging(key, who)
  PROVE  RowFromTicks(key, who)'
<1>1. PICK bar : bar = candles[key]
  OBVIOUS
<1>2. PICK S : S = TicksFor(key, who)
  OBVIOUS
<1>3. Within(bar, S) => Within(bar, S)'
  BY <1>2, SameTicks
<1>4. Exact(bar, S) => Exact(bar, S)'
  BY <1>2, SameTicks
<1>5. WellFormed(candles[key])'
  BY DEF RowFromTicks, WellFormed
<1>6. Within(candles[key], TicksFor(key, who))'
  BY <1>1, <1>2, <1>3 DEF RowFromTicks, Within, Ticked
<1>7. (failures = 0 /\ ~Lagging(key, who))' => Exact(candles[key], TicksFor(key, who))'
  BY <1>1, <1>2, <1>4 DEF RowFromTicks, Exact
<1> QED BY <1>5, <1>6, <1>7 DEF RowFromTicks

LEMMA BarsKept ==
  ASSUME BarsFromTicks, UNCHANGED <<ticks, current, life>>, failures' = 0 => failures = 0
  PROVE  BarsFromTicks'
<1> SUFFICES ASSUME NEW i \in DOMAIN current
             PROVE  /\ Within(current[i], TicksFor(<<i, current[i].minute>>, life))'
                    /\ failures' = 0 =>
                         Exact(current[i], TicksFor(<<i, current[i].minute>>, life))'
  BY DEF BarsFromTicks
<1>1. PICK bar, S : bar = current[i] /\ S = TicksFor(<<i, current[i].minute>>, life)
  OBVIOUS
<1>2. Within(bar, S) /\ (failures = 0 => Exact(bar, S))
  BY <1>1 DEF BarsFromTicks
<1>3. Within(bar, S)' /\ (failures' = 0 => Exact(bar, S)')
  BY <1>2, SameTicks
<1>4. TicksFor(<<i, current[i].minute>>, life)' = S
  BY <1>1 DEF TicksFor
<1>5. Within(current[i], TicksFor(<<i, current[i].minute>>, life))'
  BY <1>1, <1>3, <1>4 DEF Within, Ticked
<1>6. failures' = 0 => Exact(current[i], TicksFor(<<i, current[i].minute>>, life))'
  BY <1>1, <1>3, <1>4 DEF Exact
<1> QED BY <1>5, <1>6

\* The steps that leave the ticks, the table and the bars in progress alone.
LEMMA TicksStay ==
  ASSUME FromTicks, UNCHANGED <<ticks, candles, writers, current, life>>,
         failures' = 0 => failures = 0,
         \/ UNCHANGED handler
         \/ /\ handler'.step \notin {"finalize", "persist"}
            /\ failures' = 0 => handler.step \notin {"finalize", "persist"}
  PROVE  FromTicks'
<1>0. \A key, who : TicksFor(key, who)' = TicksFor(key, who)
  BY DEF TicksFor
<1>1. RowsFromTicks'
  <2> SUFFICES ASSUME NEW key \in DOMAIN candles, NEW who \in 0..life, writers[key] = {who}
               PROVE  RowFromTicks(key, who)'
    BY DEF RowsFromTicks
  <2>1. RowFromTicks(key, who)
    BY DEF FromTicks, RowsFromTicks
  <2>2. failures' = 0 /\ ~Lagging(key, who)' => failures = 0 /\ ~Lagging(key, who)
    BY DEF Lagging
  <2> QED BY <1>0, <2>1, <2>2, RowKept
<1>2. BarsFromTicks'
  BY BarsKept DEF FromTicks
<1>3. OpensAgree' /\ LastInHand' /\ TicksPassed'
  BY DEF FromTicks, OpensAgree, LastInHand, TicksPassed
<1> QED BY <1>1, <1>2, <1>3 DEF FromTicks

\* A process that starts again has no bar and no tick of its own.
LEMMA TicksStayAgain ==
  ASSUME IInv, FromTicks, Ingest!StartAgain, UNCHANGED <<ticks, candles, writers>>,
         failures' = 0 => failures = 0 /\ handler.step \notin {"finalize", "persist"}
  PROVE  FromTicks'
<1>1. /\ life' = life + 1 /\ DOMAIN current' = {} /\ handler'.step = "idle" /\ life \in Nat
  BY DEF Ingest!StartAgain, Ingest!Idle, IInv, Shapes
<1>2. \A key, who : TicksFor(key, who)' = TicksFor(key, who)
  BY DEF TicksFor
<1>3. RowsFromTicks'
  <2> SUFFICES ASSUME NEW key \in DOMAIN candles, NEW who \in 0..life', writers[key] = {who}
               PROVE  RowFromTicks(key, who)'
    BY DEF RowsFromTicks
  <2>1. who \in 0..life
    <3>1. writers[key] \subseteq {Backfiller} \cup 0..life
      BY DEF IInv, RowsInv, OwnRows
    <3>2. who \in {Backfiller} \cup 0..life /\ who # Backfiller
      BY <3>1, <1>1 DEF Backfiller
    <3> QED BY <3>2
  <2>2. RowFromTicks(key, who)
    BY <2>1 DEF FromTicks, RowsFromTicks
  <2>3. failures' = 0 /\ ~Lagging(key, who)' => failures = 0 /\ ~Lagging(key, who)
    BY DEF Lagging
  <2> QED BY <1>2, <2>2, <2>3, RowKept
<1>4. BarsFromTicks' /\ OpensAgree' /\ LastInHand'
  BY <1>1 DEF BarsFromTicks, OpensAgree, LastInHand
<1>5. TicksPassed'
  <2>1. \A k \in DOMAIN ticks : ticks[k].life <= life /\ ticks[k].life \in Nat
    <3> SUFFICES ASSUME NEW k \in DOMAIN ticks
                 PROVE  ticks[k].life <= life /\ ticks[k].life \in Nat
      OBVIOUS
    <3>1. ticks[k] \in TickType
      BY ElementOfSeq DEF IInv, Shapes
    <3> QED BY <3>1 DEF FromTicks, TicksPassed, TickType
  <2> QED BY <1>1, <2>1 DEF TicksPassed
<1> QED BY <1>3, <1>4, <1>5 DEF FromTicks

\* The backfill signs what it writes.
LEMMA TicksStayFilled ==
  ASSUME IInv, FromTicks, UNCHANGED <<ticks, current, life, failures, handler>>,
         NEW key, DOMAIN candles' = DOMAIN candles \cup {key}, Backfiller \in writers'[key],
         \A k \in DOMAIN candles \ {key} : candles'[k] = candles[k] /\ writers'[k] = writers[k]
  PROVE  FromTicks'
<1>1. \A q, who : TicksFor(q, who)' = TicksFor(q, who)
  BY DEF TicksFor
<1>2. \A who \in 0..life : writers'[key] # {who}
  BY DEF Backfiller, IInv, Shapes
<1>3. RowsFromTicks'
  <2> SUFFICES ASSUME NEW q \in DOMAIN candles', NEW who \in 0..life, writers'[q] = {who}
               PROVE  RowFromTicks(q, who)'
    BY DEF RowsFromTicks
  <2>1. q \in DOMAIN candles /\ candles'[q] = candles[q] /\ writers'[q] = writers[q]
    BY <1>2
  <2>2. RowFromTicks(q, who)
    BY <2>1 DEF FromTicks, RowsFromTicks
  <2>3. failures' = 0 /\ ~Lagging(q, who)' => failures = 0 /\ ~Lagging(q, who)
    BY DEF Lagging
  <2> QED BY <1>1, <2>1, <2>2, <2>3, RowKept
<1>4. BarsFromTicks'
  BY BarsKept DEF FromTicks
<1>5. OpensAgree'
  <2>1. life \in 0..life
    BY DEF IInv, Shapes
  <2> QED BY <1>2, <2>1 DEF FromTicks, OpensAgree
<1>6. LastInHand' /\ TicksPassed'
  BY DEF FromTicks, LastInHand, TicksPassed
<1> QED BY <1>3, <1>4, <1>5, <1>6 DEF FromTicks

\* A row that only this process wrote is the bar it was written from.
LEMMA WrittenRow ==
  ASSUME IInv, FromTicks, NEW i \in DOMAIN current, NEW closed \in BOOLEAN,
         Ingest!WriteCandle(i, current[i], closed),
         NEW key, key = <<i, current[i].minute>>,
         NEW who \in 0..life, writers'[key] = {who}
  PROVE  /\ who = life
         /\ candles'[key].open = current[i].open
         /\ candles'[key].high = current[i].high
         /\ candles'[key].low = current[i].low
         /\ candles'[key].close = current[i].close
<1> DEFINE new == Ingest!Row(current[i], FALSE, closed)
           row == IF key \in DOMAIN candles THEN [new EXCEPT !.open = candles[key].open] ELSE new
<1>1. writers'[key] = {life} \cup (IF key \in DOMAIN candles THEN writers[key] ELSE {})
  <2>1. /\ key \in Keys
        /\ DOMAIN candles' = DOMAIN candles \cup {key}
        /\ \A k \in DOMAIN candles \ {key} :
             candles'[k] = candles[k] /\ writers'[k] = writers[k]
        /\ writers'[key] = {life} \cup (IF key \in DOMAIN candles THEN writers[key] ELSE {})
    BY LiveWrite
  <2> QED BY <2>1
<1>2. who = life
  BY <1>1
<1>3. key \in DOMAIN candles => writers[key] = {life}
  BY <1>1, <1>2 DEF IInv, RowsInv, OwnRows
<1>4. key \in DOMAIN candles => candles[key].open = current[i].open
  BY <1>3 DEF FromTicks, OpensAgree
<1>5. /\ row.open = current[i].open /\ row.high = current[i].high
      /\ row.low = current[i].low /\ row.close = current[i].close
  BY <1>4 DEF Ingest!Row
<1>6. candles'[key] = row
  BY DEF Ingest!WriteCandle, Ingest!Upserted, Ingest!Put
<1> QED BY <1>2, <1>5, <1>6

\* It is made of the bar's ticks.
LEMMA WrittenFromTicks ==
  ASSUME IInv, FromTicks, NEW i \in DOMAIN current, NEW closed \in BOOLEAN,
         Ingest!WriteCandle(i, current[i], closed), UNCHANGED life,
         NEW key, key = <<i, current[i].minute>>,
         NEW who \in 0..life, writers'[key] = {who}
  PROVE  RowFromTicks(key, who)'
<1>0. UNCHANGED <<ticks, failures>>
  BY DEF Ingest!WriteCandle
<1>1. who = life
  BY WrittenRow
<1>2. PICK bar : bar = current[i]
  OBVIOUS
<1>3. /\ candles'[key].open = bar.open /\ candles'[key].high = bar.high
      /\ candles'[key].low = bar.low /\ candles'[key].close = bar.close
  BY <1>2, WrittenRow
<1>4. PICK S : S = TicksFor(key, who)
  OBVIOUS
<1>5. TicksFor(key, who)' = S
  BY <1>0, <1>4 DEF TicksFor
<1>6. WellFormed(bar)
  BY <1>2 DEF IInv, Shapes, TypeOK
<1>7. Within(bar, S) /\ (failures = 0 => Exact(bar, S))
  BY <1>1, <1>2, <1>4 DEF FromTicks, BarsFromTicks
<1>8. Within(bar, S)' /\ (failures' = 0 => Exact(bar, S)')
  BY <1>0, <1>7, SameTicks
<1>9. WellFormed(candles[key])'
  BY <1>3, <1>6 DEF WellFormed
<1>10. Within(candles[key], TicksFor(key, who))'
  BY <1>3, <1>5, <1>8 DEF Within, Ticked
<1>11. failures' = 0 => Exact(candles[key], TicksFor(key, who))'
  BY <1>3, <1>5, <1>8 DEF Exact
<1> QED BY <1>9, <1>10, <1>11 DEF RowFromTicks

\* PersistCurrent and FlushNext.
LEMMA TicksStayWritten ==
  ASSUME IInv, FromTicks, NEW i \in DOMAIN current, NEW closed \in BOOLEAN,
         Ingest!WriteCandle(i, current[i], closed), UNCHANGED <<current, life>>,
         \/ handler.step = "persist" /\ handler.instrument = i
         \/ handler.step = "flush",
         handler'.step \notin {"finalize", "persist"}
  PROVE  FromTicks'
<1>1. PICK key : key = <<i, current[i].minute>>
  OBVIOUS
<1>2. /\ DOMAIN candles' = DOMAIN candles \cup {key}
      /\ \A k \in DOMAIN candles \ {key} :
           candles'[k] = candles[k] /\ writers'[k] = writers[k]
      /\ UNCHANGED <<ticks, failures>>
  BY <1>1, LiveWrite
<1>3. \A q, who : TicksFor(q, who)' = TicksFor(q, who)
  BY <1>2 DEF TicksFor
<1>4. RowsFromTicks'
  <2> SUFFICES ASSUME NEW q \in DOMAIN candles', NEW who \in 0..life, writers'[q] = {who}
               PROVE  RowFromTicks(q, who)'
    BY DEF RowsFromTicks
  <2>1. CASE q = key
    BY <1>1, <2>1, WrittenFromTicks
  <2>2. CASE q # key
    <3>1. q \in DOMAIN candles /\ candles'[q] = candles[q] /\ writers'[q] = writers[q]
      BY <1>2, <2>2
    <3>2. RowFromTicks(q, who)
      BY <3>1 DEF FromTicks, RowsFromTicks
    <3>3. ~Lagging(q, who)
      BY <1>1, <2>2 DEF Lagging
    <3> QED BY <1>2, <1>3, <3>1, <3>2, <3>3, RowKept
  <2> QED BY <2>1, <2>2
<1>5. BarsFromTicks'
  BY <1>2, BarsKept DEF FromTicks
<1>6. OpensAgree'
  <2> SUFFICES ASSUME NEW k \in DOMAIN current, NEW q, q = <<k, current[k].minute>>,
                      q \in DOMAIN candles', writers'[q] = {life}
               PROVE  candles'[q].open = current[k].open
    BY DEF OpensAgree
  <2>1. CASE q = key
    <3>1. k = i /\ life \in 0..life
      BY <1>1, <2>1 DEF IInv, Shapes
    <3> QED BY <1>1, <2>1, <3>1, WrittenRow
  <2>2. CASE q # key
    BY <1>2, <2>2 DEF FromTicks, OpensAgree
  <2> QED BY <2>1, <2>2
<1>7. LastInHand'
  BY DEF LastInHand
<1>8. TicksPassed'
  BY <1>2 DEF FromTicks, TicksPassed
<1> QED BY <1>4, <1>5, <1>6, <1>7, <1>8 DEF FromTicks

\* The first tick of a bar is all there is of it.
LEMMA FirstTick ==
  ASSUME NEW price \in Nat, NEW m, NEW S, NEW k \in S, ticks[k].price = price, k \in Nat
  PROVE  /\ Within(Ingest!FreshBar(m, price), S)
         /\ S = {k} => Exact(Ingest!FreshBar(m, price), S)
<1>1. PICK bar : bar = Ingest!FreshBar(m, price)
  OBVIOUS
<1>2. bar.open = price /\ bar.high = price /\ bar.low = price /\ bar.close = price
  BY <1>1 DEF Ingest!FreshBar
<1>3. Within(bar, S)
  BY <1>2 DEF Within, Ticked
<1>4. S = {k} => Exact(bar, S)
  BY <1>2 DEF Exact
<1> QED BY <1>1, <1>3, <1>4

\* FinalizePrevious: the earlier bar is written, and the tick in hand begins a new one.
LEMMA TicksStayFinalized ==
  ASSUME IInv, FromTicks, MarketAssumption, handler.step = "finalize",
         NEW i \in Instruments, NEW at \in Times, NEW price \in Nat,
         i = handler.instrument, at = handler.at, price = handler.price,
         Ingest!WriteCandle(i, current[i], TRUE), UNCHANGED life,
         current' = Ingest!Absorbed(i, price, at),
         handler' = [handler EXCEPT !.step = "persist"]
  PROVE  FromTicks'
<1>1. i \in DOMAIN current /\ current[i].minute < Ingest!Minute(at)
  BY DEF IInv, TickInHand, TickSteps
<1>2. PICK m \in Nat : m = Ingest!Minute(at)
  BY MinuteType
<1>3. PICK key : key = <<i, current[i].minute>>
  OBVIOUS
<1>4. /\ DOMAIN candles' = DOMAIN candles \cup {key}
      /\ \A k \in DOMAIN candles \ {key} :
           candles'[k] = candles[k] /\ writers'[k] = writers[k]
      /\ writers'[key] = {life} \cup (IF key \in DOMAIN candles THEN writers[key] ELSE {})
      /\ UNCHANGED <<ticks, failures>>
  <2>1. PICK closed \in BOOLEAN : closed = TRUE
    OBVIOUS
  <2>2. Ingest!WriteCandle(i, current[i], closed)
    BY <2>1, Zenon
  <2> QED BY <1>1, <1>3, <2>2, LiveWrite
<1>5. \A q, who : TicksFor(q, who)' = TicksFor(q, who)
  BY <1>4 DEF TicksFor
<1>6. /\ DOMAIN current' = DOMAIN current
      /\ \A k \in DOMAIN current \ {i} : current'[k] = current[k]
      /\ current'[i] = Ingest!FreshBar(m, price)
  <2>1. current' = Ingest!Put(current, i, Ingest!FreshBar(m, price))
    <3>1. PICK n \in Nat : n = current[i].minute
      BY <1>1, MinutesNatural DEF IInv, Shapes, TypeOK
    <3>2. Ingest!InOtherMinute(i, at)
      BY <1>1, <1>2, <3>1 DEF Ingest!InOtherMinute
    <3> QED BY <1>2, <3>2 DEF Ingest!Absorbed
  <2> QED BY <1>1, <2>1 DEF Ingest!Put
<1>7. PICK last : last = Len(ticks) /\ last \in Nat /\ last > 0 /\ last \in DOMAIN ticks
  <2>1. Len(ticks) \in Nat /\ Len(ticks) > 0 /\ DOMAIN ticks = 1..Len(ticks)
    BY LenProperties DEF FromTicks, LastInHand, IInv, Shapes
  <2> QED BY <2>1
<1>8. /\ ticks[last].instrument = i /\ ticks[last].price = price /\ ticks[last].at = at
      /\ ticks[last].life = life
  BY <1>7 DEF FromTicks, LastInHand
<1>9. \A k \in DOMAIN current : current[k].minute \in Nat
  BY MinutesNatural DEF IInv, Shapes, TypeOK
<1>10. PICK q : q = <<i, m>>
  OBVIOUS
<1>11. life \in 0..life
  BY DEF IInv, Shapes
\* No row of the new bar is this process's.
<1>12. q # key /\ (q \in DOMAIN candles' => writers'[q] # {life})
  <2>1. q # key
    BY <1>1, <1>2, <1>3, <1>9, <1>10
  <2>2. q \in DOMAIN candles => life \notin writers[q]
    <3> SUFFICES ASSUME q \in DOMAIN candles, life \in writers[q] PROVE FALSE
      OBVIOUS
    <3>1. q[2] <= current[q[1]].minute
      BY DEF IInv, RowsInv, OwnRows
    <3>2. q[1] = i /\ q[2] = m
      BY <1>10
    <3> QED BY <1>1, <1>2, <1>9, <3>1, <3>2
  <2> QED BY <1>4, <2>1, <2>2
<1>13. RowsFromTicks'
  <2> SUFFICES ASSUME NEW r \in DOMAIN candles', NEW who \in 0..life, writers'[r] = {who}
               PROVE  RowFromTicks(r, who)'
    BY DEF RowsFromTicks
  <2>1. CASE r = key
    BY <1>1, <1>3, <2>1, WrittenFromTicks
  <2>2. CASE r # key
    <3>1. r \in DOMAIN candles /\ candles'[r] = candles[r] /\ writers'[r] = writers[r]
      BY <1>4, <2>2
    <3>2. RowFromTicks(r, who)
      BY <3>1 DEF FromTicks, RowsFromTicks
    <3>3. ~Lagging(r, who)
      BY DEF Lagging
    <3> QED BY <1>4, <1>5, <3>1, <3>2, <3>3, RowKept
  <2> QED BY <2>1, <2>2
<1>14. BarsFromTicks'
  <2> SUFFICES ASSUME NEW k \in DOMAIN current'
               PROVE  /\ Within(current[k], TicksFor(<<k, current[k].minute>>, life))'
                      /\ failures' = 0 =>
                           Exact(current[k], TicksFor(<<k, current[k].minute>>, life))'
    BY DEF BarsFromTicks
  <2>1. PICK bar, S : bar = current'[k] /\ S = TicksFor(<<k, bar.minute>>, life)
    OBVIOUS
  <2>2. TicksFor(<<k, current[k].minute>>, life)' = S
    BY <1>4, <2>1 DEF TicksFor
  <2>3. Within(bar, S) /\ (failures = 0 => Exact(bar, S))
    <3>1. CASE k = i
      <4>1. bar = Ingest!FreshBar(m, price) /\ bar.minute = m
        BY <1>6, <2>1, <3>1 DEF Ingest!FreshBar
      <4>2. last \in S
        BY <1>2, <1>7, <1>8, <2>1, <3>1, <4>1 DEF TicksFor
      <4>3. ASSUME failures = 0, NEW n \in S, n # last PROVE FALSE
        <5>1. n \in DOMAIN ticks /\ ticks[n].life = life /\ ticks[n].instrument = i
              /\ Ingest!Minute(ticks[n].at) = m
          BY <2>1, <3>1, <4>1, <4>3 DEF TicksFor
        <5>2. m <= current[i].minute
          BY <1>7, <4>3, <5>1 DEF FromTicks, TicksPassed
        <5> QED BY <1>1, <1>2, <1>9, <5>2
      <4>4. failures = 0 => S = {last}
        BY <4>2, <4>3
      <4> QED BY <1>7, <1>8, <4>1, <4>2, <4>4, FirstTick
    <3>2. CASE k # i
      <4>1. k \in DOMAIN current /\ bar = current[k]
        BY <1>6, <2>1, <3>2
      <4> QED BY <2>1, <4>1 DEF FromTicks, BarsFromTicks
    <3> QED BY <3>1, <3>2
  <2>4. Within(bar, S)' /\ (failures' = 0 => Exact(bar, S)')
    BY <1>4, <2>3, SameTicks
  <2>5. Within(current[k], TicksFor(<<k, current[k].minute>>, life))'
    BY <2>1, <2>2, <2>4 DEF Within, Ticked
  <2>6. failures' = 0 => Exact(current[k], TicksFor(<<k, current[k].minute>>, life))'
    BY <2>1, <2>2, <2>4 DEF Exact
  <2> QED BY <2>5, <2>6
<1>15. OpensAgree'
  <2> SUFFICES ASSUME NEW k \in DOMAIN current', NEW r, r = <<k, current'[k].minute>>,
                      r \in DOMAIN candles', writers'[r] = {life}
               PROVE  candles'[r].open = current'[k].open
    BY DEF OpensAgree
  <2>1. current'[i].minute = m
    BY <1>6 DEF Ingest!FreshBar
  <2>2. k # i
    BY <1>10, <1>12, <2>1
  <2>3. k \in DOMAIN current /\ current'[k] = current[k] /\ r # key
    BY <1>3, <1>6, <2>2
  <2>4. r \in DOMAIN candles /\ candles'[r] = candles[r] /\ writers[r] = {life}
    BY <1>4, <2>3
  <2> QED BY <2>3, <2>4 DEF FromTicks, OpensAgree
<1>16. LastInHand'
  <2>1. handler'.step = "persist"
    BY TickHandler DEF TickSteps, Ingest!Handling
  <2> QED BY <2>1 DEF LastInHand
<1>17. TicksPassed'
  <2> SUFFICES ASSUME NEW k \in DOMAIN ticks
               PROVE  /\ ticks[k].life <= life
                      /\ failures = 0 /\ ticks[k].life = life =>
                           /\ ticks[k].instrument \in DOMAIN current'
                           /\ Ingest!Minute(ticks[k].at) <= current'[ticks[k].instrument].minute
    BY <1>4 DEF TicksPassed
  <2>1. ticks[k].life <= life
    BY DEF FromTicks, TicksPassed
  <2>2. current'[i].minute = m
    BY <1>6 DEF Ingest!FreshBar
  <2> SUFFICES ASSUME failures = 0, ticks[k].life = life
               PROVE  /\ ticks[k].instrument \in DOMAIN current'
                      /\ Ingest!Minute(ticks[k].at) <= current'[ticks[k].instrument].minute
    BY <2>1
  <2>3. CASE k = last
    BY <1>1, <1>2, <1>6, <1>8, <2>2, <2>3
  <2>4. CASE k # last
    <3>1. /\ ticks[k].instrument \in DOMAIN current
          /\ Ingest!Minute(ticks[k].at) <= current[ticks[k].instrument].minute
      BY <1>7, <2>4 DEF FromTicks, TicksPassed
    <3>2. CASE ticks[k].instrument = i
      <4>1. ticks[k].at \in Times
        <5>1. ticks[k] \in TickType
          BY ElementOfSeq DEF IInv, Shapes
        <5> QED BY <5>1 DEF TickType
      <4>2. Ingest!Minute(ticks[k].at) \in Nat
        BY <4>1, MinuteType
      <4> QED BY <1>1, <1>2, <1>6, <1>9, <2>2, <3>1, <3>2, <4>2
    <3>3. CASE ticks[k].instrument # i
      BY <1>6, <3>1, <3>3
    <3> QED BY <3>2, <3>3
  <2> QED BY <2>3, <2>4
<1> QED BY <1>13, <1>14, <1>15, <1>16, <1>17 DEF FromTicks

\* The tick in hand is stored behind the others.
LEMMA TickStored ==
  ASSUME IInv, NEW tick, ticks' = Append(ticks, tick), NEW n, n = Len(ticks) + 1
  PROVE  /\ n \in Nat /\ DOMAIN ticks' = DOMAIN ticks \cup {n} /\ Len(ticks') = n
         /\ ticks'[n] = tick /\ n \notin DOMAIN ticks
         /\ \A k \in DOMAIN ticks : ticks'[k] = ticks[k] /\ k <= n /\ k \in Nat
<1>1. ticks \in Seq(TickType)
  BY DEF IInv, Shapes
<1>2. Len(ticks) \in Nat /\ DOMAIN ticks = 1..Len(ticks)
  BY <1>1, LenProperties
<1>3. DOMAIN ticks' = 1..n /\ Len(ticks') = n
  BY <1>1, <1>2
<1> QED BY <1>1, <1>2, <1>3

LEMMA OtherTicksForStored ==
  ASSUME IInv, NEW tick, ticks' = Append(ticks, tick), NEW n, n = Len(ticks) + 1,
         NEW key, NEW who,
         ~(key[1] = tick.instrument /\ key[2] = Ingest!Minute(tick.at) /\ who = tick.life)
  PROVE  TicksFor(key, who)' = TicksFor(key, who)
<1>1. /\ n \in Nat /\ DOMAIN ticks' = DOMAIN ticks \cup {n}
      /\ ticks'[n] = tick /\ n \notin DOMAIN ticks
      /\ \A k \in DOMAIN ticks : ticks'[k] = ticks[k]
  BY TickStored
<1> QED BY <1>1 DEF TicksFor

\* One more tick, later than the others, in a bar.
LEMMA OneMoreTick ==
  ASSUME NEW bar \in BarType, NEW price \in Nat, NEW S \in SUBSET Nat, NEW n \in Nat,
         Within(bar, S)', \A k \in S : k <= n,
         ticks'[n].price = price, \A k \in S : ticks'[k].price \in Nat
  PROVE  /\ Within(Ingest!Updated(bar, price), S \cup {n})'
         /\ Exact(bar, S)' => Exact(Ingest!Updated(bar, price), S \cup {n})'
<1>1. bar.high \in Nat /\ bar.low \in Nat /\ bar.open \in Nat
  BY DEF BarType
<1>2. PICK top : /\ top = Ingest!Max({bar.high, price}) /\ top \in Nat
                 /\ top >= bar.high /\ top >= price /\ top \in {bar.high, price}
  BY <1>1, TwoPrices
<1>3. PICK bottom : /\ bottom = Ingest!Min({bar.low, price}) /\ bottom \in Nat
                    /\ bottom <= bar.low /\ bottom <= price /\ bottom \in {bar.low, price}
  BY <1>1, TwoPrices
<1>4. PICK new : new = Ingest!Updated(bar, price)
  OBVIOUS
<1>5. new.open = bar.open /\ new.high = top /\ new.low = bottom /\ new.close = price
  BY <1>2, <1>3, <1>4 DEF Ingest!Updated, BarType
<1>6. Within(new, S \cup {n})'
  BY <1>2, <1>3, <1>5 DEF Within, Ticked
<1>7. ASSUME Exact(bar, S)'
      PROVE  Exact(new, S \cup {n})'
  <2>1. PICK first \in S : ticks'[first].price = bar.open /\ \A k \in S : first <= k
    BY <1>7 DEF Exact
  <2>2. \A k \in S \cup {n} : first <= k
    BY <2>1
  <2>3. \A k \in S \cup {n} : k <= n
    OBVIOUS
  <2>4. \A k \in S : bar.low <= ticks'[k].price /\ ticks'[k].price <= bar.high
    BY <1>7 DEF Exact
  <2>5. \A k \in S \cup {n} : new.low <= ticks'[k].price /\ ticks'[k].price <= new.high
    <3> SUFFICES ASSUME NEW k \in S \cup {n}
                 PROVE  bottom <= ticks'[k].price /\ ticks'[k].price <= top
      BY <1>5
    <3>1. CASE k \in S
      BY <1>1, <1>2, <1>3, <2>4, <3>1
    <3>2. CASE k = n
      BY <1>2, <1>3, <3>2
    <3> QED BY <3>1, <3>2
  <2> QED BY <1>5, <2>1, <2>2, <2>3, <2>5 DEF Exact
<1> QED BY <1>4, <1>6, <1>7

\* The tick of a new minute is stored, and the bar before it is yet to be written.
LEMMA TicksStayInserted ==
  ASSUME IInv, FromTicks, MarketAssumption, handler.step = "insert",
         NEW i \in Instruments, NEW at \in Times, NEW price \in Nat,
         i = handler.instrument, at = handler.at, price = handler.price,
         ticks' = Append(ticks, [instrument |-> i, price |-> price, at |-> at, life |-> life]),
         Ingest!InOtherMinute(i, at), handler' = [handler EXCEPT !.step = "finalize"],
         UNCHANGED <<current, candles, writers, failures, life>>
  PROVE  FromTicks'
<1>1. PICK tick : tick = [instrument |-> i, price |-> price, at |-> at, life |-> life]
  OBVIOUS
<1>2. PICK n : n = Len(ticks) + 1
  OBVIOUS
<1>3. /\ n \in Nat /\ DOMAIN ticks' = DOMAIN ticks \cup {n} /\ Len(ticks') = n
      /\ ticks'[n] = tick /\ n \notin DOMAIN ticks
      /\ \A k \in DOMAIN ticks : ticks'[k] = ticks[k] /\ k <= n /\ k \in Nat
  BY <1>1, <1>2, TickStored
<1>4. tick.instrument = i /\ tick.at = at /\ tick.life = life /\ tick.price = price
  BY <1>1
<1>5. PICK m \in Nat : m = Ingest!Minute(at)
  BY MinuteType
<1>6. \A k \in DOMAIN current : current[k].minute \in Nat
  BY MinutesNatural DEF IInv, Shapes, TypeOK
<1>7. i \in DOMAIN current /\ current[i].minute < m
  <2>1. i \in DOMAIN current /\ current[i].minute # m
    BY <1>5 DEF Ingest!InOtherMinute
  <2>2. current[i].minute <= m
    BY <1>5, <2>1 DEF IInv, TickInHand, TickSteps
  <2> QED BY <1>6, <2>1, <2>2
<1>8. ASSUME NEW q, NEW who, ~(q[1] = i /\ q[2] = m /\ who = life)
      PROVE  TicksFor(q, who)' = TicksFor(q, who)
  BY <1>1, <1>2, <1>4, <1>5, <1>8, OtherTicksForStored
<1>9. \A q, who : \A k \in TicksFor(q, who) : ticks'[k] = ticks[k]
  BY <1>3 DEF TicksFor
<1>10. handler.step = "insert" /\ handler'.step = "finalize" /\ handler'.instrument = i
       /\ handler'.at = at /\ handler'.price = price
  BY TickHandler DEF TickSteps, Ingest!Handling
<1>11. RowsFromTicks'
  <2> SUFFICES ASSUME NEW q \in DOMAIN candles, NEW who \in 0..life, writers[q] = {who}
               PROVE  RowFromTicks(q, who)'
    BY DEF RowsFromTicks
  <2>1. ~(q[1] = i /\ q[2] = m /\ who = life)
    <3> SUFFICES ASSUME q[1] = i, q[2] = m, who = life PROVE FALSE
      OBVIOUS
    <3>1. q[2] <= current[q[1]].minute
      BY DEF IInv, RowsInv, OwnRows
    <3> QED BY <1>6, <1>7, <3>1
  <2>2. TicksFor(q, who)' = TicksFor(q, who)
    BY <1>8, <2>1
  <2>3. RowFromTicks(q, who)
    BY DEF FromTicks, RowsFromTicks
  <2>4. ~Lagging(q, who)
    BY DEF Lagging
  <2> QED BY <1>9, <2>2, <2>3, <2>4, RowKept
<1>12. BarsFromTicks'
  <2> SUFFICES ASSUME NEW k \in DOMAIN current
               PROVE  /\ Within(current[k], TicksFor(<<k, current[k].minute>>, life))'
                      /\ failures' = 0 =>
                           Exact(current[k], TicksFor(<<k, current[k].minute>>, life))'
    BY DEF BarsFromTicks
  <2>1. PICK bar, S, q : bar = current[k] /\ q = <<k, bar.minute>> /\ S = TicksFor(q, life)
    OBVIOUS
  <2>2. PICK who : who = life
    OBVIOUS
  <2>3. ~(q[1] = i /\ q[2] = m)
    BY <1>6, <1>7, <2>1
  <2>4. TicksFor(q, who)' = TicksFor(q, who)
    BY <1>8, <2>3
  <2>5. Within(bar, S) /\ (failures = 0 => Exact(bar, S))
    BY <2>1 DEF FromTicks, BarsFromTicks
  <2>6. \A x \in S : ticks'[x] = ticks[x]
    BY <1>9, <2>1
  <2>7. Within(bar, S)' /\ (failures' = 0 => Exact(bar, S)')
    BY <2>5, <2>6, SameTicks
  <2>8. TicksFor(<<k, current[k].minute>>, life)' = S
    BY <2>1, <2>2, <2>4
  <2>9. Within(current[k], TicksFor(<<k, current[k].minute>>, life))'
    BY <2>1, <2>7, <2>8 DEF Within, Ticked
  <2>10. failures' = 0 => Exact(current[k], TicksFor(<<k, current[k].minute>>, life))'
    BY <2>1, <2>7, <2>8 DEF Exact
  <2> QED BY <2>9, <2>10
<1>13. OpensAgree'
  BY DEF FromTicks, OpensAgree
<1>14. LastInHand'
  BY <1>1, <1>3, <1>10 DEF LastInHand
<1>15. TicksPassed'
  <2> SUFFICES ASSUME NEW k \in DOMAIN ticks'
               PROVE  /\ ticks'[k].life <= life
                      /\ failures = 0 /\ ticks'[k].life = life =>
                           \/ /\ ticks'[k].instrument \in DOMAIN current
                              /\ Ingest!Minute(ticks'[k].at) <= current[ticks'[k].instrument].minute
                           \/ k = n
    BY <1>3, <1>10 DEF TicksPassed
  <2>1. CASE k = n
    BY <1>3, <1>4, <2>1 DEF IInv, Shapes
  <2>2. CASE k # n
    <3>1. k \in DOMAIN ticks /\ ticks'[k] = ticks[k]
      BY <1>3, <2>2
    <3> QED BY <1>10, <3>1 DEF FromTicks, TicksPassed
  <2> QED BY <2>1, <2>2
<1> QED BY <1>11, <1>12, <1>13, <1>14, <1>15 DEF FromTicks

\* The tick is stored and is in the bar in progress, whose row lags behind it.
LEMMA TicksStayAbsorbed ==
  ASSUME IInv, IInv', FromTicks, MarketAssumption, handler.step = "insert",
         NEW i \in Instruments, NEW at \in Times, NEW price \in Nat,
         i = handler.instrument, at = handler.at, price = handler.price,
         ticks' = Append(ticks, [instrument |-> i, price |-> price, at |-> at, life |-> life]),
         ~Ingest!InOtherMinute(i, at), handler' = [handler EXCEPT !.step = "persist"],
         current' = Ingest!Absorbed(i, price, at),
         UNCHANGED <<candles, writers, failures, life>>
  PROVE  FromTicks'
<1>1. PICK tick : tick = [instrument |-> i, price |-> price, at |-> at, life |-> life]
  OBVIOUS
<1>2. PICK n : n = Len(ticks) + 1
  OBVIOUS
<1>3. /\ n \in Nat /\ DOMAIN ticks' = DOMAIN ticks \cup {n} /\ Len(ticks') = n
      /\ ticks'[n] = tick /\ n \notin DOMAIN ticks
      /\ \A k \in DOMAIN ticks : ticks'[k] = ticks[k] /\ k <= n /\ k \in Nat
  BY <1>1, <1>2, TickStored
<1>4. tick.instrument = i /\ tick.at = at /\ tick.life = life /\ tick.price = price
  BY <1>1
<1>5. PICK m \in Nat : m = Ingest!Minute(at)
  BY MinuteType
<1>6. /\ DOMAIN current' = DOMAIN current \cup {i}
      /\ \A k \in DOMAIN current \ {i} : current'[k] = current[k]
      /\ current'[i].minute = m
  BY <1>5, AbsorbedBars
<1>7. i \in DOMAIN current => current[i].minute = m /\ current'[i] = Ingest!Updated(current[i], price)
  BY <1>5 DEF Ingest!InOtherMinute, Ingest!Absorbed
<1>8. i \notin DOMAIN current => current'[i] = Ingest!FreshBar(m, price)
  BY <1>5 DEF Ingest!Absorbed, Ingest!Put
<1>9. PICK own : own = <<i, m>>
  OBVIOUS
<1>10. PICK me \in Nat : me = life
  BY DEF IInv, Shapes
<1>11. ASSUME NEW q, NEW who, ~(q[1] = i /\ q[2] = m /\ who = me)
       PROVE  TicksFor(q, who)' = TicksFor(q, who)
  BY <1>1, <1>2, <1>4, <1>5, <1>10, <1>11, OtherTicksForStored
<1>12. TicksFor(own, me)' = TicksFor(own, me) \cup {n}
  <2>1. own[1] = tick.instrument /\ own[2] = Ingest!Minute(tick.at) /\ me = tick.life
    BY <1>4, <1>5, <1>9, <1>10
  <2>3. PICK q, who : q = own /\ who = me
    OBVIOUS
  <2>4. q[1] = tick.instrument /\ q[2] = Ingest!Minute(tick.at) /\ who = tick.life
    BY <2>1, <2>3
  <2>5. TicksFor(q, who)' = TicksFor(q, who) \cup {n}
    BY <1>3, <2>4 DEF TicksFor
  <2> QED BY <2>3, <2>5
<1>13. \A q, who : \A k \in TicksFor(q, who) : ticks'[k] = ticks[k] /\ k \in DOMAIN ticks
  BY <1>3 DEF TicksFor
<1>14. handler'.step = "persist" /\ handler'.instrument = i
  BY TickHandler DEF TickSteps, Ingest!Handling
<1>15. RowsFromTicks'
  <2> SUFFICES ASSUME NEW q \in DOMAIN candles, NEW who \in 0..life, writers[q] = {who}
               PROVE  RowFromTicks(q, who)'
    BY DEF RowsFromTicks
  <2>1. RowFromTicks(q, who) /\ ~Lagging(q, who)
    BY DEF FromTicks, RowsFromTicks, Lagging
  <2>2. CASE ~(q[1] = i /\ q[2] = m /\ who = me)
    BY <1>11, <1>13, <2>1, <2>2, RowKept
  <2>3. CASE q[1] = i /\ q[2] = m /\ who = me
    <3>1. q = own
      BY <1>9, <2>3 DEF IInv, Shapes, TypeOK, Keys
    <3>2. Lagging(q, who)'
      BY <1>6, <1>9, <1>10, <1>14, <2>3, <3>1 DEF Lagging
    <3>3. PICK bar, S : bar = candles[q] /\ S = TicksFor(q, who)
      OBVIOUS
    <3>4. Within(bar, S) /\ WellFormed(bar)
      BY <2>1, <3>3 DEF RowFromTicks
    <3>5. Within(bar, S)'
      <4>1. \A k \in S : ticks'[k] = ticks[k]
        BY <1>13, <3>3
      <4> QED BY <3>4, <4>1, SameTicks
    <3>6. S \subseteq TicksFor(q, who)'
      BY <1>12, <2>3, <3>1, <3>3
    <3>7. Within(candles[q], TicksFor(q, who))'
      BY <3>3, <3>5, <3>6 DEF Within, Ticked
    <3>8. WellFormed(candles[q])'
      BY <3>3, <3>4 DEF WellFormed
    <3> QED BY <3>2, <3>7, <3>8 DEF RowFromTicks
  <2> QED BY <2>2, <2>3
<1>16. BarsFromTicks'
  <2> SUFFICES ASSUME NEW k \in DOMAIN current'
               PROVE  /\ Within(current[k], TicksFor(<<k, current[k].minute>>, life))'
                      /\ failures' = 0 =>
                           Exact(current[k], TicksFor(<<k, current[k].minute>>, life))'
    BY DEF BarsFromTicks
  <2>1. PICK bar, S, q : bar = current'[k] /\ q = <<k, bar.minute>> /\ S = TicksFor(q, me)'
    OBVIOUS
  <2>2. TicksFor(<<k, current[k].minute>>, life)' = S
    BY <1>10, <2>1
  <2>3. Within(bar, S)' /\ (failures = 0 => Exact(bar, S)')
    <3>1. CASE k # i
      <4>1. k \in DOMAIN current /\ bar = current[k]
        BY <1>6, <2>1, <3>1
      <4>2. S = TicksFor(q, me)
        BY <1>11, <2>1, <3>1
      <4>3. Within(bar, S) /\ (failures = 0 => Exact(bar, S))
        BY <1>10, <2>1, <4>1, <4>2 DEF FromTicks, BarsFromTicks
      <4>4. \A x \in S : ticks'[x] = ticks[x]
        BY <1>13, <4>2
      <4> QED BY <4>3, <4>4, SameTicks
    <3>2. CASE k = i /\ i \in DOMAIN current
      <4>1. PICK old, T : old = current[i] /\ T = TicksFor(own, me)
        OBVIOUS
      <4>2. old \in BarType /\ bar = Ingest!Updated(old, price) /\ q = own
        BY <1>6, <1>7, <1>9, <2>1, <3>2, <4>1 DEF IInv, Shapes, TypeOK, BarType
      <4>3. S = T \cup {n}
        BY <1>12, <2>1, <4>1, <4>2
      <4>4. Within(old, T) /\ (failures = 0 => Exact(old, T))
        BY <1>7, <1>9, <1>10, <3>2, <4>1 DEF FromTicks, BarsFromTicks
      <4>5. \A x \in T : ticks'[x] = ticks[x] /\ x \in DOMAIN ticks
        BY <1>13, <4>1
      <4>6. Within(old, T)' /\ (failures = 0 => Exact(old, T)')
        BY <4>4, <4>5, SameTicks
      <4>7. T \in SUBSET Nat /\ \A x \in T : x <= n
        BY <1>3, <4>5
      <4>8. \A x \in T : ticks'[x].price \in Nat
        <5> SUFFICES ASSUME NEW x \in T PROVE ticks[x].price \in Nat
          BY <4>5
        <5>1. ticks[x] \in TickType
          BY <4>5, ElementOfSeq DEF IInv, Shapes
        <5> QED BY <5>1 DEF TickType
      <4>9. ticks'[n].price = price
        BY <1>3, <1>4
      <4>10. /\ Within(bar, T \cup {n})'
             /\ Exact(old, T)' => Exact(bar, T \cup {n})'
        <5>1. /\ Within(Ingest!Updated(old, price), T \cup {n})'
              /\ Exact(old, T)' => Exact(Ingest!Updated(old, price), T \cup {n})'
          BY <1>3, <4>2, <4>6, <4>7, <4>8, <4>9, OneMoreTick
        <5> QED BY <4>2, <5>1
      <4> QED BY <4>3, <4>6, <4>10
    <3>3. CASE k = i /\ i \notin DOMAIN current
      <4>1. bar = Ingest!FreshBar(m, price) /\ bar.minute = m /\ q = own
        BY <1>8, <1>9, <2>1, <3>3 DEF Ingest!FreshBar
      <4>2. S = TicksFor(own, me) \cup {n}
        BY <1>12, <2>1, <4>1
      <4>3. failures = 0 => TicksFor(own, me) = {}
        <5> SUFFICES ASSUME failures = 0, NEW x \in TicksFor(own, me) PROVE FALSE
          OBVIOUS
        <5>1. x \in DOMAIN ticks /\ ticks[x].instrument = i /\ ticks[x].life = life
          BY <1>9, <1>10 DEF TicksFor
        <5> QED BY <3>3, <5>1 DEF FromTicks, TicksPassed
      <4>4. failures = 0 => S = {n}
        BY <4>2, <4>3
      <4>5. ticks'[n].price = price /\ n \in S
        BY <1>3, <1>4, <4>2
      <4>6. Within(bar, S)'
        BY <4>5, <4>1 DEF Within, Ticked, Ingest!FreshBar
      <4>7. failures = 0 => Exact(bar, S)'
        BY <1>3, <4>1, <4>4, <4>5 DEF Exact, Ingest!FreshBar
      <4> QED BY <4>6, <4>7
    <3> QED BY <3>1, <3>2, <3>3
  <2>4. Within(current[k], TicksFor(<<k, current[k].minute>>, life))'
    BY <2>1, <2>2, <2>3 DEF Within, Ticked
  <2>5. failures' = 0 => Exact(current[k], TicksFor(<<k, current[k].minute>>, life))'
    BY <2>1, <2>2, <2>3 DEF Exact
  <2> QED BY <2>4, <2>5
<1>17. OpensAgree'
  <2> SUFFICES ASSUME NEW k \in DOMAIN current',
                      <<k, current'[k].minute>> \in DOMAIN candles',
                      writers'[<<k, current'[k].minute>>] = {life'}
               PROVE  candles'[<<k, current'[k].minute>>].open = current'[k].open
    BY DEF OpensAgree
  <2> DEFINE q == <<k, current'[k].minute>>
  <2>0. candles' = candles /\ q \in DOMAIN candles /\ writers[q] = {life}
    OBVIOUS
  <2>1. k \in DOMAIN current
    BY DEF IInv, RowsInv, OwnRows
  <2>2. CASE k = i
    <3>1. current'[i] = Ingest!Updated(current[i], price) /\ current[i] \in BarType
      BY <1>7, <2>1, <2>2 DEF IInv, Shapes, TypeOK, BarType
    <3>2. current'[i].open = current[i].open
      BY <3>1 DEF Ingest!Updated, BarType
    <3>3. q = <<k, current[k].minute>>
      BY <1>6, <1>7, <2>1, <2>2
    <3> QED BY <2>0, <2>1, <2>2, <3>2, <3>3 DEF FromTicks, OpensAgree
  <2>3. CASE k # i
    <3>1. current'[k] = current[k]
      BY <1>6, <2>1, <2>3
    <3> QED BY <2>0, <2>1, <3>1 DEF FromTicks, OpensAgree
  <2> QED BY <2>2, <2>3
<1>18. LastInHand'
  BY <1>14 DEF LastInHand
<1>19. TicksPassed'
  <2> SUFFICES ASSUME NEW k \in DOMAIN ticks'
               PROVE  /\ ticks'[k].life <= life
                      /\ failures = 0 /\ ticks'[k].life = life =>
                           /\ ticks'[k].instrument \in DOMAIN current'
                           /\ Ingest!Minute(ticks'[k].at) <= current'[ticks'[k].instrument].minute
    BY DEF TicksPassed
  <2>1. CASE k = n
    BY <1>3, <1>4, <1>5, <1>6, <1>10, <2>1
  <2>2. CASE k # n
    <3>1. k \in DOMAIN ticks /\ ticks'[k] = ticks[k]
      BY <1>3, <2>2
    <3>2. /\ ticks[k].life <= life
          /\ failures = 0 /\ ticks[k].life = life =>
               /\ ticks[k].instrument \in DOMAIN current
               /\ Ingest!Minute(ticks[k].at) <= current[ticks[k].instrument].minute
      BY <3>1 DEF FromTicks, TicksPassed
    <3>3. \A x \in DOMAIN current : x \in DOMAIN current' /\ current'[x].minute = current[x].minute
      BY <1>6, <1>7
    <3> QED BY <3>1, <3>2, <3>3
  <2> QED BY <2>1, <2>2
<1> QED BY <1>15, <1>16, <1>17, <1>18, <1>19 DEF FromTicks

LEMMA IngestFromTicks ==
  ASSUME MarketAssumption, IInv, IInv', FromTicks, Ingest!Next
  PROVE  FromTicks'
<1>1. CASE Ingest!OnOpen \/ Ingest!OnClose \/ Ingest!Shutdown
           \/ \E i \in Instruments, p \in Prices, at \in Times : Ingest!OnData(i, p, at)
  <2>1. /\ UNCHANGED <<ticks, candles, writers, current, life>>
        /\ handler.step = "idle"
        /\ failures' = failures \/ failures' = failures + 1
    BY <1>1 DEF Ingest!OnOpen, Ingest!OnClose, Ingest!OnData, Ingest!OnValidTick,
       Ingest!OnInvalidTick, Ingest!Shutdown, Ingest!RecordEvent, Ingest!StoreRaises,
       Ingest!tables, Ingest!Idle
  <2>2. UNCHANGED handler \/ handler'.step \in {"idle", "insert", "flush"}
    BY <1>1 DEF Ingest!OnOpen, Ingest!OnClose, Ingest!OnData, Ingest!OnValidTick,
       Ingest!OnInvalidTick, Ingest!Shutdown, Ingest!RecordEvent, Ingest!StoreRaises,
       Ingest!tables, Ingest!Idle, Ingest!Handling, Ingest!Flushing
  <2>3. failures' = 0 => failures = 0
    BY <2>1 DEF IInv, Shapes
  <2> QED BY <2>1, <2>2, <2>3, TicksStay
<1>2. CASE Ingest!StoreRaises /\ UNCHANGED <<current, life>>
  <2>1. /\ UNCHANGED <<ticks, candles, writers, current, life>>
        /\ failures' = failures + 1 /\ handler'.step = "idle"
    BY <1>2 DEF Ingest!StoreRaises, Ingest!Idle
  <2>2. failures' # 0
    BY <2>1 DEF IInv, Shapes
  <2> QED BY <2>1, <2>2, TicksStay
<1>3. CASE Ingest!InsertTick /\ ~Ingest!StoreRaises
  <2>0. handler.step = "insert" /\ UNCHANGED <<life, failures, candles, writers>>
    BY <1>3 DEF Ingest!InsertTick
  <2>1. PICK i \in Instruments, at \in Times, price \in Nat :
          i = handler.instrument /\ at = handler.at /\ price = handler.price
    BY <2>0, TickHandler DEF TickSteps
  <2>2. ticks' = Append(ticks, [instrument |-> i, price |-> price, at |-> at, life |-> life])
    BY <1>3, <2>1 DEF Ingest!InsertTick
  <2>3. CASE Ingest!InOtherMinute(i, at)
    <3>1. handler' = [handler EXCEPT !.step = "finalize"] /\ UNCHANGED current
      BY <1>3, <2>1, <2>3 DEF Ingest!InsertTick
    <3> QED BY <2>0, <2>1, <2>2, <2>3, <3>1, TicksStayInserted
  <2>4. CASE ~Ingest!InOtherMinute(i, at)
    <3>1. handler' = [handler EXCEPT !.step = "persist"] /\ current' = Ingest!Absorbed(i, price, at)
      BY <1>3, <2>1, <2>4 DEF Ingest!InsertTick
    <3> QED BY <2>0, <2>1, <2>2, <2>4, <3>1, TicksStayAbsorbed
  <2> QED BY <2>3, <2>4
<1>4. CASE Ingest!FinalizePrevious /\ ~Ingest!StoreRaises
  <2>0. handler.step = "finalize" /\ UNCHANGED life
    BY <1>4 DEF Ingest!FinalizePrevious
  <2>1. PICK i \in Instruments, at \in Times, price \in Nat :
          i = handler.instrument /\ at = handler.at /\ price = handler.price
    BY <2>0, TickHandler DEF TickSteps
  <2>2. /\ Ingest!WriteCandle(i, current[i], TRUE)
        /\ current' = Ingest!Absorbed(i, price, at)
        /\ handler' = [handler EXCEPT !.step = "persist"]
    BY <1>4, <2>1 DEF Ingest!FinalizePrevious
  <2> QED BY <2>0, <2>1, <2>2, TicksStayFinalized
<1>5. CASE Ingest!PersistCurrent /\ ~Ingest!StoreRaises
  <2>0. handler.step = "persist" /\ UNCHANGED <<current, life>> /\ handler' = Ingest!Idle
    BY <1>5 DEF Ingest!PersistCurrent
  <2>1. handler.step = "persist" /\ UNCHANGED <<current, life>> /\ handler'.step = "idle"
    BY <2>0 DEF Ingest!Idle
  <2>2. PICK i : i = handler.instrument
    OBVIOUS
  <2>3. i \in DOMAIN current
    BY <2>1, <2>2 DEF IInv, TickInHand, TickSteps
  <2>4. PICK closed \in BOOLEAN : Ingest!WriteCandle(i, current[i], closed)
    BY <1>5, <2>2 DEF Ingest!PersistCurrent
  <2> QED BY <2>1, <2>2, <2>3, <2>4, TicksStayWritten
<1>6. ASSUME NEW i \in Instruments, Ingest!FlushNext(i)
      PROVE  FromTicks'
  <2>1. handler.step = "flush" /\ i \in DOMAIN current
    BY <1>6 DEF Ingest!FlushNext, IInv, TickInHand
  <2>2. CASE /\ failures' = failures + 1 /\ Ingest!StartAgain
             /\ UNCHANGED <<candles, ticks, writers>>
    <3>1. failures' # 0
      BY <2>2 DEF IInv, Shapes
    <3> QED BY <2>2, <3>1, TicksStayAgain
  <2>3. CASE /\ Ingest!WriteCandle(i, current[i], TRUE) /\ UNCHANGED <<current, life>>
             /\ handler' = Ingest!Flushing(handler.todo \ {i})
    <3>1. handler'.step = "flush"
      BY <2>3 DEF Ingest!Flushing
    <3>2. PICK closed \in BOOLEAN : Ingest!WriteCandle(i, current[i], closed)
      BY <2>3
    <3>3. UNCHANGED <<current, life>>
      BY <2>3
    <3> QED BY <2>1, <3>1, <3>2, <3>3, TicksStayWritten
  <2> QED BY <1>6, <2>2, <2>3 DEF Ingest!FlushNext
<1>7. CASE Ingest!FinishShutdown \/ Ingest!Crash
  <2>1. /\ Ingest!StartAgain /\ UNCHANGED <<candles, ticks, writers>>
        /\ \/ failures' = failures /\ handler.step \in {"flush", "idle"}
           \/ failures' = failures + 1
    BY <1>7 DEF Ingest!FinishShutdown, Ingest!Crash, Ingest!tables, Ingest!Flushing, Ingest!Idle
  <2>2. failures' = 0 => failures = 0 /\ handler.step \notin {"finalize", "persist"}
    BY <2>1 DEF IInv, Shapes
  <2> QED BY <2>1, <2>2, TicksStayAgain
<1>8. CASE Ingest!InsertTick /\ Ingest!StoreRaises
  <2>1. UNCHANGED <<current, life>>
    <3>1. handler' = Ingest!Idle /\ UNCHANGED ticks /\ handler.step = "insert" /\ UNCHANGED life
      BY <1>8 DEF Ingest!StoreRaises, Ingest!InsertTick
    <3>2. [handler EXCEPT !.step = "finalize"].step = "finalize"
          /\ [handler EXCEPT !.step = "persist"].step = "persist"
      BY <3>1, TickHandler DEF TickSteps, Ingest!Handling
    <3> QED BY <1>8, <3>1, <3>2 DEF Ingest!InsertTick, Ingest!Idle
  <2> QED BY <1>2, <1>8, <2>1
<1>9. CASE Ingest!FinalizePrevious /\ Ingest!StoreRaises
  <2>1. UNCHANGED <<current, life>>
    <3>1. handler' = Ingest!Idle /\ handler.step = "finalize" /\ UNCHANGED life
      BY <1>9 DEF Ingest!StoreRaises, Ingest!FinalizePrevious
    <3>2. [handler EXCEPT !.step = "persist"].step = "persist"
      BY <3>1, TickHandler DEF TickSteps, Ingest!Handling
    <3> QED BY <1>9, <3>1, <3>2 DEF Ingest!FinalizePrevious, Ingest!Idle
  <2> QED BY <1>2, <1>9, <2>1
<1>10. CASE Ingest!PersistCurrent /\ Ingest!StoreRaises
  BY <1>2, <1>10 DEF Ingest!PersistCurrent
<1> QED BY <1>1, <1>3, <1>4, <1>5, <1>6, <1>7, <1>8, <1>9, <1>10 DEF Ingest!Next

LEMMA FillFromTicks ==
  ASSUME MarketAssumption, IInv, FromTicks, Fill!Next, UNCHANGED ingestVars
  PROVE  FromTicks'
<1>0. UNCHANGED <<ticks, current, handler, life, failures>>
  BY DEF ingestVars
<1>1. CASE UNCHANGED <<candles, writers>>
  BY <1>0, <1>1, TicksStay
<1>2. CASE Fill!WriteBar /\ ~UNCHANGED <<candles, writers>>
  <2>1. PICK key : key = <<job.instrument, Fill!Min(job.bars)>>
    OBVIOUS
  <2>2. /\ job.step = "bars" /\ job.bars # {}
        /\ candles' = Fill!Upserted(candles, key, Fill!Row(HistoryBar, TRUE, TRUE))
        /\ writers' = Fill!Signed(writers, key, Backfiller)
    BY <1>2, <2>1 DEF Fill!WriteBar, Fill!StoreRaises, Fill!Backfiller, Backfiller
  <2>3. /\ key \in Keys /\ key[2] \in Nat /\ key[1] = job.instrument
        /\ InJob(key[2])
        /\ DOMAIN candles' = DOMAIN candles \cup {key}
        /\ \A k \in DOMAIN candles \ {key} :
             candles'[k] = candles[k] /\ writers'[k] = writers[k]
        /\ writers'[key] = {Backfiller} \cup (IF key \in DOMAIN candles THEN writers[key] ELSE {})
        /\ candles'[key].closed
        /\ writers'[key] = {Backfiller} => candles'[key] = Row(HistoryBar, TRUE, TRUE)
        /\ TableShape'
    <3>1. BarWritten(key)
      BY <2>1, <2>2 DEF BarWritten
    <3>2. RowFilled(key)
      BY <3>1, FillWrite
    <3> QED BY <3>2 DEF RowFilled
  <2>4. Backfiller \in writers'[key]
    BY <2>3
  <2> QED BY <1>0, <2>3, <2>4, TicksStayFilled
<1>3. Fill!WriteBar \/ UNCHANGED <<candles, writers>>
  BY DEF Fill!Next, Fill!StartBackfill, Fill!FetchFails, Fill!FetchGap, Fill!FinishGap,
     Fill!FinishBackfill, Fill!StoreRaises
<1> QED BY <1>1, <1>2, <1>3

LEMMA InitFromTicks ==
  ASSUME Init
  PROVE  FromTicks
<1>1. /\ candles = <<>> /\ ticks = <<>> /\ current = <<>> /\ handler = Ingest!Idle
  BY DEF Init, Ingest!Init
<1>2. DOMAIN candles = {} /\ DOMAIN current = {} /\ DOMAIN ticks = {}
  BY <1>1
<1>3. RowsFromTicks /\ BarsFromTicks /\ OpensAgree /\ TicksPassed
  BY <1>2 DEF RowsFromTicks, BarsFromTicks, OpensAgree, TicksPassed
<1>4. LastInHand
  BY <1>1 DEF LastInHand, Ingest!Idle
<1> QED BY <1>3, <1>4 DEF FromTicks

\* What is exact of a bar's ticks is what the property says of them.
LEMMA ExactRow ==
  ASSUME NEW bar \in RowType, NEW S \in SUBSET Nat, \A k \in S : ticks[k].price \in Nat,
         Within(bar, S), Exact(bar, S)
  PROVE  /\ bar.open = ticks[Min(S)].price
         /\ bar.close = ticks[Max(S)].price
         /\ bar.high = Max(PricesOf(S))
         /\ bar.low = Min(PricesOf(S))
<1>1. PICK first \in S : ticks[first].price = bar.open /\ \A k \in S : first <= k
  BY DEF Exact
<1>2. PICK last \in S : ticks[last].price = bar.close /\ \A k \in S : k <= last
  BY DEF Exact
<1>3. Min(S) = first
  <2>1. Min(S) \in S /\ \A k \in S : Min(S) <= k
    BY <1>1 DEF Min
  <2>2. Min(S) \in Nat /\ first \in Nat /\ Min(S) <= first /\ first <= Min(S)
    BY <1>1, <2>1
  <2> QED BY <2>2
<1>4. Max(S) = last
  <2>1. Max(S) \in S /\ \A k \in S : k <= Max(S)
    BY <1>2 DEF Max
  <2>2. Max(S) \in Nat /\ last \in Nat /\ Max(S) <= last /\ last <= Max(S)
    BY <1>2, <2>1
  <2> QED BY <2>2
<1>5. bar.high \in Nat /\ bar.low \in Nat
  BY DEF RowType
<1>6. PICK prices : prices = PricesOf(S)
  OBVIOUS
<1>7. /\ bar.high \in prices /\ bar.low \in prices /\ prices \subseteq Nat
      /\ \A p \in prices : bar.low <= p /\ p <= bar.high
  BY <1>6 DEF PricesOf, Within, Ticked, Exact
<1>8. Max(prices) = bar.high
  <2>1. Max(prices) \in prices /\ \A p \in prices : p <= Max(prices)
    BY <1>5, <1>7 DEF Max
  <2>2. Max(prices) \in Nat /\ Max(prices) <= bar.high /\ bar.high <= Max(prices)
    BY <1>7, <2>1
  <2> QED BY <1>5, <2>2
<1>9. Min(prices) = bar.low
  <2>1. Min(prices) \in prices /\ \A p \in prices : Min(prices) <= p
    BY <1>5, <1>7 DEF Min
  <2>2. Min(prices) \in Nat /\ Min(prices) <= bar.low /\ bar.low <= Min(prices)
    BY <1>7, <2>1
  <2> QED BY <1>5, <2>2
<1> QED BY <1>1, <1>2, <1>3, <1>4, <1>6, <1>8, <1>9

LEMMA FromTicksProperty ==
  ASSUME IInv, FromTicks
  PROVE  CandlesFromTicks
<1> SUFFICES ASSUME NEW key \in DOMAIN candles, NEW who \in writers[key] \ {Backfiller},
                    writers[key] = {who},
                    NEW row, row = candles[key], NEW mine, mine = TicksFor(key, who)
             PROVE  /\ WellFormed(row)
                    /\ {row.open, row.high, row.low, row.close} \subseteq PricesOf(mine)
                    /\ failures = 0 /\ handler = Ingest!Idle =>
                         /\ row.open = ticks[Min(mine)].price
                         /\ row.close = ticks[Max(mine)].price
                         /\ row.high = Max(PricesOf(mine))
                         /\ row.low = Min(PricesOf(mine))
  BY DEF CandlesFromTicks
<1>1. who \in 0..life
  BY DEF IInv, RowsInv, OwnRows
<1>2. RowFromTicks(key, who)
  BY <1>1 DEF FromTicks, RowsFromTicks
<1>3. WellFormed(row) /\ Within(row, mine)
  BY <1>2 DEF RowFromTicks
<1>4. {row.open, row.high, row.low, row.close} \subseteq PricesOf(mine)
  BY <1>3 DEF Within, Ticked, PricesOf
<1>5. ASSUME failures = 0, handler = Ingest!Idle
      PROVE  Exact(row, mine)
  BY <1>2, <1>5 DEF RowFromTicks, Lagging, Ingest!Idle
<1>6. \A k \in mine : k \in Nat /\ ticks[k].price \in Nat
  <2> SUFFICES ASSUME NEW k \in mine PROVE k \in Nat /\ ticks[k].price \in Nat
    OBVIOUS
  <2>1. ticks \in Seq(TickType) /\ k \in DOMAIN ticks
    BY DEF IInv, Shapes, TicksFor
  <2>2. DOMAIN ticks = 1..Len(ticks) /\ Len(ticks) \in Nat
    BY <2>1, LenProperties
  <2>3. ticks[k] \in TickType
    BY <2>1, <2>2, ElementOfSeq
  <2> QED BY <2>1, <2>2, <2>3 DEF TickType
<1>7. row \in RowType
  BY DEF IInv, Shapes, TypeOK, RowType
<1> QED BY <1>3, <1>4, <1>5, <1>6, <1>7, ExactRow

-----------------------------------------------------------------------------
(* The theorems.                                                           *)

\* The tables and the builder keep their shape, and each bar of the builder is well
\* formed (candle_builder.py:34-59, database.py:132-156).
THEOREM MarketTypeOK == Spec => []TypeOK
<1>1. IInv => TypeOK
  BY DEF IInv, Shapes
<1> QED BY <1>1, SpecIInv, PTL

\* A bar of one process is made of that process's ticks and, as long as nothing was cut
\* short, is their first, highest, lowest and last price (candle_builder.py:34-59,
\* websocket_client.py:126-149).
THEOREM CandlesAreTicks == Spec => []CandlesFromTicks
<1>1. Init => FromTicks
  BY InitFromTicks
<1>2. IInv /\ IInv' /\ FromTicks /\ [Next]_vars => FromTicks'
  <2> SUFFICES ASSUME IInv, IInv', FromTicks, [Next]_vars PROVE FromTicks'
    OBVIOUS
  <2>1. CASE UNCHANGED vars
    <3>1. UNCHANGED <<ticks, candles, writers, current, life, failures, handler>>
      BY <2>1 DEF vars
    <3> QED BY <3>1, TicksStay
  <2> QED BY <2>1, MarketAssumption, IngestFromTicks, FillFromTicks DEF Next
<1>3. IInv /\ FromTicks => CandlesFromTicks
  BY FromTicksProperty
<1> QED BY <1>1, <1>2, <1>3, SpecIInv, PTL DEF Spec

\* No bar is left open behind a newer one while its process lives, whatever calls
\* raise (candle_builder.py:39-41, 79-84).
THEOREM NoBarLeftOpen == Spec => []OpenBarsInProgress
<1>1. IInv => OpenBarsInProgress
  BY DEF IInv, RowsInv
<1> QED BY <1>1, SpecIInv, PTL

\* The only bar the backfill shares with the first process is one a gap ended with: the
\* process has an earlier bar, and none within two minutes before it
\* (database.py:265-275, backfill.py:85-107, validation.py:37-40).
THEOREM BackfillStaysBehind == Spec => []GapsStayBehind
<1>1. IInv => GapsStayBehind
  <2> SUFFICES ASSUME IInv, life = 0, NEW key \in DOMAIN candles,
                      Cardinality(writers[key]) > 1,
                      NEW before, before = WrittenBefore(key[1], key[2])
               PROVE  before # {} /\ \A n \in before : key[2] - n > 2
    BY DEF GapsStayBehind
  <2>1. RowBehind(key)
    BY DEF IInv, Behind
  <2>2. writers[key] = {Backfiller, 0}
    <3>1. Cardinality({Backfiller}) = 1 /\ Cardinality({0}) = 1
      BY FS_Singleton
    <3>2. writers[key] # {Backfiller} /\ writers[key] # {0}
      BY <3>1
    <3> QED BY <2>1, <3>2 DEF RowBehind
  <2>3. {Backfiller, 0} # {0}
    <3>1. Backfiller \in {Backfiller, 0} /\ Backfiller \notin {0}
      BY DEF Backfiller
    <3> QED BY <3>1
  <2>4. HasOwn(key[1], key[2]) /\ NoneNear(key[1], key[2])
    BY <2>1, <2>2, <2>3 DEF RowBehind
  <2>5. \A k \in DOMAIN candles : k = <<k[1], k[2]>>
    BY DEF IInv, Shapes, TypeOK, Keys
  <2>6. before # {}
    <3>1. PICK k \in DOMAIN candles : OwnBefore(k, key[1], key[2])
      BY <2>4 DEF HasOwn
    <3>2. k[2] \in MinutesOf(candles, key[1]) /\ <<key[1], k[2]>> = k
      BY <2>5, <3>1 DEF MinutesOf, OwnBefore
    <3>3. k[2] \in before
      BY <3>1, <3>2 DEF OwnBefore, WrittenBefore
    <3> QED BY <3>3
  <2>7. ASSUME NEW n \in before
        PROVE  key[2] - n > 2
    <3>1. n \in MinutesOf(candles, key[1]) /\ n < key[2] /\ life \in writers[<<key[1], n>>]
      BY DEF WrittenBefore
    <3>2. PICK k \in DOMAIN candles : k[1] = key[1] /\ k[2] = n
      BY <3>1 DEF MinutesOf
    <3>3. k = <<key[1], n>>
      BY <2>5, <3>2
    <3>4. OwnBefore(k, key[1], key[2])
      BY <3>1, <3>2, <3>3 DEF OwnBefore
    <3> QED BY <2>4, <3>2, <3>4 DEF NoneNear
  <2> QED BY <2>6, <2>7
<1> QED BY <1>1, SpecIInv, PTL

\* A closed bar that no other process writes never changes (candle_builder.py:5-7,
\* backfill.py:93-107).
THEOREM ClosedBarsAreFinal == Spec => ClosedBarsFinal
<1>1. IInv /\ IInv' /\ [Next]_vars => ClosedStay
  BY MarketAssumption, NextClosedStay
<1>2. ClosedStay =>
        [\A key \in DOMAIN candles :
           candles[key].closed /\ Cardinality(writers'[key]) = 1 =>
             candles'[key] = candles[key]]_vars
  BY DEF ClosedStay
<1> QED BY <1>1, <1>2, SpecIInv, PTL DEF Spec, ClosedBarsFinal

\* While no store call raises, each tick delivered is stored or counted as rejected,
\* and each reconnect follows a disconnect (websocket_client.py:107-120, 138-146).
THEOREM TicksAreAccounted == Spec => []EventsAccountForTicks
<1>1. IInv => EventsAccountForTicks
  <2> SUFFICES ASSUME IInv, failures = 0, handler = Ingest!Idle
               PROVE  /\ delivered = Len(ticks) + events["rejected_bar"]
                      /\ events["reconnect"] <= events["disconnect"]
    BY DEF EventsAccountForTicks
  <2>1. Len(ticks) \in Nat
    BY LenProperties DEF IInv, Shapes
  <2>2. \A type \in {"rejected_bar", "reconnect", "disconnect"} : events[type] \in Nat
    BY DEF IInv, Shapes, TypeOK, Ingest!EventTypes
  <2>3. /\ delivered = Len(ticks) + events["rejected_bar"] + 0
        /\ events["reconnect"] + (IF disconnected THEN 1 ELSE 0) <= events["disconnect"]
    BY DEF IInv, Accounted, Ingest!Idle
  <2>4. CASE disconnected
    BY <2>1, <2>2, <2>3, <2>4
  <2>5. CASE ~disconnected
    BY <2>1, <2>2, <2>3, <2>5
  <2> QED BY <2>4, <2>5
<1> QED BY <1>1, SpecIInv, PTL

\* The two writers, at the grain of their store calls and with every crash, implement
\* the feed (candle_builder.py:34-59, backfill.py:74-110).
THEOREM WritersImplementFeed == Spec => ImplementsFeed
<1>1. Init => Feed!Init
  <2> SUFFICES ASSUME Init PROVE Feed!Init
    OBVIOUS
  <2>1. DOMAIN candles = {} /\ DOMAIN current = {} /\ candles = <<>> /\ current = <<>>
    BY DEF Init, Ingest!Init
  <2>2. FeedRows = <<>> /\ FeedForming = <<>>
    BY <2>1 DEF FeedRows, FeedForming
  <2> QED BY <2>2 DEF Feed!Init, FeedRows, FeedForming
<1>2. IInv /\ [Next]_vars => [Feed!Next]_(Feed!vars)
  <2> SUFFICES ASSUME IInv, [Next]_vars PROVE [Feed!Next]_(Feed!vars)
    OBVIOUS
  <2>1. CASE UNCHANGED vars
    BY <2>1, FeedStutters DEF vars
  <2> QED BY <2>1, MarketAssumption, IngestMaps, FillMaps DEF Next
<1> QED BY <1>1, <1>2, SpecIInv, PTL DEF Spec, ImplementsFeed, Feed!Spec

=============================================================================
