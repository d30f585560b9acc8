---------------------------- MODULE PaperExecutor ----------------------------
(***************************************************************************)
(* execution/paper_executor.py over engine/position_manager.py and the     *)
(* trade journal of data/database.py.                                      *)
(*                                                                         *)
(* The caller feeds one bar open or one price at a time.  A price update   *)
(* walks the open positions of its instrument one by one; settling removes *)
(* the position first and writes the journal last, and an exception of the *)
(* store leaves the walk where it is.  The walk is therefore a variable,   *)
(* `call`, and each position visited is one step.                          *)
(*                                                                         *)
(* Bar, tick, stop and target prices are whole rupees.  A fill price is in *)
(* units of 1/SlippageUnit rupee and profit in 1/RateUnit^2 of that.       *)
(***************************************************************************)
EXTENDS Charges, Sequences, FiniteSets, FiniteSetsExt, TLC

CONSTANTS
  Instruments,    \* instrument tokens
  Prices,         \* prices the feed may deliver
  Signals,        \* signals the caller may submit
  Quantities,     \* quantities the risk manager may size
  SlippageBps, SlippageUnit,   \* slippage_bps and its unit, 10000 in the code
  StoreMayFail,   \* may insert_journal_entry raise
  MaxOrders,      \* bound on the orders submitted
  MaxBars         \* bound on the bars of all instruments

ASSUME ExecutorAssumption ==
  /\ Prices \subseteq Nat \ {0}
  /\ Quantities \subseteq Nat \ {0}
  /\ SlippageUnit \in Nat \ {0}
  /\ SlippageBps \in 0..SlippageUnit
  /\ StoreMayFail \in BOOLEAN
  /\ MaxOrders \in Nat
  /\ MaxBars \in Nat
  /\ \A s \in Signals :
       /\ s.direction \in {"BUY", "SELL", "NO_TRADE"}
       /\ s.stop_loss \in Int
       /\ s.target \in Int

VARIABLES
  pending,   \* PositionManager._pending: order number -> order
  open,      \* PositionManager._open: order number -> position
  journal,   \* the rows of trade_journal, oldest first
  nextId,    \* _id_counter
  call,      \* the price update in progress, if any
  bars,      \* history: the opens of each instrument's bars
  lastTick   \* history: each instrument's last price since its last bar opened

book == <<pending, open, nextId>>
vars == <<pending, open, journal, nextId, call, bars, lastTick>>

Missing == -1
NoCall == [price |-> Missing, todo |-> {}]
Idle == call.todo = {}

OrderIds == 1..MaxOrders

-----------------------------------------------------------------------------
(* Prices.                                                                 *)

\* Mutant of Slipped: a sale is slipped upwards, like a purchase.
SlippedUp(price, isBuy) == price * (SlippageUnit + SlippageBps)

\* _apply_slippage: worse for the trader, higher on a buy and lower on a sale.
Slipped(price, isBuy) ==
  IF isBuy THEN price * (SlippageUnit + SlippageBps)
           ELSE price * (SlippageUnit - SlippageBps)

IsLong(p) == p.direction = "BUY"

\* Mutant of HitStop: a price equal to the stop does not trigger it.
HitStopStrictly(p, price) ==
  IF IsLong(p) THEN price < p.stop_loss ELSE price > p.stop_loss

HitStop(p, price) ==
  IF IsLong(p) THEN price <= p.stop_loss ELSE price >= p.stop_loss

HitTarget(p, price) ==
  IF IsLong(p) THEN price >= p.target ELSE price <= p.target

\* Gross profit, in 1/RateUnit^2 of a fill-price unit.
Gross(p, entryPrice, exitPrice) ==
  (IF IsLong(p) THEN exitPrice - entryPrice ELSE entryPrice - exitPrice)
    * p.quantity * RateUnit * RateUnit

NetProfit(p, exitPrice) ==
  Gross(p, p.entry_price, exitPrice)
    - RoundTripCharges(p.entry_price * p.quantity, exitPrice * p.quantity, IsLong(p))

-----------------------------------------------------------------------------
(* The position book.                                                      *)

BarsSeen == MapThenSumSet(LAMBDA i : Len(bars[i]), Instruments)

OrdersFor(dict, i) == {id \in DOMAIN dict : dict[id].instrument = i}

\* Mutant of PendingFor: the instrument is not compared.
PendingForAny(i) == DOMAIN pending

PendingFor(i) == OrdersFor(pending, i)

OpenFor(i) == OrdersFor(open, i)

NewOrder(s, i, quantity) ==
  [instrument |-> i, direction |-> s.direction, quantity |-> quantity,
   stop_loss |-> s.stop_loss, target |-> s.target, barsSeen |-> Len(bars[i])]

\* PositionManager.fill: the order's fields, the fill price, and no price yet.
FilledAt(order, price) ==
  [instrument |-> order.instrument, direction |-> order.direction,
   quantity |-> order.quantity, stop_loss |-> order.stop_loss,
   target |-> order.target, barsSeen |-> order.barsSeen,
   entry_price |-> Slipped(price, IsLong(order)), current_price |-> Missing]

Init ==
  /\ pending = <<>>
  /\ open = <<>>
  /\ journal = <<>>
  /\ nextId = 1
  /\ call = NoCall
  /\ bars = [i \in Instruments |-> <<>>]
  /\ lastTick = [i \in Instruments |-> Missing]

\* submit_order refuses a signal that is no trade or lacks its stop or target.
Submittable(s) ==
  /\ s.direction # "NO_TRADE"
  /\ s.stop_loss # Missing
  /\ s.target # Missing

SubmitOrder(s, i, quantity) ==
  /\ Idle
  /\ nextId <= MaxOrders
  /\ Submittable(s)
  /\ pending' = [id \in DOMAIN pending \cup {nextId} |->
                   IF id = nextId THEN NewOrder(s, i, quantity) ELSE pending[id]]
  /\ nextId' = nextId + 1
  /\ UNCHANGED <<open, journal, call, bars, lastTick>>

\* on_bar_open fills every pending order of the instrument.
OnBarOpen(i, price) ==
  /\ Idle
  /\ BarsSeen < MaxBars
  /\ open' = [id \in DOMAIN open \cup PendingFor(i) |->
                IF id \in PendingFor(i) THEN FilledAt(pending[id], price) ELSE open[id]]
  /\ pending' = Restrict(pending, DOMAIN pending \ PendingFor(i))
  /\ bars' = [bars EXCEPT ![i] = Append(@, price)]
  /\ lastTick' = [lastTick EXCEPT ![i] = Missing]
  /\ UNCHANGED <<journal, nextId, call>>

\* on_price_update takes a copy of the instrument's positions and walks it.
OnPriceUpdate(i, price) ==
  /\ Idle
  /\ call' = [price |-> price, todo |-> OpenFor(i)]
  /\ lastTick' = [lastTick EXCEPT ![i] = price]
  /\ UNCHANGED <<pending, open, journal, nextId, bars>>

-----------------------------------------------------------------------------
(* Settling: the position leaves the book, then the trade is journaled.    *)

JournalRow(id, p, exitPrice, reason) ==
  [id |-> id, instrument |-> p.instrument, direction |-> p.direction,
   quantity |-> p.quantity, entry_price |-> p.entry_price,
   exit_price |-> Slipped(exitPrice, ~IsLong(p)),
   pnl_net |-> NetProfit(p, Slipped(exitPrice, ~IsLong(p))),
   exit_reason |-> reason, barsSeen |-> p.barsSeen,
   quoted |-> exitPrice]

\* Mutant of Settle: the journal is written and the position stays in the book.
SettleKeepingPosition(id, exitPrice, reason, rest) ==
  /\ open' = open
  /\ \/ /\ journal' = Append(journal, JournalRow(id, open[id], exitPrice, reason))
        /\ call' = rest
     \/ /\ StoreMayFail
        /\ UNCHANGED journal
        /\ call' = NoCall

\* _settle: `rest` is what the walk has left to do when the store accepts the
\* row; when it raises, the position is gone and the walk ends.
Settle(id, exitPrice, reason, rest) ==
  /\ open' = Restrict(open, DOMAIN open \ {id})
  /\ \/ /\ journal' = Append(journal, JournalRow(id, open[id], exitPrice, reason))
        /\ call' = rest
     \/ /\ StoreMayFail
        /\ UNCHANGED journal
        /\ call' = NoCall

\* The walk is in the order of the dict, which is the order of the numbers.
Current == Min(call.todo)

\* Mutant of AfterCurrent: the walk forgets to move on.
AfterCurrentRevisiting == call

AfterCurrent ==
  IF call.todo = {Current} THEN NoCall ELSE [call EXCEPT !.todo = @ \ {Current}]

StopOut ==
  /\ HitStop(open[Current], call.price)
  /\ Settle(Current, open[Current].stop_loss, "stop_loss", AfterCurrent)

TakeTarget ==
  /\ ~HitStop(open[Current], call.price)
  /\ HitTarget(open[Current], call.price)
  /\ Settle(Current, open[Current].target, "target", AfterCurrent)

Hold ==
  /\ ~HitStop(open[Current], call.price)
  /\ ~HitTarget(open[Current], call.price)
  /\ open' = [open EXCEPT ![Current].current_price = call.price]
  /\ call' = AfterCurrent
  /\ UNCHANGED journal

\* One position of the walk.
VisitPosition ==
  /\ ~Idle
  /\ StopOut \/ TakeTarget \/ Hold
  /\ UNCHANGED <<pending, nextId, bars, lastTick>>

\* close_position on an open position; on any other it raises KeyError.
ClosePosition(id, price) ==
  /\ Idle
  /\ id \in DOMAIN open
  /\ Settle(id, price, "session_close", NoCall)
  /\ UNCHANGED <<pending, nextId, bars, lastTick>>

Next ==
  \/ \E s \in Signals, i \in Instruments, q \in Quantities : SubmitOrder(s, i, q)
  \/ \E i \in Instruments, p \in Prices : OnBarOpen(i, p)
  \/ \E i \in Instruments, p \in Prices : OnPriceUpdate(i, p)
  \/ VisitPosition
  \/ \E id \in OrderIds, p \in Prices : ClosePosition(id, p)

Spec == Init /\ [][Next]_vars

-----------------------------------------------------------------------------
(* The lifecycle this executor implements.                                 *)

JournalIds == {journal[k].id : k \in DOMAIN journal}

StageOf(id) ==
  IF id >= nextId THEN "none"
  ELSE IF id \in DOMAIN pending THEN "pending"
  ELSE IF id \in DOMAIN open THEN "open"
  ELSE IF id \in JournalIds THEN "closed"
  ELSE "lost"

NothingLost == \A id \in OrderIds : StageOf(id) # "lost"

Lifecycle == INSTANCE TradeLifecycle WITH
  MayLose <- StoreMayFail,
  submitted <- nextId - 1,
  stage <- [id \in OrderIds |-> StageOf(id)],
  record <- [k \in DOMAIN journal |-> journal[k].id]

-----------------------------------------------------------------------------
(* Properties.                                                             *)

OrderRecord ==
  [instrument : Instruments, direction : {"BUY", "SELL"}, quantity : Nat,
   stop_loss : Int, target : Int, barsSeen : Nat]

PositionRecord ==
  [instrument : Instruments, direction : {"BUY", "SELL"}, quantity : Nat,
   stop_loss : Int, target : Int, barsSeen : Nat,
   entry_price : Nat, current_price : Int]

RowRecord ==
  [id : OrderIds, instrument : Instruments, direction : {"BUY", "SELL"},
   quantity : Nat, entry_price : Nat, exit_price : Int, pnl_net : Int,
   exit_reason : {"stop_loss", "target", "session_close"}, barsSeen : Nat,
   quoted : Int]

\* The state has its shape, and a walk visits only positions that are open.
TypeOK ==
  /\ nextId \in 1..(MaxOrders + 1)
  /\ DOMAIN pending \subseteq 1..(nextId - 1)
  /\ \A id \in DOMAIN pending : pending[id] \in OrderRecord
  /\ DOMAIN open \subseteq 1..(nextId - 1)
  /\ \A id \in DOMAIN open : open[id] \in PositionRecord
  /\ journal \in Seq(RowRecord)
  /\ call \in [price : Int, todo : SUBSET DOMAIN open]
  /\ bars \in [Instruments -> Seq(Nat)]
  /\ lastTick \in [Instruments -> Int]

\* Every order is filled at the open of the first bar of its own instrument
\* after its submission, slipped against the trader, and at no other bar's
\* price (executor_protocol.py:9-14, paper_executor.py:69-73).
EntryIsNextOpen(p) ==
  /\ Len(bars[p.instrument]) > p.barsSeen
  /\ p.entry_price = bars[p.instrument][p.barsSeen + 1]
       * (IF IsLong(p) THEN SlippageUnit + SlippageBps
                       ELSE SlippageUnit - SlippageBps)

FillsAtNextOpen ==
  /\ \A id \in DOMAIN open : EntryIsNextOpen(open[id])
  /\ \A k \in DOMAIN journal : EntryIsNextOpen(journal[k])
  /\ \A id \in DOMAIN pending :
       Len(bars[pending[id].instrument]) = pending[id].barsSeen

\* When a price update has been worked off, each position of the instrument has
\* seen that price, and none that it takes to its stop or its target is left
\* open (paper_executor.py:79-85), as long as the store has raised in no close:
\* a close that raises breaks the walk off.
NoTriggeredPositionLeft ==
  Idle /\ NothingLost =>
    \A id \in DOMAIN open :
      LET p == open[id]
          tick == lastTick[p.instrument]
      IN tick # Missing =>
           /\ p.current_price = tick
           /\ IF IsLong(p) THEN p.stop_loss < tick /\ tick < p.target
                           ELSE p.target < tick /\ tick < p.stop_loss

\* A journaled trade never earns as much as the same trade would without
\* slippage and charges, between the bar open it was filled at and the price
\* its exit was quoted at (paper_executor.py:4-9, 50-54, 98-104).
CostsAgainstTrader ==
  \A k \in DOMAIN journal :
    LET r == journal[k]
        openPrice == bars[r.instrument][r.barsSeen + 1]
    IN r.pnl_net < Gross(r, openPrice * SlippageUnit, r.quoted * SlippageUnit)

\* models.py:217 "One closed paper trade, persisted in full": an order that has
\* left the pending and the open book is in the journal.
ClosedTradesJournaled ==
  \A id \in 1..(nextId - 1) :
    id \in DOMAIN pending \cup DOMAIN open \cup JournalIds

\* The executor implements the lifecycle: an order is filled once, from
\* pending; a position is closed once, from open; each close is journaled once.
ImplementsLifecycle == Lifecycle!Spec

=============================================================================
