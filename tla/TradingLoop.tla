----------------------------- MODULE TradingLoop -----------------------------
(***************************************************************************)
(* The risk manager and the paper executor driven together, the way        *)
(* README.md:814-819 and 958-970 describe: every signal of the signal      *)
(* engine is evaluated, an approved one is submitted with the sized        *)
(* quantity and its first target and recorded as opened, and every trade   *)
(* the executor journals is recorded as closed.                            *)
(* The repository holds the components and leaves the loop itself to       *)
(* its user, so the driver's steps are external; what they call is not.    *)
(*                                                                         *)
(* The driver is one thread.  It finishes a call, and hands the closes the *)
(* call journaled to the risk manager, before it makes the next one.       *)
(***************************************************************************)
EXTENDS SignalEngine

CONSTANTS
  MaxDailyLoss, MaxTradesPerDay, MaxOpenPositions,
  CooldownAfter, CooldownDuration, RiskBudget,
  DayLength, IstOffset, SessionStart, SessionEnd, TradingDays, MaxTime,
  RateUnit, BrokerageFlat, BrokeragePct, SttPct, TxnPct, SebiPct, StampPct, GstPct,
  Inputs,         \* the scores, entry and ATR the driver may be at
  Signals,        \* what the signal engine makes of them
  Instruments, Prices,
  SlippageBps, SlippageUnit, StoreMayFail, MaxOrders, MaxBars,
  LotSize,        \* lot size of every instrument
  MayRestart      \* may the process die and start again

ASSUME LoopAssumption ==
  /\ SignalAssumption
  /\ MaxOpenPositions \in Nat
  /\ LotSize \in Nat \ {0}
  /\ MayRestart \in BOOLEAN

VARIABLES
  now, daily, openPositions, killSwitch, live, opens, closes,   \* RiskManager
  pending, open, journal, nextId, call, bars, lastTick,         \* PaperExecutor
  accounted,   \* how many rows of the journal the driver has reported closed
  firstId      \* history: the number of the running process's first order

riskVars == <<now, daily, openPositions, killSwitch, live, opens, closes>>
execVars == <<pending, open, journal, nextId, call, bars, lastTick>>
driver == <<accounted, firstId>>
vars == <<now, daily, openPositions, killSwitch, live, opens, closes,
          pending, open, journal, nextId, call, bars, lastTick, accounted, firstId>>

\* The driver trades a signal's first target.
AsOrder(signal) ==
  [direction |-> signal.direction, entry |-> signal.entry, stop_loss |-> signal.stop_loss,
   target |-> IF signal.targets = <<>> THEN None ELSE signal.targets[1]]

SignalFor(inputs) == AsOrder(GenerateSignal(inputs))

\* A score is a number, however large: the engine clamps it.
ASSUME ScoresAssumption ==
  \A inputs \in Inputs : \A f \in DOMAIN inputs.scores : inputs.scores[f] \in Int

ASSUME SignalsAssumption == Signals = {SignalFor(inputs) : inputs \in Inputs}

Risk == INSTANCE RiskManager WITH LotSizes <- {LotSize}, Pnls <- {}
Exec == INSTANCE PaperExecutor WITH Quantities <- {}

Init == Risk!Init /\ Exec!Init /\ accounted = 0 /\ firstId = 1

\* The driver is between two calls and owes the risk manager no close.
Ready == Exec!Idle /\ accounted = Len(journal)

-----------------------------------------------------------------------------
Advance ==
  /\ Ready
  /\ Risk!Tick
  /\ UNCHANGED <<execVars, driver>>

SetKillSwitch(enabled) ==
  /\ Ready
  /\ Risk!SetKillSwitch(enabled)
  /\ UNCHANGED <<execVars, driver>>

\* A signal that evaluate rejects, NO_TRADE among them, or that submit_order
\* refuses after it: no order reaches the book, and nothing is recorded.
RejectSignal(s) ==
  /\ Ready
  /\ ~Risk!Approves(s, LotSize) \/ ~Exec!Submittable(s)
  /\ Risk!Evaluate
  /\ UNCHANGED <<execVars, driver>>

\* Mutant of EnterTrade: the driver submits without recording the trade.
EnterTradeUnrecorded(s, i) ==
  /\ Ready
  /\ Risk!Approves(s, LotSize)
  /\ Risk!Evaluate
  /\ Exec!SubmitOrder(s, i, Risk!SizedQuantity(Risk!PerShareRisk(s), LotSize))
  /\ UNCHANGED driver

\* evaluate, submit_order, record_trade_opened.
EnterTrade(s, i) ==
  /\ Ready
  /\ Risk!OpenTrade(s, LotSize)
  /\ Exec!SubmitOrder(s, i, Risk!SizedQuantity(Risk!PerShareRisk(s), LotSize))
  /\ UNCHANGED driver

BarOpen(i, price) ==
  /\ Ready
  /\ Exec!OnBarOpen(i, price)
  /\ UNCHANGED <<riskVars, driver>>

PriceUpdate(i, price) ==
  /\ Ready
  /\ Exec!OnPriceUpdate(i, price)
  /\ UNCHANGED <<riskVars, driver>>

VisitPosition ==
  /\ Exec!VisitPosition
  /\ UNCHANGED <<riskVars, driver>>

\* The forced close at the end of a session, which README.md leaves to the loop.
SessionClose(id, price) ==
  /\ Ready
  /\ Exec!ClosePosition(id, price)
  /\ UNCHANGED <<riskVars, driver>>

\* record_trade_closed with the net result of the next journaled trade.
ReportClose ==
  /\ Exec!Idle
  /\ accounted < Len(journal)
  /\ Risk!RecordTradeClosed(journal[accounted + 1].pnl_net)
  /\ accounted' = accounted + 1
  /\ UNCHANGED <<execVars, firstId>>

\* Mutant of Restart: the new process restores its positions and not its counts.
RestartKeepingBook ==
  /\ MayRestart
  /\ Risk!Restart
  /\ call' = Exec!NoCall
  /\ accounted' = Len(journal)
  /\ firstId' = nextId
  /\ UNCHANGED <<pending, open, journal, nextId, bars, lastTick>>

\* The process dies and starts again.  The journal is in SQLite and survives;
\* the risk manager and the position book are in memory and start empty.
\* (The position numbers start at 1 again; they are in no journal row, and
\* nextId goes on here so that the history stays readable.)
Restart ==
  /\ MayRestart
  /\ Risk!Restart
  /\ pending' = <<>>
  /\ open' = <<>>
  /\ call' = Exec!NoCall
  /\ accounted' = Len(journal)
  /\ firstId' = nextId
  /\ UNCHANGED <<journal, nextId, bars, lastTick>>

Next ==
  \/ Advance
  \/ \E b \in BOOLEAN : SetKillSwitch(b)
  \/ \E s \in Signals : RejectSignal(s)
  \/ \E s \in Signals, i \in Instruments : EnterTrade(s, i)
  \/ \E i \in Instruments, p \in Prices : BarOpen(i, p)
  \/ \E i \in Instruments, p \in Prices : PriceUpdate(i, p)
  \/ VisitPosition
  \/ \E id \in Exec!OrderIds, p \in Prices : SessionClose(id, p)
  \/ ReportClose
  \/ Restart

Spec == Init /\ [][Next]_vars

-----------------------------------------------------------------------------
(* Properties.                                                             *)

\* The orders and positions the executor holds.
Exposure == Cardinality(DOMAIN pending \cup DOMAIN open)

\* The orders whose close the risk manager has been told of.
Reported == {journal[k].id : k \in 1..accounted}

\* The two components agree: the slots the risk manager counts are the orders
\* of this process that have not been reported closed.  An order whose close was
\* lost by the store keeps its slot until the process ends
\* (risk_manager.py:138, 143; paper_executor.py:90-125).
SlotsMatchBook ==
  openPositions = Cardinality({id \in firstId..(nextId - 1) : id \notin Reported})

\* With a failing store and with restarts, the orders and positions at the
\* executor still never exceed max_open_positions: a lost trade keeps its slot
\* and a restart empties both sides (risk_manager.py:100-104,
\* paper_executor.py:90-125).
ExposureWithinLimit == Exposure <= MaxOpenPositions

Terms(order) == <<order.direction, order.stop_loss, order.target>>

\* The inputs that make a trade, and those of them that make it on thin evidence.
Traded == {inputs \in Inputs : Direction(inputs.scores) # "NO_TRADE"}
Unfounded == {inputs \in Traded : ~RestsOnConfluence(inputs.scores)}

Requested == {Terms(SignalFor(inputs)) : inputs \in Traded}
RequestedThinly == {Terms(SignalFor(inputs)) : inputs \in Unfounded}
OnEvidence(order) == Terms(order) \in Requested \ RequestedThinly

\* Every order and position the executor holds was asked for, with the stop and
\* the target it still has, and on the evidence of several factors: no few of
\* them alone would have asked for it, more evidence for it would not have called
\* it off, and the opposite evidence would have reversed it
\* (signal_engine.py:12-19, signal_config.py:30-32).
OrdersRestOnConfluence ==
  /\ \A id \in DOMAIN pending : OnEvidence(pending[id])
  /\ \A id \in DOMAIN open : OnEvidence(open[id])

=============================================================================
