----------------------------- MODULE RiskManager -----------------------------
(***************************************************************************)
(* engine/risk_manager.py: the gate every signal passes before an order    *)
(* may be submitted.  The manager keeps one record of daily counters, a    *)
(* count of open positions that survives the day, and a kill switch.  Its  *)
(* caller evaluates a signal and, when it is approved, opens the trade and *)
(* records it; later it records the close with the net profit or loss.     *)
(*                                                                         *)
(* Time is a number of minutes since UTC midnight of day 0.  The counters  *)
(* roll over on the UTC date, the session window is in IST: the two clocks *)
(* are kept apart (IstOffset) because the code keeps them apart.           *)
(***************************************************************************)
EXTENDS Integers, Sequences, FiniteSets, FiniteSetsExt

CONSTANTS
  MaxDailyLoss, MaxTradesPerDay, MaxOpenPositions,   \* RiskConfig
  CooldownAfter, CooldownDuration,
  RiskBudget,      \* account_capital * max_risk_per_trade_pct / 100
  DayLength,       \* minutes in a day
  IstOffset,       \* IST is this many minutes ahead of UTC
  SessionStart, SessionEnd,   \* minutes of the IST day, both inclusive
  TradingDays,     \* IST days the calendar opens
  Signals,         \* the signals a caller may present
  LotSizes,        \* the lot sizes of the instruments
  Pnls,            \* the net results a closed trade may report
  MaxTime          \* bound on the clock

ASSUME LimitsAssumption ==
  /\ MaxDailyLoss \in Nat
  /\ MaxTradesPerDay \in Nat
  /\ MaxOpenPositions \in Nat
  /\ CooldownAfter \in Nat \ {0}
  /\ CooldownDuration \in Nat
  /\ RiskBudget \in Nat

\* The configured window lies inside one IST day and, because it starts after
\* the offset, inside one UTC day: 09:20 IST is 03:50 UTC.
ASSUME ClockAssumption ==
  /\ DayLength \in Nat \ {0}
  /\ IstOffset \in 0..(DayLength - 1)
  /\ SessionStart \in IstOffset..(DayLength - 1)
  /\ SessionEnd \in SessionStart..(DayLength - 1)
  /\ MaxTime \in Nat

ASSUME InputsAssumption ==
  /\ \A s \in Signals :
       /\ s.direction \in {"BUY", "SELL", "NO_TRADE"}
       /\ s.entry \in Int
       /\ s.stop_loss \in Int
  /\ LotSizes \subseteq Nat \ {0}
  /\ Pnls \subseteq Int

VARIABLES
  now,            \* the clock the caller passes as `now`
  daily,          \* _DailyState
  openPositions,  \* _open_positions
  killSwitch,     \* _kill_switch
  live,           \* the caller's trades: opened by this process, not yet closed
  opens,          \* history: every trade opened, oldest first
  closes          \* history: every close recorded, oldest first

managed == <<daily, openPositions, killSwitch>>
vars == <<now, daily, openPositions, killSwitch, live, opens, closes>>

-----------------------------------------------------------------------------
(* Time.                                                                   *)

UtcDay(t) == t \div DayLength
IstDay(t) == (t + IstOffset) \div DayLength
IstMinute(t) == (t + IstOffset) % DayLength

\* The two session checks of evaluate: the configured window, then the calendar.
InSession(t) ==
  /\ SessionStart <= IstMinute(t)
  /\ IstMinute(t) <= SessionEnd
  /\ IstDay(t) \in TradingDays

-----------------------------------------------------------------------------
(* The daily record and how each operation changes it.                     *)

NoDay == -1         \* date.min: no day has been seen yet
NoCooldown == 0     \* cooldown_until is None: a time never in the future
Missing == -1       \* an entry or a stop that is None

DailyState ==
  [trading_day : Int, realized_pnl : Int, trades_opened : Nat,
   consecutive_losses : Nat, cooldown_until : Int]

FreshDay(day) ==
  [trading_day |-> day, realized_pnl |-> 0, trades_opened |-> 0,
   consecutive_losses |-> 0, cooldown_until |-> NoCooldown]

\* Mutant of Rolled: the date is never compared, each call starts afresh.
RolledAlways(d, t) == FreshDay(UtcDay(t))

\* _maybe_roll_day: another UTC date than the stored one starts a fresh record.
Rolled(d, t) == IF d.trading_day = UtcDay(t) THEN d ELSE FreshDay(UtcDay(t))

\* record_trade_opened
Opened(d, t) == [Rolled(d, t) EXCEPT !.trades_opened = @ + 1]

\* Mutant of LossesAfter: a win takes one loss off the streak.
LossesAfterSigned(d, pnl) ==
  IF pnl < 0 THEN d.consecutive_losses + 1 ELSE d.consecutive_losses - 1

\* Mutant of LossesAfter: the streak restarts at every close.
LossesAfterForgetful(d, pnl) == IF pnl < 0 THEN 1 ELSE 0

LossesAfter(d, pnl) == IF pnl < 0 THEN d.consecutive_losses + 1 ELSE 0

\* Mutant of Closed: the day is not rolled before the result is booked.
ClosedUnrolled(d, pnl, t) ==
  [d EXCEPT !.realized_pnl = @ + pnl,
            !.consecutive_losses = LossesAfter(d, pnl),
            !.cooldown_until =
              IF LossesAfter(d, pnl) >= CooldownAfter
              THEN t + CooldownDuration ELSE @]

\* record_trade_closed: book the result, count the streak, and when the streak
\* is long enough start a cooldown from this close.
Closed(d, pnl, t) ==
  LET r == Rolled(d, t)
      losses == LossesAfter(r, pnl)
  IN [r EXCEPT !.realized_pnl = @ + pnl,
               !.consecutive_losses = losses,
               !.cooldown_until =
                 IF losses >= CooldownAfter THEN t + CooldownDuration ELSE @]

-----------------------------------------------------------------------------
(* Evaluation.                                                             *)

Distance(a, b) == IF a >= b THEN a - b ELSE b - a
PerShareRisk(s) == Distance(s.entry, s.stop_loss)

\* Mutant of SizedQuantity: the lot count is rounded up.
SizedQuantityRoundedUp(risk, lot) == ((RiskBudget \div (risk * lot)) + 1) * lot

\* int(raw_qty // lot_size) * lot_size with raw_qty = risk_amount / risk.
SizedQuantity(risk, lot) == (RiskBudget \div (risk * lot)) * lot

\* Mutant of WithinLimits: the trade limit is compared with <=.
WithinLimitsOffByOne(d) ==
  /\ d.realized_pnl > -MaxDailyLoss
  /\ d.trades_opened <= MaxTradesPerDay
  /\ openPositions < MaxOpenPositions
  /\ now >= d.cooldown_until

\* The limits of evaluate, in its order: daily loss, trades, open, cooldown.
WithinLimits(d) ==
  /\ d.realized_pnl > -MaxDailyLoss
  /\ d.trades_opened < MaxTradesPerDay
  /\ openPositions < MaxOpenPositions
  /\ now >= d.cooldown_until

\* A signal whose stop distance fits at least one lot into the risk budget.
Sizable(s, lot) ==
  /\ s.entry # Missing
  /\ s.stop_loss # Missing
  /\ PerShareRisk(s) > 0
  /\ SizedQuantity(PerShareRisk(s), lot) >= lot

\* evaluate approves: no rule rejects.  The order of the rules decides only
\* which reason is reported.
Approves(s, lot) ==
  /\ s.direction # "NO_TRADE"
  /\ ~killSwitch
  /\ InSession(now)
  /\ WithinLimits(Rolled(daily, now))
  /\ Sizable(s, lot)

-----------------------------------------------------------------------------
Init ==
  /\ now = 0
  /\ daily = FreshDay(NoDay)
  /\ openPositions = 0
  /\ killSwitch = FALSE
  /\ live = 0
  /\ opens = <<>>
  /\ closes = <<>>

\* The clock of the host only moves forward.
Tick ==
  /\ now < MaxTime
  /\ now' = now + 1
  /\ UNCHANGED <<daily, openPositions, killSwitch, live, opens, closes>>

SetKillSwitch(enabled) ==
  /\ killSwitch' = enabled
  /\ UNCHANGED <<now, daily, openPositions, live, opens, closes>>

\* evaluate with any verdict, and no order after it: only the day may roll.
Evaluate ==
  /\ daily' = Rolled(daily, now)
  /\ UNCHANGED <<now, openPositions, killSwitch, live, opens, closes>>

RecordTradeOpened(s, lot) ==
  /\ daily' = Opened(daily, now)
  /\ openPositions' = openPositions + 1
  /\ live' = live + 1
  /\ opens' = Append(opens,
       [at |-> now, risk |-> PerShareRisk(s), lot |-> lot,
        quantity |-> SizedQuantity(PerShareRisk(s), lot)])
  /\ UNCHANGED <<now, killSwitch, closes>>

\* The caller's sequence for an approved signal: evaluate, then
\* record_trade_opened, with the same `now`.
OpenTrade(s, lot) ==
  /\ Approves(s, lot)
  /\ RecordTradeOpened(s, lot)

\* Mutant of RecordTradeClosed: the slot of the closed trade is freed twice.
RecordTradeClosedTwice(pnl) ==
  /\ daily' = Closed(daily, pnl, now)
  /\ openPositions' = IF openPositions > 1 THEN openPositions - 2 ELSE 0
  /\ live' = live - 1
  /\ closes' = Append(closes, [at |-> now, pnl |-> pnl])
  /\ UNCHANGED <<now, killSwitch, opens>>

RecordTradeClosed(pnl) ==
  /\ daily' = Closed(daily, pnl, now)
  /\ openPositions' = IF openPositions > 0 THEN openPositions - 1 ELSE 0
  /\ live' = live - 1
  /\ closes' = Append(closes, [at |-> now, pnl |-> pnl])
  /\ UNCHANGED <<now, killSwitch, opens>>

\* A caller closes only a trade it has opened.
CloseTrade(pnl) ==
  /\ live > 0
  /\ RecordTradeClosed(pnl)

Next ==
  \/ Tick
  \/ \E b \in BOOLEAN : SetKillSwitch(b)
  \/ Evaluate
  \/ \E s \in Signals, lot \in LotSizes : OpenTrade(s, lot)
  \/ \E pnl \in Pnls : CloseTrade(pnl)

Spec == Init /\ [][Next]_vars

\* Nothing of the manager or of its caller's trades is stored: a restarted
\* process builds a new manager and starts with no trade.
Restart ==
  /\ daily' = FreshDay(NoDay)
  /\ openPositions' = 0
  /\ killSwitch' = FALSE
  /\ live' = 0
  /\ UNCHANGED <<now, opens, closes>>

-----------------------------------------------------------------------------
(* What the history says of a day.                                         *)

OpensOn(day) == {i \in 1..Len(opens) : IstDay(opens[i].at) = day}
ClosesOn(day) == {i \in 1..Len(closes) : UtcDay(closes[i].at) = day}

\* The net result of the day over its first n recorded closes.
ResultAfter(day, n) ==
  SumFunction([i \in {j \in ClosesOn(day) : j <= n} |-> closes[i].pnl])

\* The i-th close ended a run of CooldownAfter losing closes of one day.
LossStreak(i) ==
  /\ i >= CooldownAfter
  /\ \A j \in (i - CooldownAfter + 1)..i :
       /\ closes[j].pnl < 0
       /\ UtcDay(closes[j].at) = UtcDay(closes[i].at)

\* Some streak of today is less than CooldownDuration old.
CoolingDown(t) ==
  \E i \in 1..Len(closes) :
    /\ LossStreak(i)
    /\ UtcDay(t) = UtcDay(closes[i].at)
    /\ t < closes[i].at + CooldownDuration

-----------------------------------------------------------------------------
(* Properties.                                                             *)

OpenRecord == [at : Nat, risk : Nat, lot : Nat, quantity : Int]
CloseRecord == [at : Nat, pnl : Int]

\* The state has its shape: counters are never negative.
TypeOK ==
  /\ now \in Nat
  /\ daily \in DailyState
  /\ openPositions \in Nat
  /\ killSwitch \in BOOLEAN
  /\ live \in Nat
  /\ opens \in Seq(OpenRecord)
  /\ closes \in Seq(CloseRecord)

\* No IST trading day ever sees more than MaxTradesPerDay trades opened, although
\* the counter that enforces it rolls over on the UTC date
\* (risk_manager.py:57-61, 94-98).
TradesPerDayBounded ==
  \A i \in 1..Len(opens) :
    Cardinality(OpensOn(IstDay(opens[i].at))) <= MaxTradesPerDay

\* The slot count the manager keeps is the number of trades its caller really
\* holds, so that number never exceeds MaxOpenPositions, over midnights too
\* (risk_manager.py:100-104, 138, 143).
SlotsMatchLiveTrades ==
  /\ openPositions = live
  /\ live <= MaxOpenPositions

\* The daily counters are the totals of the closes booked and the trades
\* opened on the day they stand for: no late close is booked on a past day and
\* no roll-over loses a result (risk_manager.py:57-61, 137, 142).
CountersMatchHistory ==
  LET day == daily.trading_day
  IN /\ daily.realized_pnl = ResultAfter(day, Len(closes))
     /\ daily.trades_opened =
          Cardinality({i \in 1..Len(opens) : UtcDay(opens[i].at) = day})

\* Every trade is sized to the largest whole number of lots, at least one, whose
\* loss at the stop fits the per-trade risk budget (risk_manager.py:116-132).
SizedToBudget ==
  \A i \in 1..Len(opens) :
    LET o == opens[i]
    IN /\ o.quantity >= o.lot
       /\ o.quantity % o.lot = 0
       /\ o.quantity * o.risk <= RiskBudget
       /\ (o.quantity + o.lot) * o.risk > RiskBudget

\* No trade is opened within CooldownDuration of a close that completed a run
\* of CooldownAfter losses the same day, whatever closed since: a win resets the
\* streak and not the cooldown (risk_manager.py:106, 145-151).
CooldownRespected ==
  [][opens' # opens => ~CoolingDown(now)]_vars

\* No trade is opened while the day's booked result is at or below the daily
\* loss limit (risk_manager.py:88-92).
NoOpenBeyondDailyLoss ==
  [][opens' # opens => ResultAfter(UtcDay(now), Len(closes)) > -MaxDailyLoss]_vars

=============================================================================
