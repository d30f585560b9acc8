-------------------------- MODULE RiskManagerProofs --------------------------
(***************************************************************************)
(* The risk manager's guarantees for every limit, clock and input.         *)
(***************************************************************************)
EXTENDS RiskManager, ArithmeticLemmas, FiniteSetTheorems, TLAPS

-----------------------------------------------------------------------------
(* Division.                                                               *)

\* A whole number of lots leaves no remainder.
LEMMA LotsDivide ==
  ASSUME NEW q \in Nat, NEW lot \in Nat \ {0}
  PROVE  (q * lot) % lot = 0
<1> DEFINE a == lot * q
<1>1. a \in Int /\ a = q * lot
  OBVIOUS
<1> HIDE DEF a
<1>2. a \div lot = q
  BY <1>1, DivUnique
<1>3. a % lot \in 0..(lot - 1) /\ a = (lot * (a \div lot)) + (a % lot)
  BY <1>1, DivMod, Zenon
<1>4. a % lot \in Int /\ lot * q \in Int
  BY <1>3
<1>5. a = (lot * q) + (a % lot)
  BY <1>2, <1>3
<1>6. a % lot = 0
  BY <1>1, <1>4, <1>5 DEF a
<1> QED BY <1>1, <1>6

\* The largest number of lots whose risk fits a budget.
LEMMA LargestLots ==
  ASSUME NEW budget \in Nat, NEW risk \in Nat \ {0}, NEW lot \in Nat \ {0}
  PROVE  LET quantity == (budget \div (risk * lot)) * lot
         IN  /\ quantity \in Nat
             /\ quantity % lot = 0
             /\ quantity * risk <= budget
             /\ (quantity + lot) * risk > budget
<1> DEFINE d == risk * lot
           q == budget \div d
<1>1. d \in Nat \ {0}
  OBVIOUS
<1>2. q \in Int /\ d * q <= budget /\ budget < d * q + d
  <2> HIDE DEF d
  <2>1. /\ q \in Int
        /\ budget % d \in 0..(d - 1)
        /\ budget = (d * q) + (budget % d)
    BY <1>1, DivMod
  <2> HIDE DEF q
  <2> QED BY <1>1, <2>1
<1>3. q \in Nat
  <2>1. ~(q + 1 <= 0)
    <3> SUFFICES ASSUME q + 1 <= 0 PROVE FALSE
      OBVIOUS
    <3> HIDE DEF d, q
    <3>1. d * (q + 1) <= d * 0 /\ d * 0 = 0
      BY <1>1, <1>2, TimesMonotone
    <3>2. d * (q + 1) = d * q + d
      BY <1>1, <1>2, TimesSucc
    <3> QED BY <1>1, <1>2, <3>1, <3>2
  <2> QED BY <1>2, <2>1
<1>4. (q * lot) * risk = d * q /\ (q * lot + lot) * risk = d * q + d
  <2> HIDE DEF q
  <2> QED BY <1>3 DEF d
<1>5. (q * lot) % lot = 0 /\ q * lot \in Nat
  <2> HIDE DEF q
  <2> QED BY <1>3, LotsDivide
<1> QED BY <1>2, <1>4, <1>5

\* In the session window the UTC date and the IST date are the same: the window
\* starts later than IST is ahead (risk_manager.py:58, 79-86).
LEMMA SessionInsideUtcDay ==
  ASSUME NEW t \in Nat, InSession(t), ClockAssumption
  PROVE  UtcDay(t) = IstDay(t)
<1> DEFINE q == (t + IstOffset) \div DayLength
           m == (t + IstOffset) % DayLength
<1>1. /\ DayLength \in Nat \ {0} /\ IstOffset \in Nat
      /\ SessionStart \in Int /\ IstOffset <= SessionStart
      /\ t + IstOffset \in Int
  BY DEF ClockAssumption
<1>2. /\ q \in Int
      /\ m \in 0..(DayLength - 1)
      /\ t + IstOffset = (DayLength * q) + m
  BY <1>1, DivMod
<1>3. SessionStart <= m
  BY DEF InSession, IstMinute
<1> HIDE DEF q, m
<1>4. DayLength * q \in Int
  BY <1>1, <1>2
<1>5. DayLength * q <= t /\ t < DayLength * q + DayLength
  BY <1>1, <1>2, <1>3, <1>4
<1>6. t \div DayLength = q
  BY <1>1, <1>2, <1>5, DivUnique
<1> QED BY <1>6 DEF UtcDay, IstDay, q

-----------------------------------------------------------------------------
(* The day's result, for any history of closes.                            *)

DayCloses(c, day) == {i \in 1..Len(c) : UtcDay(c[i].at) = day}
DayResult(c, day) == SumFunction([i \in DayCloses(c, day) |-> c[i].pnl])

LEMMA DayClosesFinite ==
  ASSUME NEW c \in Seq(CloseRecord), NEW day
  PROVE  /\ IsFiniteSet(DayCloses(c, day))
         /\ \A i \in DayCloses(c, day) : c[i].pnl \in Int
<1>1. Len(c) \in Nat /\ \A i \in 1..Len(c) : c[i] \in CloseRecord
  OBVIOUS
<1>2. IsFiniteSet(1..Len(c))
  BY <1>1, FS_Interval
<1>3. DayCloses(c, day) \in SUBSET (1..Len(c))
  BY DEF DayCloses
<1> QED BY <1>1, <1>2, <1>3, FS_Subset DEF CloseRecord

\* A history without a close on a day has no result for it.
LEMMA NoCloseNoResult ==
  ASSUME NEW c, NEW day, DayCloses(c, day) = {}
  PROVE  DayResult(c, day) = 0
BY SumOfNone DEF DayResult, SumFunction

\* One more close adds its result to its own day and to no other.
LEMMA ResultAdds ==
  ASSUME NEW c \in Seq(CloseRecord), NEW x \in CloseRecord, NEW day
  PROVE  /\ DayResult(c, day) \in Int
         /\ DayResult(Append(c, x), day) =
              IF UtcDay(x.at) = day THEN DayResult(c, day) + x.pnl ELSE DayResult(c, day)
<1> DEFINE m == Len(c)
           d == Append(c, x)
           before == DayCloses(c, day)
           after == DayCloses(d, day)
           f == [i \in before |-> c[i].pnl]
           g == [i \in after |-> d[i].pnl]
<1>1. /\ m \in Nat /\ Len(d) = m + 1 /\ d[m + 1] = x
      /\ \A i \in 1..m : d[i] = c[i]
      /\ d \in Seq(CloseRecord)
  OBVIOUS
<1>2. /\ IsFiniteSet(before) /\ IsFiniteSet(after)
      /\ \A i \in before : f[i] \in Int
      /\ \A i \in after : g[i] \in Int
  BY <1>1, DayClosesFinite
<1>3. /\ DayResult(c, day) = SumFunctionOnSet(f, before)
      /\ DayResult(d, day) = SumFunctionOnSet(g, after)
  BY DEF DayResult, SumFunction
<1>4. before \subseteq after /\ m + 1 \notin before /\ \A i \in before : f[i] = g[i]
  BY <1>1 DEF DayCloses
<1>5. after = IF UtcDay(x.at) = day THEN before \cup {m + 1} ELSE before
  BY <1>1 DEF DayCloses
<1>6. m + 1 \in after => g[m + 1] = x.pnl
  BY <1>1
<1> HIDE DEF f, g, before, after
<1>7. SumFunctionOnSet(f, before) = SumFunctionOnSet(g, before)
  BY <1>2, <1>4, SumsAgree
<1>8. SumFunctionOnSet(f, before) \in Int
  BY <1>2, SumIsInt
<1>9. DayResult(c, day) \in Int
  BY <1>3, <1>8
<1>10. CASE UtcDay(x.at) = day
  <2>1. m + 1 \in after /\ after \ {m + 1} = before
    BY <1>4, <1>5, <1>10
  <2>2. SumFunctionOnSet(g, after) = g[m + 1] + SumFunctionOnSet(g, after \ {m + 1})
    BY <1>2, <2>1, SumTakesOut
  <2>3. x.pnl \in Int
    BY DEF CloseRecord
  <2>4. DayResult(d, day) = DayResult(c, day) + x.pnl
    <3>1. SumFunctionOnSet(g, after) = x.pnl + SumFunctionOnSet(f, before)
      BY <1>6, <1>7, <2>1, <2>2
    <3>2. DayResult(d, day) = x.pnl + DayResult(c, day)
      BY <1>3, <3>1
    <3> HIDE DEF d
    <3> QED BY <1>9, <2>3, <3>2
  <2> QED BY <1>9, <1>10, <2>4
<1>11. CASE UtcDay(x.at) # day
  BY <1>3, <1>5, <1>7, <1>9, <1>11
<1> QED BY <1>10, <1>11

\* What the history says of a day is the result of its closes.
LEMMA ResultIsDayResult ==
  ASSUME TypeOK, NEW day
  PROVE  ResultAfter(day, Len(closes)) = DayResult(closes, day)
<1>1. Len(closes) \in Nat
  BY DEF TypeOK
<1>2. {j \in ClosesOn(day) : j <= Len(closes)} = DayCloses(closes, day)
  BY <1>1 DEF ClosesOn, DayCloses
<1> QED BY <1>2 DEF ResultAfter, DayResult

-----------------------------------------------------------------------------
(* The inductive invariant.  A day's counters bound the day's trades only   *)
(* because no trade is dated after the record's day, so that a new day     *)
(* starts with none; the cooldown covers a streak only because the streak  *)
(* counter is exactly the run of losses at the end of the history; and the *)
(* loss limit stops a day only because the result booked is the sum of the *)
(* day's closes.                                                           *)

UtcOpens(day) == {i \in 1..Len(opens) : UtcDay(opens[i].at) = day}

\* No trade is dated after the day of record d, and that day is not ahead.
DatedUpTo(d) ==
  /\ d.trading_day <= UtcDay(now)
  /\ \A i \in 1..Len(opens) : UtcDay(opens[i].at) <= d.trading_day
  /\ \A i \in 1..Len(closes) : UtcDay(closes[i].at) <= d.trading_day

OpensCounted(d) == Cardinality(UtcOpens(d.trading_day)) = d.trades_opened

LosingOn(i, day) == closes[i].pnl < 0 /\ UtcDay(closes[i].at) = day

\* The streak counter is the length of the run of losses the history ends with.
StreakCounted(d) ==
  LET m == Len(closes)
      c == d.consecutive_losses
  IN /\ c <= m
     /\ \A j \in (m - c + 1)..m : LosingOn(j, d.trading_day)
     /\ c < m => ~LosingOn(m - c, d.trading_day)

\* The booked result is the total of the day's closes.
ResultCounted(d) == d.realized_pnl = ResultAfter(d.trading_day, Len(closes))

\* Every streak of the record's day is covered by its cooldown.
StreaksCovered(d) ==
  \A i \in 1..Len(closes) :
    LossStreak(i) /\ UtcDay(closes[i].at) = d.trading_day
      => closes[i].at + CooldownDuration <= d.cooldown_until

RecordOK(d) ==
  /\ d \in DailyState
  /\ DatedUpTo(d)
  /\ OpensCounted(d)
  /\ StreakCounted(d)
  /\ StreaksCovered(d)
  /\ ResultCounted(d)

ClosesInThePast == \A i \in 1..Len(closes) : closes[i].at <= now

OpensInSession == \A i \in 1..Len(opens) : InSession(opens[i].at)

UtcDaysBounded ==
  \A i \in 1..Len(opens) :
    Cardinality(UtcOpens(UtcDay(opens[i].at))) <= MaxTradesPerDay

IInv ==
  /\ TypeOK
  /\ SlotsMatchLiveTrades
  /\ SizedToBudget
  /\ ClosesInThePast
  /\ OpensInSession
  /\ UtcDaysBounded
  /\ RecordOK(daily)

-----------------------------------------------------------------------------
(* Facts about single states.                                              *)

\* The day a time belongs to.
LEMMA UtcDayType ==
  ASSUME NEW t \in Nat
  PROVE  UtcDay(t) \in Int
<1>1. DayLength \in Nat \ {0} /\ t \in Int
  BY ClockAssumption DEF ClockAssumption
<1> QED BY <1>1, DivMod DEF UtcDay

LEMMA UtcDayMonotone ==
  ASSUME NEW s \in Nat, NEW t \in Nat, s <= t
  PROVE  UtcDay(s) <= UtcDay(t)
<1>1. DayLength \in Nat \ {0} /\ s \in Int /\ t \in Int
  BY ClockAssumption DEF ClockAssumption
<1> QED BY <1>1, DivMonotone DEF UtcDay

\* Days are counted from the UTC midnight the clock starts at.
LEMMA UtcDayNatural ==
  ASSUME NEW t \in Nat
  PROVE  0 <= UtcDay(t)
<1>1. DayLength \in Nat \ {0} /\ t \in Int /\ 0 \in Int /\ 0 <= t
  BY ClockAssumption DEF ClockAssumption
<1>2. 0 \div DayLength = 0
  <2>1. DayLength * 0 <= 0 /\ 0 < DayLength * 0 + DayLength
    BY <1>1
  <2> QED BY <1>1, <2>1, DivUnique
<1>3. 0 \div DayLength <= t \div DayLength
  BY <1>1, DivMonotone
<1> QED BY <1>2, <1>3 DEF UtcDay

\* Every entry of the two histories has a time, and a day.
LEMMA HistoryTypes ==
  ASSUME TypeOK
  PROVE  /\ \A i \in 1..Len(opens) :
              opens[i] \in OpenRecord /\ UtcDay(opens[i].at) \in Int
         /\ \A i \in 1..Len(closes) :
              closes[i] \in CloseRecord /\ UtcDay(closes[i].at) \in Int
<1>1. ASSUME NEW i \in 1..Len(opens)
      PROVE  opens[i] \in OpenRecord /\ UtcDay(opens[i].at) \in Int
  <2>1. opens[i] \in OpenRecord
    BY DEF TypeOK
  <2>2. opens[i].at \in Nat
    BY <2>1 DEF OpenRecord
  <2> QED BY <2>1, <2>2, UtcDayType
<1>2. ASSUME NEW i \in 1..Len(closes)
      PROVE  closes[i] \in CloseRecord /\ UtcDay(closes[i].at) \in Int
  <2>1. closes[i] \in CloseRecord
    BY DEF TypeOK
  <2>2. closes[i].at \in Nat
    BY <2>1 DEF CloseRecord
  <2> QED BY <2>1, <2>2, UtcDayType
<1> QED BY <1>1, <1>2

\* The trades of a day are finitely many.
LEMMA UtcOpensFinite ==
  ASSUME TypeOK, NEW day
  PROVE  IsFiniteSet(UtcOpens(day)) /\ Cardinality(UtcOpens(day)) \in Nat
<1>1. Len(opens) \in Nat
  BY DEF TypeOK
<1>2. IsFiniteSet(1..Len(opens))
  BY <1>1, FS_Interval
<1>3. UtcOpens(day) \subseteq 1..Len(opens)
  BY DEF UtcOpens
<1>4. IsFiniteSet(UtcOpens(day))
  BY <1>2, <1>3, FS_Subset
<1> QED BY <1>4, FS_CardinalityType

\* Rolling the day over gives a record of today that history agrees with: today
\* has no trade and no close yet (risk_manager.py:57-61).
LEMMA RollKeepsRecord ==
  ASSUME TypeOK, RecordOK(daily)
  PROVE  /\ RecordOK(Rolled(daily, now))
         /\ Rolled(daily, now).trading_day = UtcDay(now)
<1> DEFINE r == Rolled(daily, now)
           today == UtcDay(now)
<1>1. now \in Nat /\ today \in Int
  BY UtcDayType DEF TypeOK
<1>2. CASE daily.trading_day = today
  BY <1>2 DEF Rolled
<1>3. CASE daily.trading_day # today
  <2>1. r = FreshDay(today)
    BY <1>3 DEF Rolled
  <2>2. /\ r \in DailyState
        /\ r.trading_day = today
        /\ r.trades_opened = 0
        /\ r.consecutive_losses = 0
    BY <1>1, <2>1 DEF FreshDay, DailyState, NoCooldown
  <2>3. daily.trading_day < today
    BY <1>1, <1>3 DEF RecordOK, DatedUpTo, DailyState
  <2> HIDE DEF r
  <2>4. /\ \A i \in 1..Len(opens) : UtcDay(opens[i].at) < today
        /\ \A i \in 1..Len(closes) : UtcDay(closes[i].at) < today
    <3>1. daily.trading_day \in Int
      BY DEF RecordOK, DailyState
    <3>2. /\ \A i \in 1..Len(opens) : UtcDay(opens[i].at) <= daily.trading_day
          /\ \A i \in 1..Len(closes) : UtcDay(closes[i].at) <= daily.trading_day
      BY DEF RecordOK, DatedUpTo
    <3>3. /\ \A i \in 1..Len(opens) : UtcDay(opens[i].at) \in Int
          /\ \A i \in 1..Len(closes) : UtcDay(closes[i].at) \in Int
      BY HistoryTypes
    <3> HIDE DEF today
    <3> QED BY <1>1, <2>3, <3>1, <3>2, <3>3
  <2>5. \A i \in 1..Len(closes) : UtcDay(closes[i].at) # today
    BY <1>1, <2>4
  <2>6. DatedUpTo(r)
    BY <1>1, <2>2, <2>4, HistoryTypes DEF DatedUpTo
  <2>7. OpensCounted(r)
    <3>1. \A i \in 1..Len(opens) : UtcDay(opens[i].at) # today
      BY <1>1, <2>4
    <3>2. UtcOpens(today) = {}
      BY <3>1 DEF UtcOpens
    <3> QED BY <2>2, <3>2, FS_EmptySet DEF OpensCounted
  <2>8. StreakCounted(r)
    <3>1. Len(closes) \in Nat
      BY DEF TypeOK
    <3> QED BY <2>2, <2>5, <3>1 DEF StreakCounted, LosingOn
  <2>9. StreaksCovered(r)
    BY <2>2, <2>5 DEF StreaksCovered
  <2>10. ResultCounted(r)
    <3>1. DayCloses(closes, today) = {}
      BY <2>5 DEF DayCloses
    <3>2. ResultAfter(today, Len(closes)) = 0
      BY <3>1, NoCloseNoResult, ResultIsDayResult
    <3>3. r.realized_pnl = 0
      BY <2>1 DEF FreshDay
    <3> QED BY <2>2, <3>2, <3>3 DEF ResultCounted
  <2> QED BY <2>2, <2>6, <2>7, <2>8, <2>9, <2>10 DEF RecordOK, r
<1> QED BY <1>2, <1>3

-----------------------------------------------------------------------------
(* The initial state.                                                      *)

LEMMA InitIInv == Init => IInv
<1> SUFFICES ASSUME Init PROVE IInv
  OBVIOUS
<1>1. opens = <<>> /\ closes = <<>> /\ Len(opens) = 0 /\ Len(closes) = 0
  BY DEF Init
<1>2. daily \in DailyState /\ daily.trading_day = -1
  BY DEF Init, FreshDay, DailyState, NoDay, NoCooldown
<1>3. TypeOK
  <2>1. opens \in Seq(OpenRecord) /\ closes \in Seq(CloseRecord)
    BY <1>1
  <2>2. now \in Nat /\ openPositions \in Nat /\ live \in Nat /\ killSwitch \in BOOLEAN
    BY DEF Init
  <2> QED BY <1>2, <2>1, <2>2 DEF TypeOK
<1>4. SlotsMatchLiveTrades
  BY LimitsAssumption DEF Init, SlotsMatchLiveTrades, LimitsAssumption
<1>5. SizedToBudget /\ ClosesInThePast /\ OpensInSession /\ UtcDaysBounded
  BY <1>1 DEF SizedToBudget, ClosesInThePast, OpensInSession, UtcDaysBounded
<1>6. DatedUpTo(daily)
  <2>1. 0 <= UtcDay(now) /\ UtcDay(now) \in Int
    BY UtcDayNatural, UtcDayType DEF Init
  <2> QED BY <1>1, <1>2, <2>1 DEF DatedUpTo
<1>7. OpensCounted(daily)
  <2>1. UtcOpens(daily.trading_day) = {}
    BY <1>1 DEF UtcOpens
  <2> QED BY <2>1, FS_EmptySet DEF OpensCounted, Init, FreshDay
<1>8. StreakCounted(daily) /\ StreaksCovered(daily)
  BY <1>1 DEF StreakCounted, StreaksCovered, Init, FreshDay
<1>9. ResultCounted(daily)
  <2>1. DayCloses(closes, daily.trading_day) = {}
    BY <1>1 DEF DayCloses
  <2> QED BY <1>3, <2>1, NoCloseNoResult, ResultIsDayResult DEF ResultCounted, Init, FreshDay
<1> QED BY <1>2, <1>3, <1>4, <1>5, <1>6, <1>7, <1>8, <1>9 DEF IInv, RecordOK

-----------------------------------------------------------------------------
(* The steps that open and close no trade.                                 *)

\* Nothing the invariant says of a record depends on how far today is, as long as
\* the day does not go back.
LEMMA TickStep ==
  ASSUME IInv, Tick
  PROVE  IInv'
<1>1. /\ now \in Nat /\ now' = now + 1
      /\ UNCHANGED <<daily, openPositions, killSwitch, live, opens, closes>>
  BY DEF Tick, IInv, TypeOK
<1>2. TypeOK' /\ SlotsMatchLiveTrades' /\ SizedToBudget'
  BY <1>1 DEF IInv, TypeOK, SlotsMatchLiveTrades, SizedToBudget
<1>3. OpensInSession' /\ UtcDaysBounded'
  BY <1>1 DEF IInv, OpensInSession, UtcDaysBounded, UtcOpens
<1>4. DatedUpTo(daily)'
  <2>1. /\ UtcDay(now) <= UtcDay(now + 1)
        /\ UtcDay(now) \in Int /\ UtcDay(now + 1) \in Int
    BY <1>1, UtcDayMonotone, UtcDayType
  <2>2. daily.trading_day \in Int /\ daily.trading_day <= UtcDay(now)
    BY DEF IInv, RecordOK, DailyState, DatedUpTo
  <2>3. daily.trading_day <= UtcDay(now + 1)
    BY <2>1, <2>2
  <2> QED BY <1>1, <2>3 DEF IInv, RecordOK, DatedUpTo
<1>5. OpensCounted(daily)' /\ StreakCounted(daily)' /\ StreaksCovered(daily)'
      /\ ResultCounted(daily)'
  BY <1>1 DEF IInv, RecordOK, OpensCounted, UtcOpens, StreakCounted, LosingOn,
     StreaksCovered, LossStreak, ResultCounted, ResultAfter, ClosesOn
<1>6. daily' \in DailyState
  BY <1>1 DEF IInv, TypeOK
<1>7. ClosesInThePast'
  <2>1. \A i \in 1..Len(closes) : closes[i].at \in Nat
    BY HistoryTypes DEF IInv, CloseRecord
  <2> QED BY <1>1, <2>1 DEF IInv, ClosesInThePast
<1> QED BY <1>2, <1>3, <1>4, <1>5, <1>6, <1>7 DEF IInv, RecordOK

\* What a record says of the history is the same while clock and history are.
LEMMA RecordUnchanged ==
  ASSUME RecordOK(daily'), UNCHANGED <<now, opens, closes>>
  PROVE  RecordOK(daily)'
BY DEF RecordOK, DatedUpTo, OpensCounted, UtcOpens, StreakCounted, LosingOn,
   StreaksCovered, LossStreak, ResultCounted, ResultAfter, ClosesOn

LEMMA SetKillSwitchStep ==
  ASSUME IInv, NEW b \in BOOLEAN, SetKillSwitch(b)
  PROVE  IInv'
<1>1. UNCHANGED <<now, daily, openPositions, live, opens, closes>> /\ killSwitch' \in BOOLEAN
  BY DEF SetKillSwitch
<1>2. TypeOK' /\ SlotsMatchLiveTrades' /\ SizedToBudget'
  BY <1>1 DEF IInv, TypeOK, SlotsMatchLiveTrades, SizedToBudget
<1>3. ClosesInThePast' /\ OpensInSession' /\ UtcDaysBounded'
  BY <1>1 DEF IInv, ClosesInThePast, OpensInSession, UtcDaysBounded, UtcOpens
<1>4. RecordOK(daily)'
  BY <1>1, RecordUnchanged DEF IInv
<1> QED BY <1>2, <1>3, <1>4 DEF IInv

LEMMA EvaluateStep ==
  ASSUME IInv, Evaluate
  PROVE  IInv'
<1>1. UNCHANGED <<now, openPositions, killSwitch, live, opens, closes>>
      /\ daily' = Rolled(daily, now)
  BY DEF Evaluate
<1>2. RecordOK(Rolled(daily, now))
  BY RollKeepsRecord DEF IInv
<1>3. RecordOK(daily)'
  BY <1>1, <1>2, RecordUnchanged
<1>4. TypeOK' /\ SlotsMatchLiveTrades' /\ SizedToBudget'
  BY <1>1, <1>2 DEF IInv, TypeOK, SlotsMatchLiveTrades, SizedToBudget, RecordOK
<1>5. ClosesInThePast' /\ OpensInSession' /\ UtcDaysBounded'
  BY <1>1 DEF IInv, ClosesInThePast, OpensInSession, UtcDaysBounded, UtcOpens
<1> QED BY <1>3, <1>4, <1>5 DEF IInv

-----------------------------------------------------------------------------
(* Opening a trade.                                                        *)

\* The record of an approved signal's trade.
OpenedTrade(s, lot) ==
  [at |-> now, risk |-> PerShareRisk(s), lot |-> lot,
   quantity |-> SizedQuantity(PerShareRisk(s), lot)]

\* An approved trade is sized to the budget (risk_manager.py:116-132).
LEMMA ApprovedIsSized ==
  ASSUME TypeOK, NEW s \in Signals, NEW lot \in LotSizes, Approves(s, lot)
  PROVE  LET o == OpenedTrade(s, lot)
         IN  /\ o \in OpenRecord
             /\ o.at = now
             /\ o.quantity >= o.lot
             /\ o.quantity % o.lot = 0
             /\ o.quantity * o.risk <= RiskBudget
             /\ (o.quantity + o.lot) * o.risk > RiskBudget
<1> DEFINE risk == PerShareRisk(s)
           quantity == SizedQuantity(risk, lot)
<1>1. risk \in Nat \ {0} /\ lot \in Nat \ {0} /\ RiskBudget \in Nat /\ now \in Nat
  BY InputsAssumption, LimitsAssumption
     DEF Approves, Sizable, PerShareRisk, Distance, InputsAssumption, LimitsAssumption, TypeOK
<1>2. quantity >= lot
  BY DEF Approves, Sizable
<1> HIDE DEF risk
<1>3. /\ quantity \in Nat
      /\ quantity % lot = 0
      /\ quantity * risk <= RiskBudget
      /\ (quantity + lot) * risk > RiskBudget
  BY <1>1, LargestLots DEF SizedQuantity
<1> HIDE DEF quantity
<1>4. OpenedTrade(s, lot) = [at |-> now, risk |-> risk, lot |-> lot, quantity |-> quantity]
  BY DEF OpenedTrade, risk, quantity
<1>5. OpenedTrade(s, lot) \in OpenRecord
  BY <1>1, <1>3, <1>4 DEF OpenRecord
<1> QED BY <1>2, <1>3, <1>4, <1>5

\* The new trade is one more of today, and none of another day.
LEMMA OneMoreToday ==
  ASSUME TypeOK, NEW today, today = UtcDay(now),
         NEW o \in OpenRecord, o.at = now, opens' = Append(opens, o)
  PROVE  /\ Cardinality(UtcOpens(today)') = Cardinality(UtcOpens(today)) + 1
         /\ \A day : day # today => UtcOpens(day)' = UtcOpens(day)
<1> DEFINE n == Len(opens)
<1>1. /\ n \in Nat /\ Len(opens') = n + 1
      /\ opens'[n + 1] = o
      /\ \A i \in 1..n : opens'[i] = opens[i]
  BY DEF TypeOK
<1>2. UtcDay(opens'[n + 1].at) = today
  BY <1>1
<1>3. UtcOpens(today)' = UtcOpens(today) \cup {n + 1}
  BY <1>1, <1>2 DEF UtcOpens, UtcDay
<1>4. n + 1 \notin UtcOpens(today)
  BY <1>1 DEF UtcOpens
<1>5. Cardinality(UtcOpens(today) \cup {n + 1}) = Cardinality(UtcOpens(today)) + 1
  BY <1>4, UtcOpensFinite, FS_AddElement
<1>6. ASSUME NEW day, day # today
      PROVE  UtcOpens(day)' = UtcOpens(day)
  BY <1>1, <1>2, <1>6 DEF UtcOpens, UtcDay
<1> QED BY <1>3, <1>5, <1>6

LEMMA OpenTradeStep ==
  ASSUME IInv, NEW s \in Signals, NEW lot \in LotSizes, OpenTrade(s, lot)
  PROVE  IInv'
<1> DEFINE o == OpenedTrade(s, lot)
           r == Rolled(daily, now)
           n == Len(opens)
<1>1. TypeOK /\ SlotsMatchLiveTrades /\ Approves(s, lot) /\ WithinLimits(r) /\ InSession(now)
  BY DEF IInv, OpenTrade, Approves
<1>2. /\ daily' = [r EXCEPT !.trades_opened = @ + 1]
      /\ openPositions' = openPositions + 1
      /\ live' = live + 1
      /\ opens' = Append(opens, o)
      /\ UNCHANGED <<now, killSwitch, closes>>
  BY DEF OpenTrade, RecordTradeOpened, Opened, OpenedTrade
<1>3. /\ o \in OpenRecord /\ o.at = now
      /\ o.quantity >= o.lot
      /\ o.quantity % o.lot = 0
      /\ o.quantity * o.risk <= RiskBudget
      /\ (o.quantity + o.lot) * o.risk > RiskBudget
  BY <1>1, ApprovedIsSized
<1>4. RecordOK(r) /\ r.trading_day = UtcDay(now)
  BY RollKeepsRecord DEF IInv
<1> HIDE DEF o, r
<1>5. /\ n \in Nat /\ Len(opens') = n + 1
      /\ opens'[n + 1] = o
      /\ \A i \in 1..n : opens'[i] = opens[i]
  BY <1>1, <1>2, <1>3 DEF TypeOK
<1>6. /\ daily' \in DailyState
      /\ daily'.trading_day = r.trading_day
      /\ daily'.trades_opened = r.trades_opened + 1
      /\ daily'.consecutive_losses = r.consecutive_losses
      /\ daily'.cooldown_until = r.cooldown_until
  BY <1>2, <1>4 DEF RecordOK, DailyState
<1>7. TypeOK'
  BY <1>1, <1>2, <1>3, <1>6 DEF TypeOK
<1>8. SlotsMatchLiveTrades'
  BY <1>1, <1>2, LimitsAssumption
     DEF SlotsMatchLiveTrades, WithinLimits, TypeOK, LimitsAssumption
<1>9. SizedToBudget'
  BY <1>3, <1>5 DEF IInv, SizedToBudget
<1>10. OpensInSession'
  BY <1>1, <1>3, <1>5 DEF IInv, OpensInSession, InSession, IstMinute, IstDay
<1>11. PICK today : today = UtcDay(now)
  OBVIOUS
<1>12. /\ Cardinality(UtcOpens(today)') = Cardinality(UtcOpens(today)) + 1
       /\ \A day : day # today => UtcOpens(day)' = UtcOpens(day)
  BY <1>1, <1>2, <1>3, <1>11, OneMoreToday
<1>13. /\ Cardinality(UtcOpens(today)) = r.trades_opened
       /\ Cardinality(UtcOpens(today)') = daily'.trades_opened
       /\ daily'.trades_opened <= MaxTradesPerDay
  BY <1>1, <1>4, <1>6, <1>11, <1>12, LimitsAssumption
     DEF RecordOK, OpensCounted, WithinLimits, DailyState, LimitsAssumption
<1>14. UtcDaysBounded'
  <2> SUFFICES ASSUME NEW i \in 1..(n + 1), NEW day, day = UtcDay(opens'[i].at)
               PROVE  Cardinality(UtcOpens(day)') <= MaxTradesPerDay
    BY <1>5 DEF UtcDaysBounded, UtcOpens, UtcDay
  <2>1. CASE day = today
    BY <1>13, <2>1
  <2>2. CASE day # today
    <3>1. i \in 1..n /\ opens'[i] = opens[i]
      BY <1>3, <1>5, <1>11, <2>2
    <3>2. UtcOpens(day)' = UtcOpens(day)
      BY <1>12, <2>2
    <3> QED BY <3>1, <3>2 DEF IInv, UtcDaysBounded
  <2> QED BY <2>1, <2>2
<1>15. DatedUpTo(daily)'
  BY <1>2, <1>3, <1>4, <1>5, <1>6 DEF RecordOK, DatedUpTo, UtcDay
<1>16. OpensCounted(daily)'
  BY <1>4, <1>6, <1>11, <1>13 DEF OpensCounted, UtcOpens, UtcDay
<1>17. StreakCounted(daily)' /\ StreaksCovered(daily)'
  BY <1>2, <1>4, <1>6 DEF RecordOK, StreakCounted, LosingOn, StreaksCovered, LossStreak, UtcDay
<1>18. ClosesInThePast'
  BY <1>2 DEF IInv, ClosesInThePast
<1>19. ResultCounted(daily)'
  <2>1. daily'.realized_pnl = r.realized_pnl
    BY <1>2, <1>4 DEF RecordOK, DailyState
  <2> QED BY <1>2, <1>4, <1>6, <2>1 DEF RecordOK, ResultCounted, ResultAfter, ClosesOn, UtcDay
<1> QED BY <1>6, <1>7, <1>8, <1>9, <1>10, <1>14, <1>15, <1>16, <1>17, <1>18, <1>19
        DEF IInv, RecordOK

-----------------------------------------------------------------------------
(* Closing a trade.                                                        *)

\* The streak counter after a close, and the streaks its cooldown covers
\* (risk_manager.py:142-155).
LEMMA CloseCountsStreak ==
  ASSUME TypeOK, ClosesInThePast, NEW pnl \in Int, NEW today, today = UtcDay(now),
         NEW r, RecordOK(r), r.trading_day = today,
         closes' = Append(closes, [at |-> now, pnl |-> pnl]), now' = now,
         NEW losses, losses = LossesAfter(r, pnl),
         NEW e, e \in DailyState,
         e.trading_day = r.trading_day,
         e.consecutive_losses = losses,
         e.cooldown_until = IF losses >= CooldownAfter THEN now + CooldownDuration
                                                       ELSE r.cooldown_until
  PROVE  StreakCounted(e)' /\ StreaksCovered(e)'
<1> DEFINE m == Len(closes)
           c == r.consecutive_losses
<1>1. /\ m \in Nat /\ Len(closes') = m + 1
      /\ closes'[m + 1].at = now /\ closes'[m + 1].pnl = pnl
      /\ \A i \in 1..m : closes'[i] = closes[i]
      /\ now \in Nat
  BY DEF TypeOK, CloseRecord
<1>2. /\ c \in Nat /\ c <= m
      /\ \A j \in (m - c + 1)..m : LosingOn(j, today)
      /\ c < m => ~LosingOn(m - c, today)
      /\ r.cooldown_until \in Int
  BY DEF RecordOK, StreakCounted, DailyState
<1>3. /\ CooldownAfter \in Nat \ {0} /\ CooldownDuration \in Nat
  BY LimitsAssumption DEF LimitsAssumption
<1>4. losses = IF pnl < 0 THEN c + 1 ELSE 0
  BY DEF LossesAfter
<1> DEFINE Losing(i) == closes'[i].pnl < 0 /\ UtcDay(closes'[i].at) = today
<1>5. /\ \A i \in 1..m : Losing(i) <=> LosingOn(i, today)
      /\ Losing(m + 1) <=> pnl < 0
      /\ \A i : LosingOn(i, today)' <=> Losing(i)
  BY <1>1 DEF LosingOn, UtcDay
<1>6. /\ losses \in Nat /\ losses <= m + 1
      /\ \A j \in (m + 1 - losses + 1)..(m + 1) : Losing(j)
      /\ losses < m + 1 => ~Losing(m + 1 - losses)
  <2>1. CASE pnl < 0
    <3>1. losses = c + 1 /\ m + 1 - losses = m - c
      BY <1>1, <1>2, <1>4, <2>1
    <3> HIDE DEF Losing, m, c
    <3>2. ASSUME NEW j \in (m - c + 1)..(m + 1)
          PROVE  Losing(j)
      <4>1. CASE j = m + 1
        BY <1>5, <2>1, <4>1
      <4>2. CASE j # m + 1
        <5>1. j \in 1..m /\ j \in (m - c + 1)..m
          BY <1>1, <1>2, <4>2
        <5> QED BY <1>2, <1>5, <5>1
      <4> QED BY <4>1, <4>2
    <3>3. c < m => ~Losing(m - c)
      <4>1. c < m => m - c \in 1..m
        BY <1>1, <1>2
      <4> QED BY <1>2, <1>5, <4>1
    <3> QED BY <1>1, <1>2, <3>1, <3>2, <3>3
  <2>2. CASE ~(pnl < 0)
    <3>1. losses = 0 /\ m + 1 - losses = m + 1
      BY <1>1, <1>4, <2>2
    <3> HIDE DEF Losing, m
    <3>2. ~Losing(m + 1)
      BY <1>5, <2>2
    <3> QED BY <1>1, <3>1, <3>2
  <2> QED BY <2>1, <2>2
<1>7. StreakCounted(e)'
  <2> HIDE DEF Losing
  <2>1. Len(closes)' = m + 1
    BY <1>1
  <2> QED BY <1>5, <1>6, <2>1 DEF StreakCounted
<1>8. ASSUME NEW i \in 1..(m + 1),
             i >= CooldownAfter,
             \A j \in (i - CooldownAfter + 1)..i :
               closes'[j].pnl < 0 /\ UtcDay(closes'[j].at) = UtcDay(closes'[i].at),
             UtcDay(closes'[i].at) = today
      PROVE  closes'[i].at + CooldownDuration <= e.cooldown_until
  <2>1. CASE i = m + 1
    <3>1. \A j \in (m + 1 - CooldownAfter + 1)..(m + 1) : Losing(j)
      <4> TAKE j \in (m + 1 - CooldownAfter + 1)..(m + 1)
      <4>1. j \in (i - CooldownAfter + 1)..i
        BY <1>1, <1>3, <2>1
      <4>2. closes'[j].pnl < 0 /\ UtcDay(closes'[j].at) = today
        BY <1>8, <4>1
      <4> QED BY <4>2
    <3> HIDE DEF Losing
    <3>2. ~(losses < CooldownAfter)
      <4> SUFFICES ASSUME losses < CooldownAfter PROVE FALSE
        OBVIOUS
      <4>1. losses < m + 1 /\ m + 1 - losses \in (m + 1 - CooldownAfter + 1)..(m + 1)
        BY <1>1, <1>3, <1>6, <1>8, <2>1
      <4> QED BY <1>6, <3>1, <4>1
    <3>3. e.cooldown_until = now + CooldownDuration
      BY <1>3, <1>6, <3>2
    <3> QED BY <1>1, <1>3, <2>1, <3>3
  <2>2. CASE i \in 1..m
    <3>1. closes'[i] = closes[i] /\ closes[i].at \in Nat
      BY <1>1, <2>2, HistoryTypes DEF CloseRecord
    <3>2. LossStreak(i) /\ UtcDay(closes[i].at) = today
      BY <1>1, <1>3, <1>8, <2>2, <3>1 DEF LossStreak
    <3>3. closes[i].at + CooldownDuration <= r.cooldown_until
      BY <2>2, <3>2 DEF RecordOK, StreaksCovered
    <3>4. CASE losses >= CooldownAfter
      <4>1. closes[i].at <= now
        BY <2>2, <3>1 DEF ClosesInThePast
      <4> QED BY <1>1, <1>3, <3>1, <3>4, <4>1
    <3>5. CASE ~(losses >= CooldownAfter)
      BY <3>1, <3>3, <3>5
    <3> QED BY <3>4, <3>5
  <2> QED BY <1>1, <2>1, <2>2
<1>9. StreaksCovered(e)'
  BY <1>1, <1>8 DEF StreaksCovered, LossStreak, UtcDay
<1> QED BY <1>7, <1>9

LEMMA CloseTradeStep ==
  ASSUME IInv, NEW pnl \in Pnls, CloseTrade(pnl)
  PROVE  IInv'
<1> DEFINE r == Rolled(daily, now)
           m == Len(closes)
<1>1. /\ TypeOK /\ SlotsMatchLiveTrades /\ ClosesInThePast
      /\ pnl \in Int /\ live > 0
      /\ LimitsAssumption
  BY InputsAssumption, LimitsAssumption DEF IInv, CloseTrade, InputsAssumption
<1>2. /\ daily' = Closed(daily, pnl, now)
      /\ openPositions' = IF openPositions > 0 THEN openPositions - 1 ELSE 0
      /\ live' = live - 1
      /\ closes' = Append(closes, [at |-> now, pnl |-> pnl])
      /\ UNCHANGED <<now, killSwitch, opens>>
  BY DEF CloseTrade, RecordTradeClosed
<1>3. RecordOK(r) /\ r.trading_day = UtcDay(now)
  BY <1>1, RollKeepsRecord DEF IInv
<1>4. r \in DailyState /\ now \in Nat /\ m \in Nat
  BY <1>1, <1>3 DEF RecordOK, TypeOK
<1>5. PICK losses : losses = LossesAfter(r, pnl)
  OBVIOUS
<1>6. losses \in Nat
  BY <1>1, <1>4, <1>5 DEF LossesAfter, DailyState
<1>7. daily' = [r EXCEPT !.realized_pnl = @ + pnl,
                         !.consecutive_losses = losses,
                         !.cooldown_until =
                           IF losses >= CooldownAfter THEN now + CooldownDuration ELSE @]
  BY <1>2, <1>5 DEF Closed
<1> HIDE DEF r
<1>8. /\ daily' \in DailyState
      /\ daily'.trading_day = r.trading_day
      /\ daily'.trades_opened = r.trades_opened
      /\ daily'.consecutive_losses = losses
      /\ daily'.cooldown_until = IF losses >= CooldownAfter THEN now + CooldownDuration
                                                            ELSE r.cooldown_until
  <2> DEFINE until == IF losses >= CooldownAfter THEN now + CooldownDuration
                                                ELSE r.cooldown_until
             result == r.realized_pnl + pnl
  <2>1. until \in Int /\ result \in Int
    BY <1>1, <1>4, <1>6 DEF DailyState, LimitsAssumption
  <2>2. daily' = [r EXCEPT !.realized_pnl = result,
                           !.consecutive_losses = losses,
                           !.cooldown_until = until]
    BY <1>7
  <2> HIDE DEF until, result
  <2>3. /\ daily' \in DailyState
        /\ daily'.trading_day = r.trading_day
        /\ daily'.trades_opened = r.trades_opened
        /\ daily'.consecutive_losses = losses
        /\ daily'.cooldown_until = until
    BY <1>4, <1>6, <2>1, <2>2 DEF DailyState
  <2> QED BY <2>3 DEF until
<1>9. /\ [at |-> now, pnl |-> pnl] \in CloseRecord
      /\ Len(closes') = m + 1
      /\ closes'[m + 1].at = now
      /\ \A i \in 1..m : closes'[i] = closes[i]
      /\ closes' \in Seq(CloseRecord)
  BY <1>1, <1>2, <1>4 DEF TypeOK, CloseRecord
<1>10. TypeOK'
  BY <1>1, <1>2, <1>8, <1>9 DEF TypeOK
<1>11. SlotsMatchLiveTrades'
  BY <1>1, <1>2 DEF SlotsMatchLiveTrades, TypeOK, LimitsAssumption
<1>12. SizedToBudget' /\ OpensInSession' /\ UtcDaysBounded'
  BY <1>2 DEF IInv, SizedToBudget, OpensInSession, UtcDaysBounded, UtcOpens
<1>13. ClosesInThePast'
  BY <1>1, <1>2, <1>4, <1>9 DEF ClosesInThePast
<1>14. DatedUpTo(daily)'
  <2>1. \A i \in 1..(m + 1) : UtcDay(closes'[i].at) <= r.trading_day
    <3>1. UtcDay(now) \in Int
      BY <1>4, UtcDayType
    <3> QED BY <1>3, <1>4, <1>9, <3>1 DEF RecordOK, DatedUpTo
  <2> QED BY <1>2, <1>3, <1>8, <1>9, <2>1 DEF RecordOK, DatedUpTo, UtcDay
<1>15. OpensCounted(daily)'
  BY <1>2, <1>3, <1>8 DEF RecordOK, OpensCounted, UtcOpens
<1>16. StreakCounted(daily)' /\ StreaksCovered(daily)'
  <2>1. PICK today : today = UtcDay(now)
    OBVIOUS
  <2>2. PICK e : e = daily'
    OBVIOUS
  <2>3. PICK q : q = r
    OBVIOUS
  <2>4. StreakCounted(e)' /\ StreaksCovered(e)'
    <3>1. now' = now
      BY <1>2
    <3>2. RecordOK(q) /\ q.trading_day = today /\ losses = LossesAfter(q, pnl)
      BY <1>3, <1>5, <2>1, <2>3 DEF r
    <3>3. /\ e \in DailyState
          /\ e.trading_day = q.trading_day
          /\ e.consecutive_losses = losses
          /\ e.cooldown_until = IF losses >= CooldownAfter THEN now + CooldownDuration
                                                            ELSE q.cooldown_until
      BY <1>8, <2>2, <2>3
    <3> QED BY <1>1, <1>2, <2>1, <3>1, <3>2, <3>3, CloseCountsStreak
  <2> QED BY <2>2, <2>4 DEF StreakCounted, StreaksCovered, LosingOn, LossStreak
<1>17. ResultCounted(daily)'
  <2>1. PICK c \in Seq(CloseRecord), x \in CloseRecord, today \in {UtcDay(now)} :
          c = closes /\ x = [at |-> now, pnl |-> pnl]
    BY <1>1, <1>9 DEF TypeOK
  <2>2. UtcDay(x.at) = today /\ x.pnl = pnl
    BY <2>1
  <2>3. DayResult(Append(c, x), today) = DayResult(c, today) + x.pnl
    BY <2>2, ResultAdds
  <2>4. r.realized_pnl = DayResult(c, today)
    BY <1>1, <1>3, <2>1, ResultIsDayResult DEF RecordOK, ResultCounted
  <2>5. daily'.realized_pnl = r.realized_pnl + pnl
    BY <1>4, <1>7 DEF DailyState
  <2>6. closes' = Append(c, x) /\ Len(closes') = Len(Append(c, x))
    BY <1>2, <2>1
  <2>7. ResultAfter(today, Len(closes))' = DayResult(Append(c, x), today)
    <3>1. Len(Append(c, x)) \in Nat
      BY <1>4, <1>9, <2>6
    <3>2. {j \in ClosesOn(today)' : j <= Len(closes')} = DayCloses(Append(c, x), today)
      BY <2>6, <3>1 DEF ClosesOn, DayCloses, UtcDay
    <3> QED BY <2>6, <3>2 DEF ResultAfter, DayResult
  <2>8. daily'.trading_day = today
    BY <1>3, <1>8, <2>1
  <2> QED BY <2>2, <2>3, <2>4, <2>5, <2>7, <2>8 DEF ResultCounted
<1> QED BY <1>8, <1>10, <1>11, <1>12, <1>13, <1>14, <1>15, <1>16, <1>17 DEF IInv, RecordOK

-----------------------------------------------------------------------------
(* The theorems.                                                           *)

LEMMA NextIInv == IInv /\ [Next]_vars => IInv'
<1> SUFFICES ASSUME IInv, [Next]_vars PROVE IInv'
  OBVIOUS
<1>1. CASE UNCHANGED vars
  <2>1. RecordOK(daily)'
    BY <1>1, RecordUnchanged DEF IInv, vars
  <2> QED BY <1>1, <2>1 DEF vars, IInv, TypeOK, SlotsMatchLiveTrades, SizedToBudget,
             ClosesInThePast, OpensInSession, UtcDaysBounded, UtcOpens
<1> QED BY <1>1, TickStep, SetKillSwitchStep, EvaluateStep, OpenTradeStep, CloseTradeStep
        DEF Next

LEMMA SpecIInv == Spec => []IInv
BY InitIInv, NextIInv, PTL DEF Spec

\* The manager's state and its history keep their shape.
THEOREM ManagerTypeOK == Spec => []TypeOK
<1>1. IInv => TypeOK
  BY DEF IInv
<1> QED BY SpecIInv, <1>1, PTL

\* The slots counted are the trades held, and never more than the limit
\* (risk_manager.py:100-104, 138, 143).
THEOREM SlotsAreExact == Spec => []SlotsMatchLiveTrades
<1>1. IInv => SlotsMatchLiveTrades
  BY DEF IInv
<1> QED BY SpecIInv, <1>1, PTL

\* Every trade is the largest whole number of lots the budget allows
\* (risk_manager.py:116-132).
THEOREM SizesFitBudget == Spec => []SizedToBudget
<1>1. IInv => SizedToBudget
  BY DEF IInv
<1> QED BY SpecIInv, <1>1, PTL

\* No IST trading day sees more than MaxTradesPerDay trades: each is opened in the
\* session, whose minutes have one and the same UTC date (risk_manager.py:57-61,
\* 79-98).
THEOREM TradesPerDayAreBounded == Spec => []TradesPerDayBounded
<1>1. IInv => TradesPerDayBounded
  <2> SUFFICES ASSUME IInv, NEW i \in 1..Len(opens)
               PROVE  Cardinality(OpensOn(IstDay(opens[i].at))) <= MaxTradesPerDay
    BY DEF TradesPerDayBounded
  <2>1. \A j \in 1..Len(opens) : UtcDay(opens[j].at) = IstDay(opens[j].at)
    BY HistoryTypes, SessionInsideUtcDay, ClockAssumption
       DEF IInv, OpensInSession, OpenRecord
  <2>2. OpensOn(IstDay(opens[i].at)) = UtcOpens(UtcDay(opens[i].at))
    BY <2>1 DEF OpensOn, UtcOpens
  <2> QED BY <2>2 DEF IInv, UtcDaysBounded
<1> QED BY SpecIInv, <1>1, PTL

\* No trade is opened while a streak of the day is still cooling down
\* (risk_manager.py:106, 145-151).
THEOREM CooldownIsRespected == Spec => CooldownRespected
<1>1. IInv /\ [Next]_vars => [opens' # opens => ~CoolingDown(now)]_vars
  <2> SUFFICES ASSUME IInv, [Next]_vars, opens' # opens, CoolingDown(now)
               PROVE  FALSE
    OBVIOUS
  <2>1. PICK s \in Signals, lot \in LotSizes : OpenTrade(s, lot)
    BY DEF Next, Tick, SetKillSwitch, Evaluate, CloseTrade, RecordTradeClosed, vars
  <2>2. now >= Rolled(daily, now).cooldown_until
    BY <2>1 DEF OpenTrade, Approves, WithinLimits
  <2>3. PICK i \in 1..Len(closes) :
          /\ LossStreak(i)
          /\ UtcDay(now) = UtcDay(closes[i].at)
          /\ now < closes[i].at + CooldownDuration
    BY DEF CoolingDown
  <2>4. /\ RecordOK(Rolled(daily, now))
        /\ Rolled(daily, now).trading_day = UtcDay(now)
    BY RollKeepsRecord DEF IInv
  <2>5. closes[i].at + CooldownDuration <= Rolled(daily, now).cooldown_until
    BY <2>3, <2>4 DEF RecordOK, StreaksCovered
  <2>6. /\ now \in Nat /\ closes[i].at \in Nat /\ CooldownDuration \in Nat
        /\ Rolled(daily, now).cooldown_until \in Int
    BY <2>4, HistoryTypes, LimitsAssumption
       DEF IInv, TypeOK, CloseRecord, RecordOK, DailyState, LimitsAssumption
  <2> QED BY <2>2, <2>3, <2>5, <2>6
<1> QED BY SpecIInv, <1>1, PTL DEF Spec, CooldownRespected

\* The counters are the totals of the history of the day they stand for
\* (risk_manager.py:57-61, 137, 142).
THEOREM CountersAreTotals == Spec => []CountersMatchHistory
<1>1. IInv => CountersMatchHistory
  BY DEF IInv, RecordOK, ResultCounted, OpensCounted, UtcOpens, CountersMatchHistory
<1> QED BY SpecIInv, <1>1, PTL

\* No trade is opened on a day whose closes have lost the daily limit
\* (risk_manager.py:88-92).
THEOREM LossLimitIsRespected == Spec => NoOpenBeyondDailyLoss
<1>1. IInv /\ [Next]_vars
        => [opens' # opens => ResultAfter(UtcDay(now), Len(closes)) > -MaxDailyLoss]_vars
  <2> SUFFICES ASSUME IInv, [Next]_vars, opens' # opens
               PROVE  ResultAfter(UtcDay(now), Len(closes)) > -MaxDailyLoss
    OBVIOUS
  <2>1. PICK s \in Signals, lot \in LotSizes : OpenTrade(s, lot)
    BY DEF Next, Tick, SetKillSwitch, Evaluate, CloseTrade, RecordTradeClosed, vars
  <2>2. Rolled(daily, now).realized_pnl > -MaxDailyLoss
    BY <2>1 DEF OpenTrade, Approves, WithinLimits
  <2>3. /\ RecordOK(Rolled(daily, now))
        /\ Rolled(daily, now).trading_day = UtcDay(now)
    BY RollKeepsRecord DEF IInv
  <2> QED BY <2>2, <2>3 DEF RecordOK, ResultCounted
<1> QED BY SpecIInv, <1>1, PTL DEF Spec, NoOpenBeyondDailyLoss

=============================================================================
