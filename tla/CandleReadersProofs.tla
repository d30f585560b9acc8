------------------------- MODULE CandleReadersProofs -------------------------
(***************************************************************************)
(* What those conclude that read the candle table.                         *)
(*                                                                         *)
(* First the detectors, the resampling and the backtest, of a series that  *)
(* grows, for any bars, any settings and any length.  They keep no state,  *)
(* so the invariant is only that the series is one (SeriesInv); the work   *)
(* is in relating an answer to the one on a series a bar longer            *)
(* (OneLonger): both are the same recursion, or the same set of swings,    *)
(* over bars that agree but for the last.                                  *)
(* A detector that walks over the bars has an inductive invariant over     *)
(* them, in place of one over the steps of a behaviour: BreaksToldBy,      *)
(* BlocksOK and GapsKept.                                                  *)
(*                                                                         *)
(* Then the alert monitor, for any number of instruments, timeframes,      *)
(* chats, failures, migrations and restarts, and any writers of the candle *)
(* table that keep what CandleFeed promises.                               *)
(***************************************************************************)
EXTENDS Analysis, AlertPipeline, ArithmeticLemmas, SequenceTheorems, TLAPS

-----------------------------------------------------------------------------
(* The drawdown.                                                           *)

Equity(account, k) == IF k = 0 THEN 0 ELSE account.curve[k]

Points(account) == 0..Len(account.curve)

AccountType == [running : Int, peak : Int, curve : Seq(Int), drawdown : Int]

\* The peak is the highest point so far, the drawdown the worst fall so far.
PeakIsHighest(account) ==
  /\ \E p \in Points(account) : Equity(account, p) = account.peak
  /\ \A p \in Points(account) : Equity(account, p) <= account.peak

DrawdownIsWorst(account) ==
  /\ \E p, q \in Points(account) :
       p <= q /\ Equity(account, p) - Equity(account, q) = account.drawdown
  /\ \A p, q \in Points(account) :
       p <= q => Equity(account, p) - Equity(account, q) <= account.drawdown

Balanced(account) ==
  /\ account \in AccountType
  /\ account.running = Equity(account, Len(account.curve))
  /\ PeakIsHighest(account)
  /\ DrawdownIsWorst(account)

LEMMA NothingBalances == Balanced(Nothing)
<1>1. Nothing \in AccountType /\ Len(Nothing.curve) = 0
  BY DEF Nothing, AccountType
<1>2. \A p \in Points(Nothing) : p = 0
  BY <1>1 DEF Points
<1>3. 0 \in Points(Nothing)
  BY <1>1 DEF Points
<1>4. Equity(Nothing, 0) = 0
  BY DEF Equity
<1>5. Nothing.running = 0 /\ Nothing.peak = 0 /\ Nothing.drawdown = 0
  BY DEF Nothing
<1> QED
  BY <1>1, <1>2, <1>3, <1>4, <1>5 DEF Balanced, PeakIsHighest, DrawdownIsWorst

LEMMA AccountBalances ==
  ASSUME NEW account, Balanced(account), NEW trade, trade.pnl \in Int
  PROVE  Balanced(Account(account, trade))
<1> DEFINE after == Account(account, trade)
           n == Len(account.curve)
           running == account.running + trade.pnl
           peak == Max({account.peak, running})
           drawdown == Max({account.drawdown, peak - running})
<1>1. /\ account.running \in Int /\ account.peak \in Int /\ account.drawdown \in Int
      /\ account.curve \in Seq(Int)
      /\ n \in Nat
  BY DEF Balanced, AccountType
<1>2. /\ running \in Int
      /\ peak = IF account.peak >= running THEN account.peak ELSE running
      /\ peak \in Int
  <2>1. running \in Int
    BY <1>1
  <2> HIDE DEF running
  <2>2. peak = IF account.peak >= running THEN account.peak ELSE running
    BY <1>1, <2>1, MaxIsIf
  <2> QED BY <1>1, <2>1, <2>2
<1>3. /\ drawdown = IF account.drawdown >= peak - running THEN account.drawdown ELSE peak - running
      /\ drawdown \in Int
  <2> DEFINE fall == peak - running
  <2>1. fall \in Int
    BY <1>2
  <2>2. drawdown = Max({account.drawdown, fall})
    OBVIOUS
  <2> HIDE DEF fall, drawdown
  <2>3. drawdown = IF account.drawdown >= fall THEN account.drawdown ELSE fall
    BY <1>1, <2>1, <2>2, MaxIsIf
  <2> QED BY <1>1, <2>1, <2>3 DEF fall
<1>4. /\ after.running = running /\ after.peak = peak /\ after.drawdown = drawdown
      /\ after.curve = Append(account.curve, running)
      /\ after \in AccountType
  BY <1>1, <1>2, <1>3 DEF Account, AccountType
<1>5. Len(after.curve) = n + 1
  BY <1>1, <1>4, AppendProperties
<1>6. ASSUME NEW p \in Points(account)
      PROVE  p \in Points(after) /\ Equity(after, p) = Equity(account, p) /\ Equity(account, p) \in Int
  <2>1. p # 0 => p \in 1..n
    BY <1>1 DEF Points
  <2>2. p # 0 => after.curve[p] = account.curve[p] /\ account.curve[p] \in Int
    BY <1>1, <1>2, <1>4, <2>1, AppendProperties, ElementOfSeq
  <2> QED BY <1>1, <1>5, <2>2 DEF Points, Equity
<1>7. n + 1 \in Points(after) /\ Equity(after, n + 1) = running
  BY <1>1, <1>2, <1>4, <1>5, AppendProperties DEF Points, Equity
<1>8. \A p \in Points(after) : p = n + 1 \/ p \in Points(account)
  BY <1>1, <1>5 DEF Points
<1> HIDE DEF after, peak, running, drawdown
<1>9. after.running = Equity(after, Len(after.curve))
  BY <1>4, <1>5, <1>7
<1>10. PeakIsHighest(after)
  <2>1. \A p \in Points(after) : Equity(after, p) <= peak
    BY <1>1, <1>2, <1>6, <1>7, <1>8 DEF Balanced, PeakIsHighest
  <2>2. \E p \in Points(after) : Equity(after, p) = peak
    <3>1. CASE account.peak >= running
      BY <1>2, <1>6, <3>1 DEF Balanced, PeakIsHighest
    <3>2. CASE ~(account.peak >= running)
      BY <1>2, <1>7, <3>2
    <3> QED BY <3>1, <3>2
  <2> QED BY <1>4, <2>1, <2>2 DEF PeakIsHighest
<1>11. DrawdownIsWorst(after)
  <2>1. ASSUME NEW p \in Points(after), NEW q \in Points(after), p <= q
        PROVE  Equity(after, p) - Equity(after, q) <= drawdown
    <3>1. CASE q \in Points(account)
      <4>1. p \in Points(account)
        BY <1>1, <1>8, <2>1, <3>1 DEF Points
      <4>2. Equity(account, p) - Equity(account, q) <= account.drawdown
        BY <2>1, <3>1, <4>1 DEF Balanced, DrawdownIsWorst
      <4> QED BY <1>1, <1>2, <1>3, <1>6, <3>1, <4>1, <4>2
    <3>2. CASE q = n + 1
      <4>1. Equity(after, p) <= peak
        BY <1>4, <1>10 DEF PeakIsHighest
      <4>2. Equity(after, p) \in Int
        BY <1>2, <1>6, <1>7, <1>8
      <4>3. peak - running <= drawdown
        BY <1>1, <1>2, <1>3
      <4> QED BY <1>2, <1>3, <1>7, <3>2, <4>1, <4>2, <4>3
    <3> QED BY <1>8, <3>1, <3>2
  <2>2. \E p, q \in Points(after) : p <= q /\ Equity(after, p) - Equity(after, q) = drawdown
    <3>1. CASE account.drawdown >= peak - running
      <4>1. PICK p \in Points(account), q \in Points(account) :
              p <= q /\ Equity(account, p) - Equity(account, q) = account.drawdown
        BY DEF Balanced, DrawdownIsWorst
      <4> QED BY <1>3, <1>6, <3>1, <4>1
    <3>2. CASE ~(account.drawdown >= peak - running)
      <4>1. PICK p \in Points(after) : Equity(after, p) = peak
        BY <1>4, <1>10 DEF PeakIsHighest
      <4>2. p <= n + 1
        BY <1>1, <1>5 DEF Points
      <4> QED BY <1>3, <1>7, <3>2, <4>1, <4>2
    <3> QED BY <3>1, <3>2
  <2> QED BY <1>4, <2>1, <2>2 DEF DrawdownIsWorst
<1> QED BY <1>4, <1>9, <1>10, <1>11 DEF Balanced, after

\* The summary of trades with results that are numbers.
LEMMA SummaryBalances ==
  ASSUME NEW trades, Len(trades) \in Nat, \A k \in 1..Len(trades) : trades[k].pnl \in Int
  PROVE  Balanced(Summary(trades))
<1> DEFINE n == Len(trades)
           Accounts(f) == f = [k \in 0..n |-> IF k = 0 THEN Nothing ELSE Account(f[k - 1], trades[k])]
           account == CHOOSE f : Accounts(f)
           Legal == {a \in AccountType : Balanced(a)}
           step == [s \in (1..n) \X Legal |-> Account(s[2], trades[s[1]])]
<1>1. \E f : Accounts(f)
  <2>1. PICK f : IsWalk(f, n, Nothing, step)
    <3>1. n \in Nat
      OBVIOUS
    <3> HIDE DEF step, n
    <3> QED BY <3>1, WalkExists
  <2>2. \A k \in 0..n : k \in {j \in 0..n : f[j] \in Legal}
    <3>1. f[0] \in Legal
      <4>2. f[0] = Nothing
        <5> HIDE DEF step
        <5> QED BY <2>1 DEF IsWalk
      <4> QED BY <4>2, NothingBalances DEF Balanced
    <3>2. ASSUME NEW k \in 0..(n - 1), f[k] \in Legal PROVE f[k + 1] \in Legal
      <4>1. k + 1 \in 1..n /\ k + 1 \in 0..n /\ k + 1 # 0 /\ (k + 1) - 1 = k
        OBVIOUS
      <4>2. f[k + 1] = step[<<k + 1, f[k]>>]
        <5> HIDE DEF step
        <5> QED BY <2>1, <4>1 DEF IsWalk
      <4>3. step[<<k + 1, f[k]>>] = Account(f[k], trades[k + 1])
        BY <3>2, <4>1
      <4>4. Balanced(Account(f[k], trades[k + 1]))
        BY <3>2, <4>1, AccountBalances
      <4> QED BY <4>2, <4>3, <4>4 DEF Balanced
    <3> DEFINE S == {j \in 0..n : f[j] \in Legal}
    <3>3. 0 \in S
      BY <3>1
    <3>4. \A k \in 0..(n - 1) : k \in S => k + 1 \in S
      <4> HIDE DEF Legal
      <4> QED BY <3>2
    <3> HIDE DEF Legal, S
    <3>5. \A k \in 0..n : k \in S
      BY <3>3, <3>4, CountingUp
    <3> QED BY <3>5 DEF S
  <2>3. ASSUME NEW k \in 1..n PROVE step[<<k, f[k - 1]>>] = Account(f[k - 1], trades[k])
    <3>1. k - 1 \in 0..n
      OBVIOUS
    <3>2. f[k - 1] \in Legal
      BY <2>2, <3>1
    <3> QED BY <3>2
  <2> DEFINE g == [k \in 0..n |-> f[k]]
  <2>4. Accounts(g)
    <3>1. \A k \in 0..n : k # 0 => k \in 1..n
      OBVIOUS
    <3> HIDE DEF step, n
    <3>2. \A k \in 0..n : f[k] = IF k = 0 THEN Nothing ELSE Account(f[k - 1], trades[k])
      BY <2>1, <2>3, <3>1 DEF IsWalk
    <3>3. \A k \in 0..n : k # 0 => k - 1 \in 0..n
      BY DEF n
    <3>4. \A k \in 0..n : g[k] = IF k = 0 THEN Nothing ELSE Account(g[k - 1], trades[k])
      BY <3>2, <3>3
    <3> QED BY <3>4
  <2> QED BY <2>4
<1>2. Accounts(account)
  <2> HIDE DEF Accounts
  <2> QED BY <1>1
<1>3. Summary(trades) = account[n]
  BY DEF Summary
<1> HIDE DEF account
<1>4. Balanced(account[0])
  BY <1>2, NothingBalances
<1>5. ASSUME NEW k \in 0..(n - 1), Balanced(account[k]) PROVE Balanced(account[k + 1])
  <2>1. k + 1 \in 1..n /\ k + 1 \in 0..n /\ k + 1 # 0 /\ (k + 1) - 1 = k
    OBVIOUS
  <2>2. account[k + 1] = Account(account[k], trades[k + 1])
    BY <1>2, <2>1
  <2> QED BY <1>5, <2>1, <2>2, AccountBalances
<1> DEFINE S == {j \in 0..n : Balanced(account[j])}
<1>6. 0 \in S
  BY <1>4
<1>7. \A k \in 0..(n - 1) : k \in S => k + 1 \in S
  BY <1>5
<1>8. n \in S
  <2>1. n \in Nat /\ n \in 0..n
    OBVIOUS
  <2> HIDE DEF S, n
  <2> QED BY <1>6, <1>7, <2>1, CountingUp
<1> QED BY <1>3, <1>8

-----------------------------------------------------------------------------
(* The backtest's walk.                                                    *)

\* A series the market can have closed.
Series == {s \in Seq(Shapes) : Len(s) <= MaxBars}

Decisions(series) == {Strategy(View(series, i))[1] : i \in DOMAIN series}

TradesOn(series) ==
  {Trade(series, p[1], p[2], p[3], p[4], p[5]) :
     p \in (DOMAIN series) \X (DOMAIN series) \X Int \X Decisions(series)
             \X {"end_of_data", "stop_loss", "target"}}

\* The trades so far are one after the other, and all over by `until`.
OneByOne(walk) ==
  /\ \A k \in 1..Len(walk.trades) :
       walk.trades[k].entry <= walk.trades[k].exit /\ walk.trades[k].exit <= walk.until
  /\ \A k \in 1..(Len(walk.trades) - 1) : walk.trades[k].exit < walk.trades[k + 1].entry

WalksOver(series) ==
  {w \in [until : 0..Len(series), trades : Seq(TradesOn(series))] : OneByOne(w)}

NoTrades == [until |-> 0, trades |-> <<>>]

LEMMA SeriesType ==
  ASSUME NEW series \in Series
  PROVE  /\ series \in Seq(Shapes)
         /\ Len(series) \in 0..MaxBars
         /\ MaxBars \in Nat
         /\ DOMAIN series = 1..Len(series)
         /\ \A i \in 1..Len(series) :
              /\ series[i] \in Shapes
              /\ {series[i].open, series[i].high, series[i].low, series[i].close} \subseteq Int
<1>1. MaxBars \in Nat
  BY AnalysisAssumption DEF AnalysisAssumption
<1>2. series \in Seq(Shapes) /\ Len(series) \in 0..MaxBars
  BY <1>1, LenProperties DEF Series
<1>3. \A i \in 1..Len(series) : series[i] \in Shapes
  BY <1>2, ElementOfSeq
<1>4. \A s \in Shapes : {s.open, s.high, s.low, s.close} \subseteq Int
  BY AnalysisAssumption DEF AnalysisAssumption
<1>5. DOMAIN series = 1..Len(series)
  BY <1>2, LenProperties
<1> QED BY <1>1, <1>2, <1>3, <1>4, <1>5

LEMMA TradeFields ==
  ASSUME NEW series \in Series, NEW t \in TradesOn(series)
  PROVE  t.pnl \in Int /\ t.entry \in 1..Len(series) /\ t.exit \in 1..Len(series)
<1>1. PICK p \in (DOMAIN series) \X (DOMAIN series) \X Int \X Decisions(series)
                   \X {"end_of_data", "stop_loss", "target"} :
        t = Trade(series, p[1], p[2], p[3], p[4], p[5])
  BY DEF TradesOn
<1>2. p[1] \in 1..Len(series) /\ p[2] \in 1..Len(series) /\ p[3] \in Int
  BY SeriesType
<1>3. series[p[1]].open \in Int
  BY <1>2, SeriesType
<1>4. Sign(p[4].direction) \in {1, -1}
  BY DEF Sign
<1>5. /\ t.entry = p[1] /\ t.exit = p[2]
      /\ t.pnl = Sign(p[4].direction) * (p[3] - series[p[1]].open)
  BY <1>1 DEF Trade
<1>6. t.pnl \in Int
  BY <1>2, <1>3, <1>4, <1>5
<1> QED BY <1>2, <1>5, <1>6

\* What the strategy is handed is a series of its own.
LEMMA ViewType ==
  ASSUME NEW series \in Series, NEW i \in 1..Len(series)
  PROVE  View(series, i) \in [1..i -> Shapes] /\ i \in 1..MaxBars
<1>1. i \in 1..MaxBars
  BY SeriesType
<1>2. \A k \in 1..i : series[k] \in Shapes
  BY SeriesType
<1>3. View(series, i) = [k \in 1..i |-> series[k]]
  BY SeriesType DEF View
<1> QED BY <1>1, <1>2, <1>3

LEMMA DecisionType ==
  ASSUME NEW series \in Series, NEW i \in 1..Len(series), Strategy(View(series, i)) # <<>>
  PROVE  /\ Strategy(View(series, i))[1] \in Decisions(series)
         /\ Strategy(View(series, i))[1].stop \in Int
         /\ Strategy(View(series, i))[1].target \in Int
<1>1. View(series, i) \in [1..i -> Shapes] /\ i \in 1..MaxBars
  BY ViewType
<1>2. i \in DOMAIN series
  BY SeriesType
<1> QED BY <1>1, <1>2, StrategyAssumption DEF StrategyAssumption, Decisions

\* A simulated trade ends between its entry and the end of the series.
LEMMA SimulatedTrade ==
  ASSUME NEW series \in Series, NEW entry \in 1..Len(series), NEW d \in Decisions(series),
         d.stop \in Int, d.target \in Int
  PROVE  /\ SimulateTrade(series, entry, d) \in TradesOn(series)
         /\ SimulateTrade(series, entry, d).entry = entry
         /\ SimulateTrade(series, entry, d).exit \in entry..Len(series)
<1> DEFINE hits == {j \in entry..Len(series) : HitStop(series[j], d) \/ HitTarget(series[j], d)}
           n == Len(series)
           t == SimulateTrade(series, entry, d)
<1>1. n \in Nat /\ entry \in Nat /\ DOMAIN series = 1..n /\ n \in 1..n
  BY SeriesType
<1>2. ASSUME NEW x \in entry..n, NEW p \in Int, NEW r \in {"end_of_data", "stop_loss", "target"}
      PROVE  Trade(series, entry, x, p, d, r) \in TradesOn(series)
  <2>1. x \in DOMAIN series /\ entry \in DOMAIN series
    BY <1>1
  <2>2. <<entry, x, p, d, r>> \in (DOMAIN series) \X (DOMAIN series) \X Int \X Decisions(series)
                                     \X {"end_of_data", "stop_loss", "target"}
    BY <2>1
  <2> QED BY <2>2 DEF TradesOn
<1>3. hits # {} => Min(hits) \in entry..n
  <2>1. hits \in SUBSET Nat
    BY <1>1
  <2> HIDE DEF hits
  <2>2. hits # {} => Min(hits) \in hits
    BY <2>1, MinOfNaturals
  <2> QED BY <2>2 DEF hits
<1>4. series[n].close \in Int
  BY <1>1, SeriesType
<1>5. \/ t = Trade(series, entry, n, series[n].close, d, "end_of_data")
      \/ hits # {} /\ t = Trade(series, entry, Min(hits), d.stop, d, "stop_loss")
      \/ hits # {} /\ t = Trade(series, entry, Min(hits), d.target, d, "target")
  BY DEF SimulateTrade
<1>6. PICK x \in entry..n, p \in Int, r \in {"end_of_data", "stop_loss", "target"} :
        t = Trade(series, entry, x, p, d, r)
  <2> HIDE DEF hits, t
  <2> QED BY <1>1, <1>3, <1>4, <1>5
<1>7. t.entry = entry /\ t.exit = x
  BY <1>6 DEF Trade
<1> HIDE DEF t
<1>8. t \in TradesOn(series) /\ t.entry = entry /\ t.exit \in entry..n
  BY <1>2, <1>6, <1>7
<1> QED BY <1>8 DEF t

LEMMA WalkStepType ==
  ASSUME NEW series \in Series, NEW i \in 1..Len(series), NEW w \in WalksOver(series)
  PROVE  WalkStep(series, w, i) \in WalksOver(series)
<1> DEFINE n == Len(series)
           d == Strategy(View(series, i))[1]
           t == SimulateTrade(series, i + 1, d)
           after == [until |-> t.exit, trades |-> Append(w.trades, t)]
<1>1. CASE i <= w.until \/ i = n \/ Strategy(View(series, i)) = <<>>
  BY <1>1 DEF WalkStep
<1>2. CASE ~(i <= w.until \/ i = n \/ Strategy(View(series, i)) = <<>>)
  <2>1. WalkStep(series, w, i) = after
    BY <1>2 DEF WalkStep
  <2>2. /\ n \in Nat /\ i + 1 \in 1..n
        /\ w.until \in 0..n /\ w.trades \in Seq(TradesOn(series)) /\ OneByOne(w)
        /\ w.until < i + 1
    BY <1>2, SeriesType DEF WalksOver
  <2>3. d \in Decisions(series) /\ d.stop \in Int /\ d.target \in Int
    BY <1>2, DecisionType
  <2> HIDE DEF d
  <2>4. t \in TradesOn(series) /\ t.entry = i + 1 /\ t.exit \in (i + 1)..n
    BY <2>2, <2>3, SimulatedTrade
  <2> HIDE DEF t
  <2> DEFINE m == Len(w.trades)
  <2>5. /\ m \in Nat
        /\ after.trades \in Seq(TradesOn(series))
        /\ Len(after.trades) = m + 1
        /\ after.trades[m + 1] = t
        /\ \A k \in 1..m : after.trades[k] = w.trades[k]
    BY <2>2, <2>4, AppendProperties, LenProperties
  <2>6. after.until = t.exit
    OBVIOUS
  <2>7. \A k \in 1..m : w.trades[k].exit \in 1..n
    BY <2>2, <2>5, TradeFields, ElementOfSeq
  <2> HIDE DEF m, after
  <2>8. ASSUME NEW k \in 1..Len(after.trades)
        PROVE  after.trades[k].entry <= after.trades[k].exit /\ after.trades[k].exit <= after.until
    <3>1. CASE k = m + 1
      BY <2>2, <2>4, <2>5, <2>6, <3>1
    <3>2. CASE k # m + 1
      <4>1. k \in 1..m
        BY <2>5, <3>2
      <4>2. w.trades[k].entry <= w.trades[k].exit /\ w.trades[k].exit <= w.until
        BY <2>2, <4>1 DEF OneByOne, m
      <4>3. w.trades[k].exit <= t.exit
        BY <2>2, <2>4, <2>7, <4>1, <4>2
      <4> QED BY <2>5, <2>6, <4>1, <4>2, <4>3
    <3> QED BY <3>1, <3>2
  <2>9. ASSUME NEW k \in 1..(Len(after.trades) - 1)
        PROVE  after.trades[k].exit < after.trades[k + 1].entry
    <3>1. k \in 1..m
      BY <2>5
    <3>2. CASE k = m
      <4>1. w.trades[k].exit <= w.until
        BY <2>2, <3>1 DEF OneByOne, m
      <4>2. w.trades[k].exit <= i /\ w.trades[k].exit < i + 1
        BY <2>2, <2>7, <3>1, <4>1
      <4>3. after.trades[k] = w.trades[k] /\ after.trades[k + 1] = t
        BY <2>5, <3>1, <3>2
      <4> QED BY <2>4, <4>2, <4>3
    <3>3. CASE k # m
      <4>1. k \in 1..(m - 1) /\ k + 1 \in 1..m
        BY <2>5, <3>1, <3>3
      <4>2. w.trades[k].exit < w.trades[k + 1].entry
        BY <2>2, <4>1 DEF OneByOne, m
      <4> QED BY <2>5, <3>1, <4>1, <4>2
    <3> QED BY <3>2, <3>3
  <2>10. OneByOne(after)
    BY <2>8, <2>9 DEF OneByOne
  <2>11. after \in [until : 0..n, trades : Seq(TradesOn(series))]
    BY <2>2, <2>4, <2>5, <2>6 DEF after
  <2> QED BY <2>1, <2>10, <2>11 DEF WalksOver
<1> QED BY <1>1, <1>2

LEMMA NoTradesType ==
  ASSUME NEW series \in Series
  PROVE  NoTrades \in WalksOver(series)
<1>1. Len(series) \in Nat
  BY SeriesType
<1>2. NoTrades.trades = <<>> /\ NoTrades.until = 0
  BY DEF NoTrades
<1>3. OneByOne(NoTrades)
  BY <1>2 DEF OneByOne
<1> QED BY <1>1, <1>3 DEF NoTrades, WalksOver

\* f is the backtest's walk over a series.
BacktestOf(f, series) ==
  f = [i \in 0..Len(series) |-> IF i = 0 THEN NoTrades ELSE WalkStep(series, f[i - 1], i)]

LEMMA BacktestExists ==
  ASSUME NEW series \in Series
  PROVE  \E f : BacktestOf(f, series)
<1> DEFINE n == Len(series)
           Legal == WalksOver(series)
           step == [s \in (1..n) \X Legal |-> WalkStep(series, s[2], s[1])]
<1>1. n \in Nat
  BY SeriesType
<1> HIDE DEF n
<1>2. PICK f : IsWalk(f, n, NoTrades, step)
  <2> HIDE DEF step
  <2> QED BY <1>1, WalkExists
<1> DEFINE S == {j \in 0..n : f[j] \in Legal}
<1>3. 0 \in S
  <2> HIDE DEF step
  <2> QED BY <1>1, <1>2, NoTradesType DEF IsWalk
<1>4. ASSUME NEW k \in 1..n, f[k - 1] \in Legal
      PROVE  f[k] = WalkStep(series, f[k - 1], k) /\ f[k] \in Legal
  <2>1. f[k] = step[<<k, f[k - 1]>>]
    <3> HIDE DEF step
    <3> QED BY <1>2 DEF IsWalk
  <2>2. f[k] = WalkStep(series, f[k - 1], k)
    <3> HIDE DEF Legal
    <3> QED BY <1>4, <2>1
  <2> QED BY <1>4, <2>2, WalkStepType DEF n
<1>5. ASSUME NEW k \in 0..(n - 1), k \in S PROVE k + 1 \in S
  <2>1. k + 1 \in 1..n /\ k + 1 \in 0..n /\ (k + 1) - 1 = k
    BY <1>1
  <2> HIDE DEF Legal, step
  <2> QED BY <1>4, <1>5, <2>1
<1>6. \A k \in 0..n : f[k] \in Legal
  <2>1. \A k \in 0..n : k \in S
    <3> HIDE DEF S
    <3> QED BY <1>1, <1>3, <1>5, CountingUp
  <2> HIDE DEF Legal
  <2> QED BY <2>1
<1>7. \A k \in 1..n : f[k] = WalkStep(series, f[k - 1], k)
  <2>1. \A k \in 1..n : k - 1 \in 0..n
    BY <1>1
  <2> HIDE DEF Legal, step
  <2> QED BY <1>4, <1>6, <2>1
<1>8. f[0] = NoTrades
  BY <1>2 DEF IsWalk
<1> DEFINE g == [i \in 0..n |-> f[i]]
<1>9. \A i \in 0..n : g[i] = IF i = 0 THEN NoTrades ELSE WalkStep(series, g[i - 1], i)
  <2>1. \A i \in 0..n : i # 0 => i \in 1..n /\ i - 1 \in 0..n
    BY <1>1
  <2> QED BY <1>7, <1>8, <2>1
<1>10. g = [i \in 0..n |-> IF i = 0 THEN NoTrades ELSE WalkStep(series, g[i - 1], i)]
  BY <1>9
<1> HIDE DEF g
<1> QED BY <1>10 DEF BacktestOf, n

\* The trades of a backtest are those its walk has made at the last bar.
LEMMA BacktestWalk ==
  ASSUME NEW series \in Series
  PROVE  \E f : /\ f[0] = NoTrades
                /\ \A i \in 1..Len(series) : f[i] = WalkStep(series, f[i - 1], i)
                /\ \A i \in 0..Len(series) : f[i] \in WalksOver(series)
                /\ Trades(series) = f[Len(series)].trades
<1> DEFINE f == CHOOSE g : BacktestOf(g, series)
           n == Len(series)
           Legal == WalksOver(series)
<1>1. n \in Nat
  BY SeriesType
<1>2. BacktestOf(f, series)
  BY BacktestExists
<1>3. Trades(series) = f[n].trades
  BY DEF Trades, BacktestOf, NoTrades
<1> HIDE DEF f, n
<1>4. f[0] = NoTrades
  BY <1>1, <1>2 DEF BacktestOf, n
<1>5. \A i \in 1..n : f[i] = WalkStep(series, f[i - 1], i)
  BY <1>1, <1>2 DEF BacktestOf, n
<1> DEFINE S == {j \in 0..n : f[j] \in Legal}
<1>6. 0 \in S
  BY <1>1, <1>4, NoTradesType
<1>7. ASSUME NEW k \in 0..(n - 1), k \in S PROVE k + 1 \in S
  <2>1. k + 1 \in 1..n /\ k + 1 \in 0..n /\ (k + 1) - 1 = k /\ f[k] \in Legal
    BY <1>1, <1>7
  <2>2. f[k + 1] = WalkStep(series, f[k], k + 1)
    BY <1>5, <2>1
  <2> QED BY <2>1, <2>2, WalkStepType DEF n
<1>8. \A k \in 0..n : k \in S
  <2> HIDE DEF S
  <2> QED BY <1>1, <1>6, <1>7, CountingUp
<1>9. \A k \in 0..n : f[k] \in Legal
  <2> HIDE DEF Legal
  <2> QED BY <1>8
<1> QED BY <1>3, <1>4, <1>5, <1>9 DEF n

LEMMA TradesType ==
  ASSUME NEW series \in Series
  PROVE  /\ Trades(series) \in Seq(TradesOn(series))
         /\ \A k \in 1..(Len(Trades(series)) - 1) :
              Trades(series)[k].exit < Trades(series)[k + 1].entry
<1>1. PICK f : /\ \A i \in 0..Len(series) : f[i] \in WalksOver(series)
               /\ Trades(series) = f[Len(series)].trades
  BY BacktestWalk
<1>2. Len(series) \in 0..Len(series)
  BY SeriesType
<1>3. f[Len(series)] \in WalksOver(series)
  BY <1>1, <1>2
<1> QED BY <1>1, <1>3 DEF WalksOver, OneByOne

-----------------------------------------------------------------------------
(* The series only grows.                                                  *)

SeriesInv == bars \in Series

LEMMA GrowthSeriesInv == Growth => []SeriesInv
<1>1. NothingClosed => SeriesInv
  BY AnalysisAssumption, EmptySeq DEF NothingClosed, SeriesInv, Series, AnalysisAssumption
<1>2. SeriesInv /\ [AnotherBar]_bars => SeriesInv'
  <2> SUFFICES ASSUME SeriesInv, [AnotherBar]_bars PROVE SeriesInv'
    OBVIOUS
  <2>1. ASSUME NEW shape \in Shapes, CloseBar(shape) PROVE SeriesInv'
    <3>1. Append(bars, shape) \in Seq(Shapes) /\ Len(Append(bars, shape)) = Len(bars) + 1
      BY AppendProperties DEF SeriesInv, Series
    <3>2. Len(bars) + 1 <= MaxBars
      BY <2>1, SeriesType DEF SeriesInv, CloseBar
    <3> QED BY <2>1, <3>1, <3>2 DEF CloseBar, SeriesInv, Series
  <2>2. CASE UNCHANGED bars
    BY <2>2 DEF SeriesInv
  <2> QED BY <2>1, <2>2 DEF AnotherBar
<1> QED BY <1>1, <1>2, PTL DEF Growth

\* For any series and any strategy, the drawdown that is computed along the
\* equity curve is the worst fall between any two of its points
\* (harness.py:151-159).
THEOREM DrawdownsAreWorstFalls == Growth => []DrawdownIsWorstFall
<1>1. SeriesInv => DrawdownIsWorstFall
  <2> SUFFICES ASSUME SeriesInv PROVE DrawdownIsWorstFall
    OBVIOUS
  <2> DEFINE trades == Trades(bars)
             s == Summary(trades)
             Falls == {Equity(s, p[1]) - Equity(s, p[2]) :
                         p \in {q \in Points(s) \X Points(s) : q[1] <= q[2]}}
  <2>1. bars \in Series
    BY DEF SeriesInv
  <2>2. trades \in Seq(TradesOn(bars))
    BY <2>1, TradesType
  <2>3. Len(trades) \in Nat /\ \A k \in 1..Len(trades) : trades[k].pnl \in Int
    <3> HIDE DEF trades
    <3> QED BY <2>1, <2>2, LenProperties, ElementOfSeq, TradeFields
  <2>4. Balanced(s)
    <3> HIDE DEF trades
    <3> QED BY <2>3, SummaryBalances
  <2> HIDE DEF s
  <2>5. s.drawdown \in Falls
    <3>1. PICK p \in Points(s), q \in Points(s) :
            p <= q /\ Equity(s, p) - Equity(s, q) = s.drawdown
      BY <2>4 DEF Balanced, DrawdownIsWorst
    <3>2. <<p, q>> \in {r \in Points(s) \X Points(s) : r[1] <= r[2]}
      BY <3>1
    <3> QED BY <3>1, <3>2
  <2>6. \A x \in Falls : s.drawdown >= x
    BY <2>4 DEF Balanced, DrawdownIsWorst
  <2>7. Max(Falls) = s.drawdown
    BY <2>5, <2>6 DEF Max
  <2> QED BY <2>7 DEF DrawdownIsWorstFall, Equity, Points, s
<1> QED BY <1>1, GrowthSeriesInv, PTL

-----------------------------------------------------------------------------
(* A longer series.                                                        *)

LEMMA AppendedSeries ==
  ASSUME NEW a \in Series, NEW x \in Shapes, Len(a) < MaxBars
  PROVE  /\ Append(a, x) \in Series
         /\ Len(Append(a, x)) = Len(a) + 1
         /\ \A i \in 1..Len(a) : Append(a, x)[i] = a[i]
         /\ Append(a, x)[Len(a) + 1] = x
BY SeriesType, AppendProperties DEF Series

\* b is a one bar longer.
OneLonger(a, b) ==
  /\ a \in Series /\ b \in Series
  /\ Len(b) = Len(a) + 1
  /\ \A i \in 1..Len(a) : b[i] = a[i]

LEMMA LongerTypes ==
  ASSUME NEW a, NEW b, OneLonger(a, b)
  PROVE  /\ a \in Series /\ b \in Series
         /\ Len(a) \in Nat /\ Len(b) = Len(a) + 1
         /\ DOMAIN a = 1..Len(a) /\ DOMAIN b = 1..Len(b)
         /\ \A i \in 1..Len(a) : b[i] = a[i]
         /\ Len(b) \in 1..MaxBars
BY SeriesType DEF OneLonger

LEMMA StepIsLonger ==
  ASSUME SeriesInv, SeriesInv', AnotherBar
  PROVE  \E a, b : a = bars /\ b = bars' /\ OneLonger(a, b)
<1>1. PICK a, b : a = bars /\ b = bars'
  OBVIOUS
<1>2. PICK shape \in Shapes : CloseBar(shape)
  BY DEF AnotherBar
<1>3. a \in Series /\ b \in Series
  BY <1>1 DEF SeriesInv
<1>4. b = Append(a, shape) /\ Len(a) < MaxBars
  BY <1>1, <1>2 DEF CloseBar
<1>5. OneLonger(a, b)
  BY <1>3, <1>4, AppendedSeries DEF OneLonger
<1> QED BY <1>1, <1>5

LEMMA ViewStays ==
  ASSUME NEW a, NEW b, OneLonger(a, b), NEW i \in 1..Len(a)
  PROVE  View(b, i) = View(a, i)
<1> /\ a \in Series /\ b \in Series /\ Len(b) = Len(a) + 1
    /\ \A k \in 1..Len(a) : b[k] = a[k]
  BY DEF OneLonger
<1>1. View(a, i) = [k \in 1..i |-> a[k]] /\ View(b, i) = [k \in 1..i |-> b[k]]
  BY SeriesType DEF View
<1>2. \A k \in 1..i : b[k] = a[k]
  BY SeriesType
<1> QED BY <1>1, <1>2

\* A trade that met its stop or its target on the shorter series is the same on
\* the longer one; any other goes on to the new bar.
LEMMA TradeStays ==
  ASSUME NEW a, NEW b, OneLonger(a, b),
         NEW entry \in 1..Len(a), NEW d
  PROVE  \/ SimulateTrade(b, entry, d) = SimulateTrade(a, entry, d)
         \/ /\ SimulateTrade(a, entry, d).reason = "end_of_data"
            /\ SimulateTrade(a, entry, d).exit = Len(a)
            /\ SimulateTrade(b, entry, d).exit = Len(a) + 1
<1> /\ a \in Series /\ b \in Series /\ Len(b) = Len(a) + 1
    /\ \A k \in 1..Len(a) : b[k] = a[k]
  BY DEF OneLonger
<1> DEFINE n == Len(a)
           Hits(j, s) == HitStop(s[j], d) \/ HitTarget(s[j], d)
           before == {j \in entry..n : Hits(j, a)}
           after == {j \in entry..(n + 1) : Hits(j, b)}
<1>1. n \in Nat /\ entry \in 1..n /\ b[entry] = a[entry] /\ Len(b) = n + 1
  BY SeriesType
<1>2. \A j \in entry..n : b[j] = a[j]
  BY <1>1
<1>3. after \in SUBSET Nat /\ before \in SUBSET Nat
  BY <1>1
<1>4. before \subseteq after
  BY <1>1, <1>2
<1>5. \A j \in after : j \in before \/ j = n + 1
  BY <1>1, <1>2
<1>6. \A j \in before : j <= n
  BY <1>1
<1>7. /\ SimulateTrade(a, entry, d) =
           IF before = {}
           THEN Trade(a, entry, n, a[n].close, d, "end_of_data")
           ELSE IF HitStop(a[Min(before)], d)
           THEN Trade(a, entry, Min(before), d.stop, d, "stop_loss")
           ELSE Trade(a, entry, Min(before), d.target, d, "target")
      /\ SimulateTrade(b, entry, d) =
           IF after = {}
           THEN Trade(b, entry, n + 1, b[n + 1].close, d, "end_of_data")
           ELSE IF HitStop(b[Min(after)], d)
           THEN Trade(b, entry, Min(after), d.stop, d, "stop_loss")
           ELSE Trade(b, entry, Min(after), d.target, d, "target")
  BY <1>1 DEF SimulateTrade
<1>8. \A x, p, r : Trade(a, entry, x, p, d, r) = Trade(b, entry, x, p, d, r)
  BY <1>1 DEF Trade
<1>9. \A s, x, p, r : Trade(s, entry, x, p, d, r).exit = x /\ Trade(s, entry, x, p, d, r).reason = r
  BY DEF Trade
<1> HIDE DEF before, after
<1>10. CASE before # {}
  <2>1. Min(before) \in before /\ \A j \in before : Min(before) <= j
    BY <1>3, <1>10, MinOfNaturals
  <2>2. Min(after) \in after /\ \A j \in after : Min(after) <= j
    BY <1>3, <1>4, <1>10, MinOfNaturals
  <2>3. Min(after) = Min(before)
    <3>1. Min(after) <= Min(before) /\ Min(before) <= n
      BY <1>4, <1>6, <2>1, <2>2
    <3>2. Min(after) \in Nat /\ Min(before) \in Nat
      BY <1>3, <2>1, <2>2
    <3>3. Min(after) \in before
      BY <1>1, <1>5, <2>2, <3>1, <3>2
    <3> QED BY <2>1, <3>1, <3>2, <3>3
  <2>4. b[Min(after)] = a[Min(before)]
    BY <1>2, <2>1, <2>3 DEF before
  <2> QED BY <1>4, <1>7, <1>8, <1>10, <2>3, <2>4
<1>11. CASE before = {}
  <2>1. SimulateTrade(a, entry, d) = Trade(a, entry, n, a[n].close, d, "end_of_data")
    BY <1>7, <1>11
  <2>2. after # {} => Min(after) = n + 1
    <3>1. after # {} => Min(after) \in after
      BY <1>3, MinOfNaturals
    <3> QED BY <1>5, <1>11, <3>1
  <2>3. SimulateTrade(b, entry, d).exit = n + 1
    BY <1>7, <1>9, <2>2
  <2> QED BY <1>9, <2>1, <2>3
<1> QED BY <1>10, <1>11

\* The walk over the longer series has made the same trades, or it is in the trade
\* that the shorter one had to end with its data.
Same(n, v, w) == w = v

Outlived(n, v, w) ==
  /\ v.until = n /\ w.until = n + 1
  /\ Len(v.trades) = Len(w.trades)
  /\ v.trades[Len(v.trades)].reason = "end_of_data"
  /\ \A k \in 1..(Len(v.trades) - 1) : w.trades[k] = v.trades[k]

LEMMA WalksAgree ==
  ASSUME NEW a, NEW b, OneLonger(a, b),
         NEW i \in 1..(Len(a) - 1), NEW v \in WalksOver(a), NEW w \in WalksOver(b),
         Same(Len(a), v, w) \/ Outlived(Len(a), v, w)
  PROVE  \/ Same(Len(a), WalkStep(a, v, i), WalkStep(b, w, i))
         \/ Outlived(Len(a), WalkStep(a, v, i), WalkStep(b, w, i))
<1> /\ a \in Series /\ b \in Series /\ Len(b) = Len(a) + 1
    /\ \A k \in 1..Len(a) : b[k] = a[k]
  BY DEF OneLonger
<1> DEFINE n == Len(a)
           decided == Strategy(View(a, i))
           s == SimulateTrade(a, i + 1, decided[1])
           t == SimulateTrade(b, i + 1, decided[1])
<1>1. n \in Nat /\ Len(b) = n + 1 /\ i \in 1..n /\ i # n /\ i # n + 1 /\ i + 1 \in 1..n
  BY SeriesType
<1>2. Strategy(View(b, i)) = decided
  BY <1>1, ViewStays
<1>3. CASE Outlived(n, v, w)
  <2>1. i <= v.until /\ i <= w.until
    BY <1>1, <1>3 DEF Outlived
  <2> QED BY <1>3, <2>1 DEF WalkStep
<1>4. CASE Same(n, v, w)
  <2>1. CASE i <= v.until \/ decided = <<>>
    BY <1>1, <1>2, <1>4, <2>1 DEF WalkStep, Same
  <2>2. CASE ~(i <= v.until \/ decided = <<>>)
    <3>1. /\ WalkStep(a, v, i) = [until |-> s.exit, trades |-> Append(v.trades, s)]
          /\ WalkStep(b, w, i) = [until |-> t.exit, trades |-> Append(v.trades, t)]
      BY <1>1, <1>2, <1>4, <2>2 DEF WalkStep, Same
    <3>2. t = s \/ (s.reason = "end_of_data" /\ s.exit = n /\ t.exit = n + 1)
      BY <1>1, TradeStays
    <3>3. /\ decided[1] \in Decisions(a) /\ decided[1].stop \in Int /\ decided[1].target \in Int
          /\ decided[1] \in Decisions(b)
      BY <1>1, <1>2, <2>2, DecisionType
    <3>4. s \in TradesOn(a) /\ t \in TradesOn(b)
      BY <1>1, <3>3, SimulatedTrade
    <3> HIDE DEF s, t
    <3>5. v.trades \in Seq(TradesOn(a)) /\ v.trades \in Seq(TradesOn(b))
      BY <1>4 DEF WalksOver, Same
    <3>6. Len(v.trades) \in Nat
      BY <3>5, LenProperties
    <3>7. /\ Len(Append(v.trades, s)) = Len(v.trades) + 1
          /\ Len(Append(v.trades, t)) = Len(v.trades) + 1
          /\ Append(v.trades, s)[Len(v.trades) + 1] = s
          /\ \A k \in 1..Len(v.trades) : Append(v.trades, s)[k] = Append(v.trades, t)[k]
      BY <3>4, <3>5, AppendProperties
    <3>8. (Len(v.trades) + 1) - 1 = Len(v.trades)
      BY <3>6
    <3>9. CASE t = s
      BY <3>1, <3>9 DEF Same
    <3>10. CASE s.reason = "end_of_data" /\ s.exit = n /\ t.exit = n + 1
      <4> DEFINE x == WalkStep(a, v, i)
                 y == WalkStep(b, w, i)
      <4>1. /\ x.until = s.exit /\ y.until = t.exit
            /\ x.trades = Append(v.trades, s) /\ y.trades = Append(v.trades, t)
        BY <3>1
      <4> HIDE DEF x, y
      <4>2. Outlived(n, x, y)
        BY <3>7, <3>8, <3>10, <4>1 DEF Outlived
      <4> QED BY <4>2 DEF x, y
    <3> QED BY <3>2, <3>9, <3>10
  <2> QED BY <2>1, <2>2
<1> QED BY <1>3, <1>4

\* At the last bar of the shorter series, the longer one may begin one more trade.
LEMMA TradesStay ==
  ASSUME NEW a, NEW b, OneLonger(a, b),
         NEW k \in DOMAIN Trades(a), Trades(a)[k].reason # "end_of_data"
  PROVE  k \in DOMAIN Trades(b) /\ Trades(b)[k] = Trades(a)[k]
<1> /\ a \in Series /\ b \in Series /\ Len(b) = Len(a) + 1
    /\ \A i \in 1..Len(a) : b[i] = a[i]
  BY DEF OneLonger
<1> DEFINE n == Len(a)
<1>1. n \in Nat /\ Len(b) = n + 1
  BY SeriesType
<1>2. PICK f : /\ f[0] = NoTrades
               /\ \A i \in 1..n : f[i] = WalkStep(a, f[i - 1], i)
               /\ \A i \in 0..n : f[i] \in WalksOver(a)
               /\ Trades(a) = f[n].trades
  BY BacktestWalk
<1>3. PICK g : /\ g[0] = NoTrades
               /\ \A i \in 1..(n + 1) : g[i] = WalkStep(b, g[i - 1], i)
               /\ \A i \in 0..(n + 1) : g[i] \in WalksOver(b)
               /\ Trades(b) = g[n + 1].trades
  BY <1>1, BacktestWalk
<1>4. Trades(a) \in Seq(TradesOn(a)) /\ Trades(b) \in Seq(TradesOn(b))
  BY TradesType
<1>5. n # 0
  <2> SUFFICES ASSUME n = 0 PROVE FALSE
    OBVIOUS
  <2>1. Trades(a) = <<>>
    BY <1>2 DEF NoTrades
  <2> QED BY <2>1
<1>6. n \in 1..n /\ n - 1 \in 0..n /\ n - 1 \in 0..(n + 1) /\ n + 1 \in 1..(n + 1) /\ (n + 1) - 1 = n
      /\ n \in 1..(n + 1) /\ n - 1 \in Nat /\ n \in 0..(n + 1)
  BY <1>1, <1>5
<1> HIDE DEF n
<1> DEFINE Agree(i) == Same(n, f[i], g[i]) \/ Outlived(n, f[i], g[i])
           S == {i \in 0..(n - 1) : Agree(i)}
<1>7. 0 \in S
  BY <1>2, <1>3, <1>6 DEF Same
<1>8. ASSUME NEW i \in 0..((n - 1) - 1), i \in S PROVE i + 1 \in S
  <2>1. /\ i + 1 \in 1..(n - 1) /\ i + 1 \in 1..n /\ i + 1 \in 1..(n + 1) /\ (i + 1) - 1 = i
        /\ i \in 0..n /\ i \in 0..(n + 1) /\ i + 1 \in 0..(n - 1)
    BY <1>1, <1>6
  <2>2. f[i + 1] = WalkStep(a, f[i], i + 1) /\ g[i + 1] = WalkStep(b, g[i], i + 1)
    BY <1>2, <1>3, <2>1
  <2>3. f[i] \in WalksOver(a) /\ g[i] \in WalksOver(b) /\ Agree(i)
    BY <1>2, <1>3, <1>8, <2>1
  <2>4. Agree(i + 1)
    BY <2>1, <2>2, <2>3, WalksAgree DEF n
  <2> QED BY <2>1, <2>4
<1>9. Agree(n - 1)
  <2>1. \A i \in 0..(n - 1) : i \in S
    <3> HIDE DEF S
    <3> QED BY <1>6, <1>7, <1>8, CountingUp
  <2>2. n - 1 \in 0..(n - 1)
    BY <1>6
  <2> QED BY <2>1, <2>2
<1>10. f[n] = f[n - 1]
  BY <1>2, <1>6 DEF WalkStep, n
<1>11. g[n + 1] = g[n]
  BY <1>1, <1>3, <1>6 DEF WalkStep
<1>12. /\ f[n].trades \in Seq(TradesOn(a)) /\ f[n - 1].trades \in Seq(TradesOn(a))
       /\ g[n].trades \in Seq(TradesOn(b)) /\ g[n - 1].trades \in Seq(TradesOn(b))
  BY <1>2, <1>3, <1>6, <1>10 DEF WalksOver
<1>13. /\ Trades(a) = f[n - 1].trades /\ Trades(b) = g[n].trades
       /\ k \in 1..Len(Trades(a))
  BY <1>2, <1>3, <1>10, <1>11, <1>12, LenProperties
<1>14. CASE Outlived(n, f[n - 1], g[n - 1])
  <2>1. g[n] = g[n - 1]
    <3>1. g[n] = WalkStep(b, g[n - 1], n)
      BY <1>3, <1>6
    <3>2. n <= g[n - 1].until
      BY <1>1, <1>14 DEF Outlived
    <3> QED BY <3>1, <3>2 DEF WalkStep
  <2>2. k # Len(Trades(a))
    BY <1>13, <1>14 DEF Outlived
  <2>3. Len(Trades(a)) \in Nat
    BY <1>4, LenProperties
  <2>4. k \in 1..(Len(Trades(a)) - 1)
    BY <1>13, <2>2, <2>3
  <2>5. Trades(b)[k] = Trades(a)[k] /\ Len(Trades(b)) = Len(Trades(a))
    BY <1>13, <1>14, <2>1, <2>4 DEF Outlived
  <2> QED BY <1>4, <1>13, <2>5, LenProperties
<1>15. CASE Same(n, f[n - 1], g[n - 1])
  <2> DEFINE d == Strategy(View(b, n))[1]
             t == SimulateTrade(b, n + 1, d)
  <2>1. CASE g[n] = g[n - 1]
    BY <1>4, <1>13, <1>15, <2>1, LenProperties DEF Same
  <2>2. CASE g[n] # g[n - 1]
    <3>1. g[n] = WalkStep(b, g[n - 1], n)
      BY <1>3, <1>6
    <3>2. /\ Strategy(View(b, n)) # <<>>
          /\ g[n].trades = Append(g[n - 1].trades, t)
      BY <2>2, <3>1 DEF WalkStep
    <3>3. d \in Decisions(b) /\ d.stop \in Int /\ d.target \in Int
      BY <1>1, <1>6, <3>2, DecisionType
    <3> HIDE DEF d
    <3>4. t \in TradesOn(b)
      BY <1>1, <1>6, <3>3, SimulatedTrade
    <3> HIDE DEF t
    <3>5. g[n - 1].trades = Trades(a)
      BY <1>13, <1>15 DEF Same
    <3>6. Trades(b) = Append(g[n - 1].trades, t)
      BY <1>13, <3>2
    <3>7. /\ Len(Trades(b)) = Len(Trades(a)) + 1
          /\ \A j \in 1..Len(Trades(a)) : Trades(b)[j] = Trades(a)[j]
      BY <1>12, <3>4, <3>5, <3>6, AppendProperties
    <3>8. Len(Trades(a)) \in Nat
      BY <1>4, LenProperties
    <3>9. k \in 1..Len(Trades(b))
      BY <1>13, <3>7, <3>8
    <3> QED BY <1>4, <1>13, <3>7, <3>9, LenProperties
  <2> QED BY <2>1, <2>2
<1> QED BY <1>9, <1>14, <1>15

\* For any market and any strategy, a trade that ended at its stop or its target is
\* made again on every longer series, and trades do not overlap
\* (harness.py:3-10, 111-136).
THEOREM TradesAreFinal == Growth => TradesWalkForward
<1>1. ASSUME SeriesInv, SeriesInv', AnotherBar
      PROVE  /\ \A k \in DOMAIN Trades(bars) :
                  Trades(bars)[k].reason # "end_of_data" =>
                    k \in DOMAIN Trades(bars') /\ Trades(bars')[k] = Trades(bars)[k]
             /\ \A k \in 1..(Len(Trades(bars')) - 1) :
                  Trades(bars')[k].exit < Trades(bars')[k + 1].entry
  <2>1. PICK a, b : a = bars /\ b = bars' /\ OneLonger(a, b)
    BY <1>1, StepIsLonger
  <2>6. \A k \in DOMAIN Trades(a) :
          Trades(a)[k].reason # "end_of_data" => k \in DOMAIN Trades(b) /\ Trades(b)[k] = Trades(a)[k]
    BY <2>1, TradesStay
  <2>7. \A k \in 1..(Len(Trades(b)) - 1) : Trades(b)[k].exit < Trades(b)[k + 1].entry
    BY <2>1, TradesType DEF OneLonger
  <2> QED BY <2>1, <2>6, <2>7
<1> QED BY <1>1, GrowthSeriesInv, PTL DEF Growth, TradesWalkForward

-----------------------------------------------------------------------------
(* Bars of longer timeframes.                                              *)

\* A minute is in its day, and in its bucket.
LEMMA MinuteInDay ==
  ASSUME NEW m \in Nat
  PROVE  LET day == Resample!Day(m) * DayMinutes
         IN /\ day \in Int /\ Resample!Day(m) \in Int
            /\ day <= m /\ m < day + DayMinutes
            /\ Resample!Closing(m) = day + SessionClose
            /\ Resample!Opening(m) = day + SessionOpen
            /\ {DayMinutes, SessionOpen, SessionClose} \subseteq Int
<1>1. /\ DayMinutes \in Nat \ {0} /\ SessionOpen \in Nat /\ SessionClose \in Nat
  BY AnalysisAssumption DEF AnalysisAssumption, Resample!ResamplingAssumption
<1> DEFINE q == m \div DayMinutes
<1>2. q \in Int /\ m = (DayMinutes * q) + (m % DayMinutes) /\ m % DayMinutes \in 0..(DayMinutes - 1)
  BY <1>1, DivMod
<1> HIDE DEF q
<1>3. q * DayMinutes \in Int /\ q * DayMinutes = DayMinutes * q
  BY <1>1, <1>2
<1>4. q * DayMinutes <= m /\ m < q * DayMinutes + DayMinutes
  BY <1>1, <1>2, <1>3
<1> QED BY <1>1, <1>2, <1>3, <1>4 DEF Resample!Day, Resample!Closing, Resample!Opening, q

LEMMA MinuteInBucket ==
  ASSUME NEW m \in Nat, NEW n \in Nat \ {0}
  PROVE  /\ Resample!BucketStart(m, n) \in Int
         /\ Resample!BucketStart(m, n) <= m
         /\ m < Resample!BucketStart(m, n) + n
<1> DEFINE o == Resample!Opening(m)
           q == (m - o) \div n
<1>1. o \in Int
  BY MinuteInDay
<1> HIDE DEF o
<1>2. m - o \in Int
  BY <1>1
<1>3. /\ q \in Int /\ m - o = (n * q) + ((m - o) % n) /\ (m - o) % n \in 0..(n - 1)
  BY <1>2, DivMod
<1> HIDE DEF q
<1>4. n * q \in Int
  BY <1>3
<1>5. o + n * q <= m /\ m < (o + n * q) + n
  BY <1>1, <1>3, <1>4
<1> QED BY <1>1, <1>4, <1>5 DEF Resample!BucketStart, o, q

\* Once a bar of a longer timeframe is complete, a later minute is in another
\* one, unless it opens when the session is over.
LEMMA LaterMinuteIsElsewhere ==
  ASSUME NEW n \in Timeframes, NEW m \in Nat, NEW x \in Nat, m < x,
         Resample!Completes(m, n),
         m < Resample!Closing(m), x < Resample!Closing(x)
  PROVE  Resample!BucketStart(x, n) # Resample!BucketStart(m, n)
<1> SUFFICES ASSUME Resample!BucketStart(x, n) = Resample!BucketStart(m, n) PROVE FALSE
  OBVIOUS
<1> DEFINE start == Resample!BucketStart(m, n)
           p == Resample!Day(m)
           q == Resample!Day(x)
           D == DayMinutes
<1>1. n \in Nat \ {0} /\ n <= D - SessionClose /\ D \in Nat \ {0} /\ SessionClose \in Nat
  BY AnalysisAssumption DEF AnalysisAssumption, Resample!ResamplingAssumption
<1>2. start \in Int /\ start <= m /\ x < start + n
  BY <1>1, MinuteInBucket
<1>3. /\ p \in Int /\ q \in Int /\ p * D \in Int /\ q * D \in Int
      /\ q * D <= x
      /\ Resample!Closing(m) = p * D + SessionClose /\ Resample!Closing(x) = q * D + SessionClose
  BY MinuteInDay
<1>4. Resample!BucketEnd(m, n) = IF start + n <= Resample!Closing(m) THEN start + n
                                                                     ELSE Resample!Closing(m)
  <2>1. Resample!BucketEnd(m, n) = Min({start + n, Resample!Closing(m)})
    BY DEF Resample!BucketEnd, Resample!Min, Min
  <2>2. start + n \in Int /\ Resample!Closing(m) \in Int
    BY <1>1, <1>2, <1>3
  <2> HIDE DEF start
  <2> QED BY <2>1, <2>2, MinIsIf
<1>5. p <= q
  <2>1. m \div DayMinutes <= x \div DayMinutes
    <3>1. m \in Int /\ x \in Int /\ m <= x
      OBVIOUS
    <3> QED BY <1>1, <3>1, DivMonotone
  <2> QED BY <2>1 DEF Resample!Day
<1> HIDE DEF start, p, q, D
<1>6. m + 1 >= Resample!BucketEnd(m, n)
  BY DEF Resample!Completes
<1>7. x >= p * D + SessionClose
  BY <1>1, <1>2, <1>3, <1>4, <1>6
<1>8. p # q
  BY <1>1, <1>3, <1>7
<1>9. p + 1 <= q
  BY <1>3, <1>5, <1>8
<1>10. p * D + D <= q * D
  <2>1. D * (p + 1) <= D * q
    BY <1>1, <1>3, <1>9, TimesMonotone
  <2>2. D * (p + 1) = D * p + D /\ D * p \in Int
    BY <1>1, <1>3, TimesSucc
  <2>3. D * p = p * D /\ D * q = q * D
    BY <1>1, <1>3
  <2> QED BY <1>1, <1>3, <2>1, <2>2, <2>3
<1>11. start < p * D + SessionClose
  BY <1>1, <1>2, <1>3
<1> QED BY <1>1, <1>2, <1>3, <1>10, <1>11

\* A minute after all others leaves the closed bars as they are.
LEMMA ClosedBarStays ==
  ASSUME NEW n \in Timeframes, NEW u, NEW v, NEW x \in Nat,
         DOMAIN u \subseteq Nat, IsFiniteSet(DOMAIN u),
         DOMAIN v = DOMAIN u \cup {x},
         \A m \in DOMAIN u : m < x /\ v[m] = u[m],
         NEW start \in DOMAIN Resample!ClosedBars(u, n), ~HoldsClose(start, DOMAIN v, n)
  PROVE  /\ start \in DOMAIN Resample!ClosedBars(v, n)
         /\ Resample!ClosedBars(v, n)[start] = Resample!ClosedBars(u, n)[start]
<1>1. CASE n = 1
  BY <1>1 DEF Resample!ClosedBars
<1>2. CASE n # 1
  <2> DEFINE Starts(w) == {Resample!BucketStart(m, n) : m \in Resample!Completing(DOMAIN w, n)}
             Parts(w) == {m \in Resample!OnTradingDays(DOMAIN w) : Resample!BucketStart(m, n) = start}
  <2>1. /\ Resample!ClosedBars(u, n) = [s \in Starts(u) |->
             Resample!Merged(u, {m \in Resample!OnTradingDays(DOMAIN u) : Resample!BucketStart(m, n) = s})]
        /\ Resample!ClosedBars(v, n) = [s \in Starts(v) |->
             Resample!Merged(v, {m \in Resample!OnTradingDays(DOMAIN v) : Resample!BucketStart(m, n) = s})]
    BY <1>2 DEF Resample!ClosedBars
  <2>2. start \in Starts(u)
    BY <2>1
  <2>3. PICK m \in DOMAIN u : /\ Resample!BucketStart(m, n) = start
                               /\ Resample!Completes(m, n)
                               /\ m \in Resample!OnTradingDays(DOMAIN u)
    BY <2>2 DEF Resample!Completing, Resample!OnTradingDays
  <2>4. start \in Starts(v)
    BY <2>2 DEF Resample!Completing, Resample!OnTradingDays
  <2>5. Resample!BucketStart(x, n) # start
    <3> SUFFICES ASSUME Resample!BucketStart(x, n) = start PROVE FALSE
      OBVIOUS
    <3>1. m \in DOMAIN v /\ x \in DOMAIN v /\ m \in Nat /\ m < x
      OBVIOUS
    <3>2. ~(m >= Resample!Closing(m)) /\ ~(x >= Resample!Closing(x))
      BY <2>3, <3>1 DEF HoldsClose
    <3>3. Resample!Closing(m) \in Int /\ Resample!Closing(x) \in Int
      BY <3>1, MinuteInDay
    <3>4. m < Resample!Closing(m) /\ x < Resample!Closing(x)
      BY <3>1, <3>2, <3>3
    <3> QED BY <2>3, <3>1, <3>4, LaterMinuteIsElsewhere
  <2>6. Parts(v) = Parts(u)
    BY <2>5 DEF Resample!OnTradingDays
  <2> DEFINE S == Parts(u)
  <2>7. S \subseteq DOMAIN u /\ S \in SUBSET Nat /\ S # {}
    BY <2>3 DEF Resample!OnTradingDays
  <2>8. IsFiniteSet(S) /\ S \in SUBSET Int
    BY <2>7, FS_Subset
  <2> HIDE DEF S
  <2>9. Min(S) \in S /\ Max(S) \in S
    BY <2>7, <2>8, MinOfNaturals, MaxOfFinite
  <2>10. Resample!Min(S) = Min(S) /\ Resample!Max(S) = Max(S)
    BY DEF Resample!Min, Min, Resample!Max, Max
  <2>11. \A k \in S : v[k] = u[k]
    BY <2>7
  <2>12. Resample!Merged(v, S) = Resample!Merged(u, S)
    <3>1. {v[k].high : k \in S} = {u[k].high : k \in S} /\ {v[k].low : k \in S} = {u[k].low : k \in S}
      BY <2>11
    <3> QED BY <2>9, <2>10, <2>11, <3>1 DEF Resample!Merged
  <2>13. /\ Resample!ClosedBars(u, n)[start] = Resample!Merged(u, S)
         /\ Resample!ClosedBars(v, n)[start] = Resample!Merged(v, S)
    <3>1. Resample!ClosedBars(u, n)[start] = Resample!Merged(u, Parts(u))
      <4> HIDE DEF Starts
      <4> QED BY <2>1, <2>2
    <3>2. Resample!ClosedBars(v, n)[start] = Resample!Merged(v, Parts(v))
      <4> HIDE DEF Starts
      <4> QED BY <2>1, <2>4
    <3> QED BY <2>6, <3>1, <3>2 DEF S
  <2> HIDE DEF Starts
  <2> QED BY <2>1, <2>4, <2>12, <2>13
<1> QED BY <1>1, <1>2

LEMMA ClocksMoveOn ==
  ASSUME NEW clock \in Clocks
  PROVE  /\ \A i \in 1..MaxBars : clock[i] \in Nat
         /\ \A j \in 1..MaxBars : \A i \in 1..(j - 1) : clock[i] < clock[j]
<1>1. /\ MaxBars \in Nat /\ clock \in Seq(Nat) /\ Len(clock) >= MaxBars
      /\ \A k \in 2..MaxBars : clock[k - 1] < clock[k]
  BY AnalysisAssumption DEF AnalysisAssumption
<1>2. \A i \in 1..MaxBars : clock[i] \in Nat
  BY <1>1, LenProperties, ElementOfSeq
<1> DEFINE S == {j \in 0..MaxBars : \A i \in 1..(j - 1) : clock[i] < clock[j]}
<1>3. 0 \in S
  BY <1>1
<1>4. ASSUME NEW j \in 0..(MaxBars - 1), j \in S PROVE j + 1 \in S
  <2>1. ASSUME NEW i \in 1..j PROVE clock[i] < clock[j + 1]
    <3>1. /\ j \in 1..MaxBars /\ j + 1 \in 2..MaxBars /\ (j + 1) - 1 = j
          /\ i \in 1..MaxBars /\ j + 1 \in 1..MaxBars
      BY <1>1
    <3>2. clock[j] < clock[j + 1]
      BY <1>1, <3>1
    <3>3. i = j \/ i \in 1..(j - 1)
      BY <3>1
    <3>4. i = j \/ clock[i] < clock[j]
      BY <1>4, <3>3
    <3> QED BY <1>2, <3>1, <3>2, <3>4
  <2>2. (j + 1) - 1 = j /\ j + 1 \in 0..MaxBars
    BY <1>1
  <2> QED BY <2>1, <2>2
<1>5. \A j \in 0..MaxBars : j \in S
  <2> HIDE DEF S
  <2> QED BY <1>1, <1>3, <1>4, CountingUp
<1> QED BY <1>1, <1>2, <1>5

\* The table holds the bar of each minute the clock was at.
LEMMA StoredRows ==
  ASSUME NEW series \in Series, NEW clock \in Clocks
  PROVE  /\ DOMAIN Stored(series, clock) = {clock[k] : k \in 1..Len(series)}
         /\ \A k \in 1..Len(series) : Stored(series, clock)[clock[k]] = series[k]
<1> DEFINE n == Len(series)
<1>1. n \in Nat /\ n <= MaxBars /\ DOMAIN series = 1..n /\ MaxBars \in Nat
  BY SeriesType
<1> HIDE DEF n
<1>2. ASSUME NEW i \in 1..n, NEW k \in 1..n, clock[i] = clock[k] PROVE i = k
  <2>1. i \in 1..MaxBars /\ k \in 1..MaxBars
    BY <1>1
  <2>2. i < k => clock[i] < clock[k]
    <3>1. i < k => i \in 1..(k - 1)
      BY <2>1
    <3> QED BY <2>1, <3>1, ClocksMoveOn
  <2>3. k < i => clock[k] < clock[i]
    <3>1. k < i => k \in 1..(i - 1)
      BY <2>1
    <3> QED BY <2>1, <3>1, ClocksMoveOn
  <2>4. clock[i] \in Nat /\ clock[k] \in Nat
    BY <2>1, ClocksMoveOn
  <2> QED BY <1>2, <2>1, <2>2, <2>3, <2>4
<1>3. Stored(series, clock) =
        [m \in {clock[k] : k \in 1..n} |-> series[CHOOSE k \in 1..n : clock[k] = m]]
  BY <1>1 DEF Stored
<1>4. \A i \in 1..n : (CHOOSE k \in 1..n : clock[k] = clock[i]) = i
  BY <1>2
<1>5. ASSUME NEW k \in 1..n PROVE Stored(series, clock)[clock[k]] = series[k]
  <2>1. clock[k] \in {clock[j] : j \in 1..n}
    OBVIOUS
  <2>2. Stored(series, clock)[clock[k]] = series[CHOOSE j \in 1..n : clock[j] = clock[k]]
    BY <1>3, <2>1
  <2> QED BY <1>4, <2>2
<1>6. DOMAIN Stored(series, clock) = {clock[k] : k \in 1..n}
  BY <1>3
<1> QED BY <1>5, <1>6 DEF n

\* For any clocks, sessions and holidays, and any timeframe that is shorter than the
\* time from the session's close to midnight, a closed bar of a longer timeframe
\* never changes, but for a tick when the session is over (resample.py:7-13, 86-121).
THEOREM ClosedBarsStay == Growth => ResampledBarsFinal
<1>1. ASSUME SeriesInv, SeriesInv', AnotherBar
      PROVE  \A clock \in Clocks, n \in Timeframes :
               LET before == Resample!ClosedBars(Stored(bars, clock), n)
                   later == Stored(bars', clock)
                   after == Resample!ClosedBars(later, n)
               IN \A start \in DOMAIN before :
                    ~HoldsClose(start, DOMAIN later, n) =>
                      start \in DOMAIN after /\ after[start] = before[start]
  <2>1. PICK a, b : a = bars /\ b = bars' /\ OneLonger(a, b)
    BY <1>1, StepIsLonger
  <2>2. /\ a \in Series /\ b \in Series /\ Len(a) \in Nat /\ Len(b) = Len(a) + 1
        /\ Len(b) \in 1..MaxBars /\ \A i \in 1..Len(a) : b[i] = a[i]
    BY <2>1, LongerTypes
  <2>6. ASSUME NEW clock \in Clocks, NEW n \in Timeframes,
               NEW start \in DOMAIN Resample!ClosedBars(Stored(a, clock), n),
               ~HoldsClose(start, DOMAIN Stored(b, clock), n)
        PROVE  /\ start \in DOMAIN Resample!ClosedBars(Stored(b, clock), n)
               /\ Resample!ClosedBars(Stored(b, clock), n)[start]
                    = Resample!ClosedBars(Stored(a, clock), n)[start]
    <3> DEFINE u == Stored(a, clock)
               v == Stored(b, clock)
               x == clock[Len(a) + 1]
    <3>1. /\ Len(a) \in Nat /\ Len(a) + 1 \in 1..MaxBars /\ (Len(a) + 1) - 1 = Len(a)
          /\ \A k \in 1..Len(a) : k \in 1..MaxBars
      <4>1. MaxBars \in Nat
        BY <2>2, SeriesType
      <4> QED BY <2>2, <4>1
    <3>2. /\ \A k \in 1..Len(a) : clock[k] \in Nat /\ clock[k] < x
          /\ x \in Nat
      BY <3>1, ClocksMoveOn
    <3>3. /\ DOMAIN u = {clock[k] : k \in 1..Len(a)}
          /\ \A k \in 1..Len(a) : u[clock[k]] = a[k]
          /\ DOMAIN v = {clock[k] : k \in 1..Len(b)}
          /\ \A k \in 1..Len(b) : v[clock[k]] = b[k]
      BY <2>2, StoredRows
    <3> HIDE DEF u, v, x
    <3>4. 1..Len(b) = 1..Len(a) \cup {Len(a) + 1}
      BY <2>2, <3>1
    <3>5. DOMAIN u \subseteq Nat /\ DOMAIN v = DOMAIN u \cup {x}
      BY <3>2, <3>3, <3>4 DEF x
    <3>6. \A m \in DOMAIN u : m < x /\ v[m] = u[m]
      BY <2>2, <3>2, <3>3, <3>4
    <3>7. IsFiniteSet(DOMAIN u)
      <4> DEFINE f == [k \in 1..Len(a) |-> clock[k]]
      <4>1. IsFiniteSet(1..Len(a))
        BY <3>1, FS_Interval
      <4>2. IsFiniteSet({f[k] : k \in 1..Len(a)})
        <5>1. DOMAIN f = 1..Len(a)
          OBVIOUS
        <5> HIDE DEF f
        <5> QED BY <4>1, <5>1, ImageIsFinite
      <4>3. {f[k] : k \in 1..Len(a)} = DOMAIN u
        BY <3>3
      <4> QED BY <4>2, <4>3
    <3>8. start \in DOMAIN Resample!ClosedBars(u, n) /\ ~HoldsClose(start, DOMAIN v, n)
      BY <2>6 DEF u, v
    <3>9. /\ start \in DOMAIN Resample!ClosedBars(v, n)
          /\ Resample!ClosedBars(v, n)[start] = Resample!ClosedBars(u, n)[start]
      BY <3>2, <3>5, <3>6, <3>7, <3>8, ClosedBarStays
    <3> QED BY <3>9 DEF u, v
  <2> QED BY <2>1, <2>6
<1> QED BY <1>1, GrowthSeriesInv, PTL DEF Growth, ResampledBarsFinal

-----------------------------------------------------------------------------
(* Swings.                                                                 *)

\* The only swing a bar can add.
NewSwing(a) == Len(a) + 1 - Lookback

LEMMA SwingsAmong ==
  ASSUME NEW series \in Series, NEW i \in Swings(series).highs \cup Swings(series).lows
  PROVE  /\ i \in 1..Len(series)
         /\ i <= Len(series) - Lookback
         /\ i \in Nat /\ Lookback \in Nat \ {0}
<1>1. Lookback \in Nat \ {0} /\ Len(series) \in Nat
  BY LookbackAssumption, SeriesType DEF LookbackAssumption
<1>2. i \in Confirmable(series)
  BY DEF Swings
<1> QED BY <1>1, <1>2 DEF Confirmable

\* A swing stays one, and only the newest confirmed bar can be another.
LEMMA SwingsStay ==
  ASSUME NEW a, NEW b, OneLonger(a, b)
  PROVE  /\ Swings(a).highs = {i \in Swings(b).highs : i # NewSwing(a)}
         /\ Swings(a).lows = {i \in Swings(b).lows : i # NewSwing(a)}
<1> DEFINE n == Len(a)
           c == NewSwing(a)
<1>1. /\ Lookback \in Nat \ {0} /\ n \in Nat /\ Len(b) = n + 1
      /\ \A i \in 1..n : b[i] = a[i]
  BY LookbackAssumption, LongerTypes DEF LookbackAssumption
<1> HIDE DEF n
<1>2. c = n + 1 - Lookback
  BY DEF NewSwing, n
<1>3. /\ Confirmable(a) = (Lookback + 1)..(n - Lookback)
      /\ Confirmable(b) = (Lookback + 1)..((n + 1) - Lookback)
  BY <1>1 DEF Confirmable, n
<1> HIDE DEF c
<1>4. \A i : i \in Confirmable(a) <=> i \in Confirmable(b) /\ i # c
  BY <1>1, <1>2, <1>3
<1>5. ASSUME NEW i \in Confirmable(a)
      PROVE  (Peaks(b, i) <=> Peaks(a, i)) /\ (Dips(b, i) <=> Dips(a, i))
  <2>1. \A j \in Window(a, i) : j \in 1..n
    BY <1>1, <1>3 DEF Window
  <2>2. i \in 1..n
    BY <1>1, <1>3
  <2>3. Window(b, i) = Window(a, i)
    BY DEF Window
  <2> QED BY <1>1, <2>1, <2>2, <2>3 DEF Peaks, Dips
<1>6. Swings(a).highs = {i \in Swings(b).highs : i # c}
  BY <1>4, <1>5 DEF Swings
<1>7. Swings(a).lows = {i \in Swings(b).lows : i # c}
  BY <1>4, <1>5 DEF Swings
<1> QED BY <1>6, <1>7 DEF c

\* The first of some bars is found as soon as it has closed.
LEMMA EarliestStays ==
  ASSUME NEW n \in Nat, NEW S \in SUBSET Nat, NEW T \in SUBSET Nat,
         S = {i \in T : i <= n}
  PROVE  /\ Earliest(S) = {i \in Earliest(T) : i <= n}
         /\ Earliest(T) \subseteq T
<1>1. T # {} => Min(T) \in T /\ \A y \in T : Min(T) <= y
  BY MinOfNaturals
<1>2. S # {} => Min(S) \in S /\ \A y \in S : Min(S) <= y
  BY MinOfNaturals
<1>3. CASE S = {}
  <2>1. \A i \in Earliest(T) : ~(i <= n)
    BY <1>1, <1>3 DEF Earliest
  <2> QED BY <1>1, <1>3, <2>1 DEF Earliest
<1>4. CASE S # {}
  <2>1. T # {} /\ Min(S) \in T /\ Min(S) <= n /\ Min(T) <= Min(S)
    BY <1>1, <1>2, <1>4
  <2>2. Min(T) \in Nat /\ Min(S) \in Nat
    BY <1>1, <2>1
  <2>3. Min(T) \in S
    BY <1>1, <2>1, <2>2
  <2>4. Min(S) = Min(T)
    BY <1>2, <2>1, <2>2, <2>3
  <2> QED BY <1>1, <1>4, <2>1, <2>4 DEF Earliest
<1> QED BY <1>3, <1>4

-----------------------------------------------------------------------------
(* Sweeps and displacements.                                               *)

LEMMA SweepEndsStay ==
  ASSUME NEW a, NEW b, OneLonger(a, b), NEW s \in 1..Len(a)
  PROVE  /\ EndOfHigh(a, s) = {i \in EndOfHigh(b, s) : i <= Len(a)}
         /\ EndOfLow(a, s) = {i \in EndOfLow(b, s) : i <= Len(a)}
         /\ EndOfHigh(b, s) \cup EndOfLow(b, s) \subseteq (s + 1)..Len(b)
         /\ \A i \in (s + 1)..Len(a) : /\ SweepsHigh(b, s, i) <=> SweepsHigh(a, s, i)
                                       /\ SweepsLow(b, s, i) <=> SweepsLow(a, s, i)
<1> DEFINE n == Len(a)
<1>1. n \in Nat /\ Len(b) = n + 1 /\ \A i \in 1..n : b[i] = a[i]
  BY LongerTypes
<1> HIDE DEF n
<1>2. s \in 1..n
  BY DEF n
<1>3. \A i \in (s + 1)..n : b[i] = a[i] /\ b[s] = a[s]
  BY <1>1, <1>2
<1>4. \A i \in (s + 1)..n :
        /\ SweepsHigh(b, s, i) <=> SweepsHigh(a, s, i)
        /\ SweepsLow(b, s, i) <=> SweepsLow(a, s, i)
        /\ EndsHigh(b, s, i) <=> EndsHigh(a, s, i)
        /\ EndsLow(b, s, i) <=> EndsLow(a, s, i)
  BY <1>3 DEF SweepsHigh, SweepsLow, EndsHigh, EndsLow
<1> DEFINE A == {i \in (s + 1)..n : EndsHigh(a, s, i)}
           B == {i \in (s + 1)..(n + 1) : EndsHigh(b, s, i)}
           C == {i \in (s + 1)..n : EndsLow(a, s, i)}
           D == {i \in (s + 1)..(n + 1) : EndsLow(b, s, i)}
<1>5. A \in SUBSET Nat /\ B \in SUBSET Nat /\ C \in SUBSET Nat /\ D \in SUBSET Nat
  BY <1>1, <1>2
<1>6. A = {i \in B : i <= n} /\ C = {i \in D : i <= n}
  BY <1>1, <1>2, <1>4
<1>7. B \subseteq (s + 1)..(n + 1) /\ D \subseteq (s + 1)..(n + 1)
  OBVIOUS
<1>8. /\ EndOfHigh(a, s) = Earliest(A) /\ EndOfHigh(b, s) = Earliest(B)
      /\ EndOfLow(a, s) = Earliest(C) /\ EndOfLow(b, s) = Earliest(D)
  BY <1>1 DEF EndOfHigh, EndOfLow, n
<1> HIDE DEF A, B, C, D
<1>9. /\ Earliest(A) = {i \in Earliest(B) : i <= n} /\ Earliest(B) \subseteq B
      /\ Earliest(C) = {i \in Earliest(D) : i <= n} /\ Earliest(D) \subseteq D
  BY <1>1, <1>5, <1>6, EarliestStays
<1> QED BY <1>1, <1>4, <1>7, <1>8, <1>9 DEF n

\* A bar that has a swing's window behind it cannot sweep that swing.
LEMMA NewSwingUnswept ==
  ASSUME NEW a, NEW b, OneLonger(a, b), NEW i \in (NewSwing(a) + 1)..Len(a)
  PROVE  /\ NewSwing(a) \in Swings(b).highs => ~SweepsHigh(b, NewSwing(a), i)
         /\ NewSwing(a) \in Swings(b).lows => ~SweepsLow(b, NewSwing(a), i)
<1> DEFINE n == Len(a)
           c == NewSwing(a)
<1>1. /\ Lookback \in Nat \ {0} /\ n \in Nat /\ Len(b) = n + 1 /\ c = n + 1 - Lookback
      /\ b \in Series
  BY LookbackAssumption, LongerTypes DEF LookbackAssumption, NewSwing
<1> HIDE DEF n, c
<1>2. i \in (c + 1)..n
  BY DEF n, c
<1>3. i \in Window(b, c)
  BY <1>1, <1>2 DEF Window
<1>4. c \in Swings(b).highs \cup Swings(b).lows => c \in 1..Len(b)
  BY <1>1, SwingsAmong
<1>5. c \in Swings(b).highs \cup Swings(b).lows =>
        {b[i].high, b[c].high, b[i].low, b[c].low} \subseteq Int
  <2> SUFFICES ASSUME c \in Swings(b).highs \cup Swings(b).lows
               PROVE  {b[i].high, b[c].high, b[i].low, b[c].low} \subseteq Int
    OBVIOUS
  <2>1. c \in 1..Len(b) /\ i \in 1..Len(b)
    BY <1>1, <1>2, <1>4
  <2> QED BY <1>1, <2>1, SeriesType
<1>6. c \in Swings(b).highs => ~SweepsHigh(b, c, i)
  BY <1>3, <1>5 DEF Swings, Peaks, SweepsHigh
<1>7. c \in Swings(b).lows => ~SweepsLow(b, c, i)
  BY <1>3, <1>5 DEF Swings, Dips, SweepsLow
<1> QED BY <1>6, <1>7 DEF c

LEMMA SweepsStay ==
  ASSUME NEW a, NEW b, OneLonger(a, b)
  PROVE  Sweeps(a) = {e \in Sweeps(b) : e.bar < Len(b)}
<1> DEFINE n == Len(a)
           c == NewSwing(a)
           High(s) == {p \in Swings(s).highs \X DOMAIN s :
                         p[2] \in EndOfHigh(s, p[1]) /\ SweepsHigh(s, p[1], p[2])}
           Low(s) == {p \in Swings(s).lows \X DOMAIN s :
                        p[2] \in EndOfLow(s, p[1]) /\ SweepsLow(s, p[1], p[2])}
<1>1. /\ Lookback \in Nat \ {0} /\ n \in Nat /\ Len(b) = n + 1
      /\ a \in Series /\ b \in Series /\ c = n + 1 - Lookback
      /\ DOMAIN a = 1..n /\ DOMAIN b = 1..(n + 1)
  BY LookbackAssumption, LongerTypes DEF LookbackAssumption, NewSwing
<1>2. /\ Swings(a).highs = {i \in Swings(b).highs : i # c}
      /\ Swings(a).lows = {i \in Swings(b).lows : i # c}
  BY SwingsStay
<1>3. \A i \in Swings(b).highs \cup Swings(b).lows : i \in 1..n
  BY <1>1, SwingsAmong
<1>4. \A x \in Swings(b).highs \cup Swings(b).lows :
        /\ EndOfHigh(a, x) = {i \in EndOfHigh(b, x) : i <= n}
        /\ EndOfLow(a, x) = {i \in EndOfLow(b, x) : i <= n}
        /\ EndOfHigh(b, x) \cup EndOfLow(b, x) \subseteq (x + 1)..Len(b)
        /\ \A i \in (x + 1)..n : /\ SweepsHigh(b, x, i) <=> SweepsHigh(a, x, i)
                                /\ SweepsLow(b, x, i) <=> SweepsLow(a, x, i)
  BY <1>3, SweepEndsStay
<1>5. \A i \in (c + 1)..n : /\ c \in Swings(b).highs => ~SweepsHigh(b, c, i)
                            /\ c \in Swings(b).lows => ~SweepsLow(b, c, i)
  BY NewSwingUnswept
<1> HIDE DEF n, c
<1>6. ASSUME NEW x \in Swings(b).highs, NEW y \in 1..(n + 1)
      PROVE  (y \in EndOfHigh(b, x) /\ SweepsHigh(b, x, y) /\ y <= n)
               <=> (x # c /\ y \in EndOfHigh(a, x) /\ SweepsHigh(a, x, y))
  <2>1. x \in 1..n /\ EndOfHigh(b, x) \subseteq (x + 1)..(n + 1)
    BY <1>1, <1>3, <1>4
  <2>2. EndOfHigh(a, x) = {i \in EndOfHigh(b, x) : i <= n}
    BY <1>4
  <2>3. CASE y \in (x + 1)..n
    <3>1. \A i \in (x + 1)..n : SweepsHigh(b, x, i) <=> SweepsHigh(a, x, i)
      BY <1>3, <2>1, SweepEndsStay DEF n
    <3>2. SweepsHigh(b, x, y) <=> SweepsHigh(a, x, y)
      BY <2>3, <3>1
    <3>3. x = c => ~SweepsHigh(b, x, y)
      BY <1>5, <2>3
    <3>4. y <= n
      BY <1>1, <2>1, <2>3
    <3> QED BY <2>2, <3>2, <3>3, <3>4
  <2>4. CASE y \notin (x + 1)..n
    <3>1. ~(y \in EndOfHigh(b, x) /\ y <= n)
      BY <1>1, <2>1, <2>4
    <3> QED BY <2>2, <3>1
  <2> QED BY <2>3, <2>4
<1>7. ASSUME NEW x \in Swings(b).lows, NEW y \in 1..(n + 1)
      PROVE  (y \in EndOfLow(b, x) /\ SweepsLow(b, x, y) /\ y <= n)
               <=> (x # c /\ y \in EndOfLow(a, x) /\ SweepsLow(a, x, y))
  <2>1. x \in 1..n /\ EndOfLow(b, x) \subseteq (x + 1)..(n + 1)
    BY <1>1, <1>3, <1>4
  <2>2. EndOfLow(a, x) = {i \in EndOfLow(b, x) : i <= n}
    BY <1>4
  <2>3. CASE y \in (x + 1)..n
    <3>1. \A i \in (x + 1)..n : SweepsLow(b, x, i) <=> SweepsLow(a, x, i)
      BY <1>3, <2>1, SweepEndsStay DEF n
    <3>2. SweepsLow(b, x, y) <=> SweepsLow(a, x, y)
      BY <2>3, <3>1
    <3>3. x = c => ~SweepsLow(b, x, y)
      BY <1>5, <2>3
    <3>4. y <= n
      BY <1>1, <2>1, <2>3
    <3> QED BY <2>2, <3>2, <3>3, <3>4
  <2>4. CASE y \notin (x + 1)..n
    <3>1. ~(y \in EndOfLow(b, x) /\ y <= n)
      BY <1>1, <2>1, <2>4
    <3> QED BY <2>2, <3>1
  <2> QED BY <2>3, <2>4
<1>8. High(a) = {p \in High(b) : p[2] <= n}
  <2>1. ASSUME NEW p \in High(a) PROVE p \in High(b) /\ p[2] <= n
    BY <1>1, <1>2, <1>6
  <2>2. ASSUME NEW p \in High(b), p[2] <= n PROVE p \in High(a)
    BY <1>1, <1>2, <1>6, <2>2
  <2> QED BY <2>1, <2>2
<1>9. Low(a) = {p \in Low(b) : p[2] <= n}
  <2>1. ASSUME NEW p \in Low(a) PROVE p \in Low(b) /\ p[2] <= n
    BY <1>1, <1>2, <1>7
  <2>2. ASSUME NEW p \in Low(b), p[2] <= n PROVE p \in Low(a)
    BY <1>1, <1>2, <1>7, <2>2
  <2> QED BY <2>1, <2>2
<1>10. \A p \in High(b) \cup Low(b) : p[2] <= n <=> p[2] < Len(b)
  BY <1>1
<1>11. \A s : Sweeps(s) = {[swing |-> p[1], bar |-> p[2], direction |-> "bearish"] : p \in High(s)}
                           \cup {[swing |-> p[1], bar |-> p[2], direction |-> "bullish"] : p \in Low(s)}
  BY DEF Sweeps
<1> HIDE DEF High, Low
<1> QED BY <1>8, <1>9, <1>10, <1>11

\* Blocks of a longer series are those of the shorter one, and what the new bar
\* makes one.
LEMMA BlocksStay ==
  ASSUME NEW a, NEW b, OneLonger(a, b), Len(b) > AtrPeriod + 2
  PROVE  DisplacementBlocks(a) = {e \in DisplacementBlocks(b) : e.displacement < Len(b)}
<1> DEFINE n == Len(a)
           Found(s) == {k \in 2..Len(s) : /\ Moves(s, k, BlockRange)
                                          /\ s[k - 1].close # s[k - 1].open
                                          /\ Bias(s[k - 1]) = Opposite(Bias(s[k]))}
<1>1. AtrPeriod \in Nat /\ n \in Nat /\ Len(b) = n + 1 /\ \A i \in 1..n : b[i] = a[i]
  BY AnalysisAssumption, LongerTypes DEF AnalysisAssumption
<1>2. ~(n < AtrPeriod + 2) /\ ~(Len(b) < AtrPeriod + 2)
  BY <1>1
<1>3. /\ DisplacementBlocks(a) =
           {[bar |-> i - 1, displacement |-> i, direction |-> Bias(a[i])] : i \in Found(a)}
      /\ DisplacementBlocks(b) =
           {[bar |-> i - 1, displacement |-> i, direction |-> Bias(b[i])] : i \in Found(b)}
  BY <1>2 DEF DisplacementBlocks
<1>4. ASSUME NEW k \in 2..n
      PROVE  k \in Found(a) <=> k \in Found(b)
  <2>1. b[k] = a[k] /\ b[k - 1] = a[k - 1]
    BY <1>1
  <2> QED BY <1>1, <2>1 DEF Moves
<1>5. Found(a) = {k \in Found(b) : k < Len(b)} /\ \A k \in Found(a) : b[k] = a[k]
  <2>1. Found(a) \subseteq 2..n /\ \A k \in Found(b) : k < Len(b) => k \in 2..n
    BY <1>1
  <2> HIDE DEF Found
  <2> QED BY <1>1, <1>4, <2>1
<1> HIDE DEF Found
<1> QED BY <1>3, <1>5

\* A displacement is behind a block where the candle before it went against it.
LEMMA DisplacementsMakeBlocks ==
  ASSUME NEW b \in Series, Len(b) > AtrPeriod + 2, NEW d \in Displacements(b)
  PROVE  (\E e \in DisplacementBlocks(b) : e.displacement = d.bar)
           <=> d.bar > 1 /\ (IF d.direction = "bullish" THEN Bearish(b[d.bar - 1])
                                                         ELSE Bullish(b[d.bar - 1]))
<1> DEFINE n == Len(b)
           Found == {k \in 2..n : /\ Moves(b, k, BlockRange)
                                   /\ b[k - 1].close # b[k - 1].open
                                   /\ Bias(b[k - 1]) = Opposite(Bias(b[k]))}
<1>1. /\ AtrPeriod \in Nat /\ BlockRange \in Nat /\ DisplacementRange \in Nat
      /\ DisplacementRange >= BlockRange
      /\ n \in Nat /\ DOMAIN b = 1..n
      /\ \A i \in 1..n : {b[i].open, b[i].high, b[i].low, b[i].close} \subseteq Int
  BY AnalysisAssumption, SeriesType DEF AnalysisAssumption
<1>2. ~(n < AtrPeriod + 1) /\ ~(n < AtrPeriod + 2)
  BY <1>1
<1>3. PICK k \in 1..n : /\ d = [bar |-> k, direction |-> Bias(b[k])]
                         /\ Moves(b, k, DisplacementRange)
  BY <1>1, <1>2 DEF Displacements
<1>4. Moves(b, k, BlockRange)
  BY <1>1, <1>3 DEF Moves, RangeOf
<1>5. DisplacementBlocks(b) =
        {[bar |-> i - 1, displacement |-> i, direction |-> Bias(b[i])] : i \in Found}
  BY <1>2 DEF DisplacementBlocks
<1>6. d.bar = k /\ d.direction = Bias(b[k])
  BY <1>3
<1>7. (\E e \in DisplacementBlocks(b) : e.displacement = k) <=> k \in Found
  <2> HIDE DEF Found
  <2>1. ASSUME k \in Found
        PROVE  \E e \in DisplacementBlocks(b) : e.displacement = k
    <3> DEFINE e == [bar |-> k - 1, displacement |-> k, direction |-> Bias(b[k])]
    <3>1. e \in DisplacementBlocks(b)
      BY <1>5, <2>1
    <3>2. e.displacement = k
      OBVIOUS
    <3> QED BY <3>1, <3>2
  <2>2. ASSUME NEW e \in DisplacementBlocks(b), e.displacement = k
        PROVE  k \in Found
    <3>1. PICK i \in Found : e = [bar |-> i - 1, displacement |-> i, direction |-> Bias(b[i])]
      BY <1>5, <2>2
    <3> QED BY <2>2, <3>1
  <2> QED BY <2>1, <2>2
<1>8. CASE k = 1
  BY <1>1, <1>6, <1>7, <1>8
<1>9. CASE k # 1
  <2>1. k \in 2..n /\ k - 1 \in 1..n /\ k > 1
    BY <1>1, <1>9
  <2>2. {b[k - 1].open, b[k - 1].close} \subseteq Int
    BY <1>1, <2>1
  <2>3. k \in Found <=> (IF Bias(b[k]) = "bullish" THEN Bearish(b[k - 1]) ELSE Bullish(b[k - 1]))
    BY <1>4, <2>1, <2>2 DEF Bias, Opposite, Bearish, Bullish
  <2> HIDE DEF Found
  <2> QED BY <1>6, <1>7, <2>1, <2>3
<1> QED BY <1>8, <1>9

-----------------------------------------------------------------------------
(* Chart patterns.                                                         *)

\* Neighbours among the points but the last are neighbours among all of them.
LEMMA RowsStay ==
  ASSUME NEW c \in Int, NEW Q \in SUBSET Nat, NEW P,
         \A i \in Q : i <= c,
         P = {i \in Q : i # c}
  PROVE  /\ InARow(P) = {p \in InARow(Q) : p[2] < c}
         /\ ThreeInARow(P) = {p \in ThreeInARow(Q) : p[3] < c}
<1>1. ASSUME NEW x, NEW y
      PROVE  <<x, y>> \in InARow(P) <=> <<x, y>> \in InARow(Q) /\ y < c
  <2>1. \A R : <<x, y>> \in InARow(R)
                 <=> x \in R /\ y \in R /\ x < y /\ ~\E q \in R : x < q /\ q < y
    BY DEF InARow
  <2>2. ASSUME x \in P, y \in P, x < y, \A q \in P : ~(x < q /\ q < y)
        PROVE  y < c /\ \A q \in Q : ~(x < q /\ q < y)
    <3>1. y \in Nat /\ y <= c /\ y # c
      BY <2>2
    <3>2. ~(c < y)
      BY <3>1
    <3> QED BY <2>2, <3>1, <3>2
  <2>3. ASSUME x \in Q, y \in Q, x < y, y < c
        PROVE  x \in P /\ y \in P
    BY <2>3
  <2> QED BY <2>1, <2>2, <2>3
<1>2. \A p \in InARow(P) \cup InARow(Q) : p = <<p[1], p[2]>>
  BY DEF InARow
<1>3. InARow(P) = {p \in InARow(Q) : p[2] < c}
  BY <1>1, <1>2
<1>4. \A p \in ThreeInARow(Q) : p[2] < p[3] /\ {p[2], p[3]} \subseteq Q
  BY DEF ThreeInARow, InARow
<1>5. ASSUME NEW p \in ThreeInARow(P) PROVE p \in ThreeInARow(Q) /\ p[3] < c
  BY <1>1 DEF ThreeInARow
<1>6. ASSUME NEW p \in ThreeInARow(Q), p[3] < c PROVE p \in ThreeInARow(P)
  <2>1. p[2] < c
    <3>1. {p[2], p[3]} \subseteq Q /\ p[2] < p[3]
      BY <1>4, <1>6
    <3>2. p[2] \in Nat /\ p[3] \in Nat
      BY <3>1
    <3> QED BY <1>6, <3>1, <3>2
  <2>2. <<p[1], p[2]>> \in InARow(P) /\ <<p[2], p[3]>> \in InARow(P)
    BY <1>1, <1>6, <2>1 DEF ThreeInARow
  <2>3. p \in P \X P \X P
    BY <1>6, <2>2 DEF ThreeInARow, InARow
  <2> QED BY <2>2, <2>3 DEF ThreeInARow
<1> QED BY <1>3, <1>5, <1>6

\* The points, the prices and the closes a pattern rests on are those of the
\* shorter series.
LEMMA NecklinesStay ==
  ASSUME NEW a, NEW b, OneLonger(a, b), NEW points \in SUBSET (1..Len(a))
  PROVE  Lows(a, points) = Lows(b, points) /\ Highs(a, points) = Highs(b, points)
<1>1. \A i \in points : b[i] = a[i]
  BY LongerTypes
<1>2. Lows(a, points) = Lows(b, points)
  BY <1>1 DEF Lows
<1>3. Highs(a, points) = Highs(b, points)
  BY <1>1 DEF Highs
<1> QED BY <1>2, <1>3

LEMMA ClosesStay ==
  ASSUME NEW a, NEW b, OneLonger(a, b), NEW after \in Nat, NEW neckline
  PROVE  /\ FirstBelow(a, after, neckline) = {i \in FirstBelow(b, after, neckline) : i <= Len(a)}
         /\ FirstAbove(a, after, neckline) = {i \in FirstAbove(b, after, neckline) : i <= Len(a)}
         /\ FirstBelow(b, after, neckline) \subseteq (after + 1)..Len(b)
         /\ FirstAbove(b, after, neckline) \subseteq (after + 1)..Len(b)
<1> DEFINE n == Len(a)
           A == {j \in (after + 1)..n : a[j].close < neckline}
           B == {j \in (after + 1)..(n + 1) : b[j].close < neckline}
           C == {j \in (after + 1)..n : a[j].close > neckline}
           D == {j \in (after + 1)..(n + 1) : b[j].close > neckline}
<1>1. n \in Nat /\ Len(b) = n + 1 /\ \A i \in 1..n : b[i] = a[i]
  BY LongerTypes
<1>2. /\ FirstBelow(a, after, neckline) = Earliest(A)
      /\ FirstBelow(b, after, neckline) = Earliest(B)
      /\ FirstAbove(a, after, neckline) = Earliest(C)
      /\ FirstAbove(b, after, neckline) = Earliest(D)
  BY <1>1 DEF FirstBelow, FirstAbove
<1> HIDE DEF n
<1>3. A \in SUBSET Nat /\ B \in SUBSET Nat /\ C \in SUBSET Nat /\ D \in SUBSET Nat
  BY <1>1
<1>4. \A j \in (after + 1)..n : b[j] = a[j]
  BY <1>1
<1>5. A = {j \in B : j <= n} /\ C = {j \in D : j <= n}
  BY <1>1, <1>4
<1>6. B \subseteq (after + 1)..(n + 1) /\ D \subseteq (after + 1)..(n + 1)
  OBVIOUS
<1> HIDE DEF A, B, C, D
<1>7. /\ Earliest(A) = {j \in Earliest(B) : j <= n} /\ Earliest(B) \subseteq B
      /\ Earliest(C) = {j \in Earliest(D) : j <= n} /\ Earliest(D) \subseteq D
  BY <1>1, <1>3, <1>5, EarliestStays
<1> QED BY <1>1, <1>2, <1>6, <1>7 DEF n

\* Nothing in A is withdrawn, and what is new was not confirmed before bar c.
Stays(A, B, c) == A \subseteq B /\ \A e \in B : e.bar < c => e \in A

\* A detector's confirmed patterns, from the closes that confirm each.
AllConfirmed(pattern, found, closes) ==
  UNION {Confirmed(pattern, p, closes[p]) : p \in found}

LEMMA ConfirmedStay ==
  ASSUME NEW pattern, NEW n \in Nat, NEW c \in Int, c <= n,
         NEW S, NEW T, NEW last, NEW f, NEW g,
         S = {p \in T : last[p] < c},
         \A p \in T : last[p] \in Nat /\ g[p] \subseteq {i \in Nat : last[p] < i},
         \A p \in S : f[p] = {i \in g[p] : i <= n}
  PROVE  Stays(AllConfirmed(pattern, S, f), AllConfirmed(pattern, T, g), c)
<1>1. ASSUME NEW e \in AllConfirmed(pattern, S, f)
      PROVE  e \in AllConfirmed(pattern, T, g)
  <2>1. PICK p \in S : e \in Confirmed(pattern, p, f[p])
    BY <1>1 DEF AllConfirmed
  <2>2. e \in Confirmed(pattern, p, g[p])
    BY <2>1 DEF Confirmed
  <2> QED BY <2>1, <2>2 DEF AllConfirmed
<1>2. ASSUME NEW e \in AllConfirmed(pattern, T, g), e.bar < c
      PROVE  e \in AllConfirmed(pattern, S, f)
  <2>1. PICK p \in T : e \in Confirmed(pattern, p, g[p])
    BY <1>2 DEF AllConfirmed
  <2>2. PICK j \in g[p] : e = [pattern |-> pattern, swings |-> p, bar |-> j]
    BY <2>1 DEF Confirmed
  <2>3. j \in Nat /\ last[p] < j /\ last[p] \in Nat /\ j < c
    BY <1>2, <2>2
  <2>4. p \in S /\ j \in f[p]
    BY <2>3
  <2>5. e \in Confirmed(pattern, p, f[p])
    BY <2>2, <2>4 DEF Confirmed
  <2> QED BY <2>4, <2>5 DEF AllConfirmed
<1> QED BY <1>1, <1>2 DEF Stays

\* What the detectors build on, of a series and of one a bar longer.
LEMMA PatternsRest ==
  ASSUME NEW a, NEW b, OneLonger(a, b)
  PROVE  LET c == NewSwing(a)
         IN /\ c \in Int /\ c <= Len(a) /\ Len(a) \in Nat
            /\ InARow(Swings(a).highs) = {p \in InARow(Swings(b).highs) : p[2] < c}
            /\ InARow(Swings(a).lows) = {p \in InARow(Swings(b).lows) : p[2] < c}
            /\ ThreeInARow(Swings(a).highs) = {p \in ThreeInARow(Swings(b).highs) : p[3] < c}
            /\ ThreeInARow(Swings(a).lows) = {p \in ThreeInARow(Swings(b).lows) : p[3] < c}
            /\ Swings(b).highs \cup Swings(b).lows \subseteq 1..Len(a)
            /\ \A i \in 1..Len(a) : b[i] = a[i]
<1> DEFINE c == NewSwing(a)
           n == Len(a)
           H == Swings(b).highs
           L == Swings(b).lows
<1>1. /\ Lookback \in Nat \ {0} /\ n \in Nat /\ Len(b) = n + 1
      /\ b \in Series /\ c = n + 1 - Lookback
      /\ \A i \in 1..n : b[i] = a[i]
  BY LookbackAssumption, LongerTypes DEF LookbackAssumption, NewSwing
<1>2. Swings(a).highs = {i \in H : i # c} /\ Swings(a).lows = {i \in L : i # c}
  BY SwingsStay
<1> HIDE DEF c, n
<1>3. \A i \in H \cup L : i \in 1..Len(b) /\ i <= Len(b) - Lookback
  BY <1>1, SwingsAmong
<1>4. \A i \in H \cup L : i \in 1..n /\ i \in Nat /\ i <= c
  BY <1>1, <1>3
<1>5. c \in Int /\ c <= n
  BY <1>1
<1> HIDE DEF H, L
<1>6. /\ InARow(Swings(a).highs) = {p \in InARow(H) : p[2] < c}
      /\ ThreeInARow(Swings(a).highs) = {p \in ThreeInARow(H) : p[3] < c}
  <2>1. H \in SUBSET Nat /\ \A i \in H : i <= c
    BY <1>4
  <2> QED BY <1>2, <1>5, <2>1, RowsStay
<1>7. /\ InARow(Swings(a).lows) = {p \in InARow(L) : p[2] < c}
      /\ ThreeInARow(Swings(a).lows) = {p \in ThreeInARow(L) : p[3] < c}
  <2>1. L \in SUBSET Nat /\ \A i \in L : i <= c
    BY <1>4
  <2> QED BY <1>2, <1>5, <2>1, RowsStay
<1> QED BY <1>1, <1>4, <1>5, <1>6, <1>7 DEF c, n, H, L

LEMMA BetweenStays ==
  ASSUME NEW a, NEW b, OneLonger(a, b), NEW first, NEW last \in Nat, last < NewSwing(a)
  PROVE  /\ Within(Swings(a).highs, first, last) = Within(Swings(b).highs, first, last)
         /\ Within(Swings(a).lows, first, last) = Within(Swings(b).lows, first, last)
<1> DEFINE c == NewSwing(a)
           H == Swings(b).highs
           L == Swings(b).lows
<1>1. Swings(a).highs = {i \in H : i # c} /\ Swings(a).lows = {i \in L : i # c}
  BY SwingsStay
<1>2. H \cup L \subseteq Nat /\ c \in Int /\ last < c
  BY PatternsRest
<1> HIDE DEF c, H, L
<1>3. \A i \in H \cup L : i < last => i # c
  BY <1>2
<1>4. Within(Swings(a).highs, first, last) = Within(H, first, last)
  BY <1>1, <1>3 DEF Within
<1>5. Within(Swings(a).lows, first, last) = Within(L, first, last)
  BY <1>1, <1>3 DEF Within
<1> QED BY <1>4, <1>5 DEF H, L

LEMMA DoubleTopsStay ==
  ASSUME NEW a, NEW b, OneLonger(a, b)
  PROVE  Stays(DoubleTops(a), DoubleTops(b), NewSwing(a))
<1> DEFINE c == NewSwing(a)
           n == Len(a)
           Between(s, p) == Within(Swings(s).lows, p[1], p[2])
           Shaped(s, p) == /\ Similar(s[p[1]].high, s[p[2]].high, TopTolerance)
                            /\ Between(s, p) # {}
           Closes(s, p) == FirstBelow(s, p[2], Min(Lows(s, Between(s, p))))
           S == {p \in InARow(Swings(a).highs) : Shaped(a, p)}
           T == {p \in InARow(Swings(b).highs) : Shaped(b, p)}
           f == [p \in S |-> Closes(a, p)]
           g == [p \in T |-> Closes(b, p)]
           last == [p \in T |-> p[2]]
<1>1. /\ c \in Int /\ c <= n /\ n \in Nat
      /\ InARow(Swings(a).highs) = {p \in InARow(Swings(b).highs) : p[2] < c}
      /\ Swings(b).highs \cup Swings(b).lows \subseteq 1..n
      /\ \A i \in 1..n : b[i] = a[i]
  BY PatternsRest
<1>2. DoubleTops(a) = AllConfirmed("double_top", S, f)
  BY DEF DoubleTops, AllConfirmed
<1>3. DoubleTops(b) = AllConfirmed("double_top", T, g)
  BY DEF DoubleTops, AllConfirmed
<1> HIDE DEF n, c
<1>4. \A p \in InARow(Swings(b).highs) : {p[1], p[2]} \subseteq 1..n
  BY <1>1 DEF InARow
<1>5. ASSUME NEW p \in InARow(Swings(b).highs), p[2] < c
      PROVE  Between(a, p) = Between(b, p) /\ Between(b, p) \in SUBSET (1..n)
  <2>1. p[2] \in Nat
    BY <1>1, <1>4
  <2>2. Between(a, p) = Between(b, p)
    BY <1>5, <2>1, BetweenStays DEF c
  <2>3. Between(b, p) \subseteq 1..n
    BY <1>1 DEF Within
  <2> QED BY <2>2, <2>3
<1>6. ASSUME NEW p \in InARow(Swings(b).highs), p[2] < c
      PROVE  Shaped(a, p) <=> Shaped(b, p)
  <2>1. b[p[1]] = a[p[1]] /\ b[p[2]] = a[p[2]]
    BY <1>1, <1>4
  <2>2. Between(a, p) = Between(b, p)
    BY <1>5, <1>6
  <2> HIDE DEF Between
  <2> QED BY <2>1, <2>2
<1>7. S = {p \in T : last[p] < c}
  <2> HIDE DEF Shaped
  <2> QED BY <1>1, <1>6
<1>8. ASSUME NEW p \in T
      PROVE  last[p] \in Nat /\ g[p] \subseteq {i \in Nat : last[p] < i}
  <2> HIDE DEF Shaped
  <2>1. p[2] \in 1..n /\ last[p] = p[2]
    BY <1>4
  <2>2. p[2] \in Nat
    BY <1>1, <2>1
  <2> DEFINE neckline == Min(Lows(b, Between(b, p)))
  <2>3. g[p] = FirstBelow(b, p[2], neckline)
    OBVIOUS
  <2> HIDE DEF neckline, g, T
  <2>4. g[p] \subseteq (p[2] + 1)..Len(b)
    BY <2>2, <2>3, ClosesStay
  <2>5. Len(b) \in Nat
    BY LongerTypes
  <2> QED BY <2>1, <2>2, <2>4, <2>5
<1>9. ASSUME NEW p \in S
       PROVE  f[p] = {i \in g[p] : i <= n}
  <2>1. p \in T /\ p[2] < c
    <3> HIDE DEF Shaped
    <3>1. p \in T /\ last[p] < c
      BY <1>7, <1>9
    <3> QED BY <3>1
  <2>2. Between(a, p) = Between(b, p) /\ Between(b, p) \in SUBSET (1..Len(a))
    BY <1>5, <2>1 DEF n
  <2>3. Lows(a, Between(a, p)) = Lows(b, Between(b, p))
    <3> HIDE DEF Between
    <3> QED BY <2>2, NecklinesStay
  <2> DEFINE neckline == Min(Lows(b, Between(b, p)))
  <2>4. g[p] = FirstBelow(b, p[2], neckline) /\ f[p] = FirstBelow(a, p[2], neckline)
    BY <2>1, <2>3
  <2>5. p[2] \in Nat
    BY <1>1, <1>4, <2>1
  <2> HIDE DEF neckline, f, g, S, T
  <2> QED BY <2>4, <2>5, ClosesStay DEF n
<1> HIDE DEF S, T, f, g, last
<1> QED BY <1>1, <1>2, <1>3, <1>7, <1>8, <1>9, ConfirmedStay DEF c

LEMMA DoubleBottomsStay ==
  ASSUME NEW a, NEW b, OneLonger(a, b)
  PROVE  Stays(DoubleBottoms(a), DoubleBottoms(b), NewSwing(a))
<1> DEFINE c == NewSwing(a)
           n == Len(a)
           Between(s, p) == Within(Swings(s).highs, p[1], p[2])
           Shaped(s, p) == /\ Similar(s[p[1]].low, s[p[2]].low, TopTolerance)
                            /\ Between(s, p) # {}
           Closes(s, p) == FirstAbove(s, p[2], Max(Highs(s, Between(s, p))))
           S == {p \in InARow(Swings(a).lows) : Shaped(a, p)}
           T == {p \in InARow(Swings(b).lows) : Shaped(b, p)}
           f == [p \in S |-> Closes(a, p)]
           g == [p \in T |-> Closes(b, p)]
           last == [p \in T |-> p[2]]
<1>1. /\ c \in Int /\ c <= n /\ n \in Nat
      /\ InARow(Swings(a).lows) = {p \in InARow(Swings(b).lows) : p[2] < c}
      /\ Swings(b).highs \cup Swings(b).lows \subseteq 1..n
      /\ \A i \in 1..n : b[i] = a[i]
  BY PatternsRest
<1>2. DoubleBottoms(a) = AllConfirmed("double_bottom", S, f)
  BY DEF DoubleBottoms, AllConfirmed
<1>3. DoubleBottoms(b) = AllConfirmed("double_bottom", T, g)
  BY DEF DoubleBottoms, AllConfirmed
<1> HIDE DEF n, c
<1>4. \A p \in InARow(Swings(b).lows) : {p[1], p[2]} \subseteq 1..n
  BY <1>1 DEF InARow
<1>5. ASSUME NEW p \in InARow(Swings(b).lows), p[2] < c
      PROVE  Between(a, p) = Between(b, p) /\ Between(b, p) \in SUBSET (1..n)
  <2>1. p[2] \in Nat
    BY <1>1, <1>4
  <2>2. Between(a, p) = Between(b, p)
    BY <1>5, <2>1, BetweenStays DEF c
  <2>3. Between(b, p) \subseteq 1..n
    BY <1>1 DEF Within
  <2> QED BY <2>2, <2>3
<1>6. ASSUME NEW p \in InARow(Swings(b).lows), p[2] < c
      PROVE  Shaped(a, p) <=> Shaped(b, p)
  <2>1. b[p[1]] = a[p[1]] /\ b[p[2]] = a[p[2]]
    BY <1>1, <1>4
  <2>2. Between(a, p) = Between(b, p)
    BY <1>5, <1>6
  <2> HIDE DEF Between
  <2> QED BY <2>1, <2>2
<1>7. S = {p \in T : last[p] < c}
  <2> HIDE DEF Shaped
  <2> QED BY <1>1, <1>6
<1>8. ASSUME NEW p \in T
      PROVE  last[p] \in Nat /\ g[p] \subseteq {i \in Nat : last[p] < i}
  <2> HIDE DEF Shaped
  <2>1. p[2] \in 1..n /\ last[p] = p[2]
    BY <1>4
  <2>2. p[2] \in Nat
    BY <1>1, <2>1
  <2> DEFINE neckline == Max(Highs(b, Between(b, p)))
  <2>3. g[p] = FirstAbove(b, p[2], neckline)
    OBVIOUS
  <2> HIDE DEF neckline, g, T
  <2>4. g[p] \subseteq (p[2] + 1)..Len(b)
    BY <2>2, <2>3, ClosesStay
  <2>5. Len(b) \in Nat
    BY LongerTypes
  <2> QED BY <2>1, <2>2, <2>4, <2>5
<1>9. ASSUME NEW p \in S
       PROVE  f[p] = {i \in g[p] : i <= n}
  <2>1. p \in T /\ p[2] < c
    <3> HIDE DEF Shaped
    <3>1. p \in T /\ last[p] < c
      BY <1>7, <1>9
    <3> QED BY <3>1
  <2>2. Between(a, p) = Between(b, p) /\ Between(b, p) \in SUBSET (1..Len(a))
    BY <1>5, <2>1 DEF n
  <2>3. Highs(a, Between(a, p)) = Highs(b, Between(b, p))
    <3> HIDE DEF Between
    <3> QED BY <2>2, NecklinesStay
  <2> DEFINE neckline == Max(Highs(b, Between(b, p)))
  <2>4. g[p] = FirstAbove(b, p[2], neckline) /\ f[p] = FirstAbove(a, p[2], neckline)
    BY <2>1, <2>3
  <2>5. p[2] \in Nat
    BY <1>1, <1>4, <2>1
  <2> HIDE DEF neckline, f, g, S, T
  <2> QED BY <2>4, <2>5, ClosesStay DEF n
<1> HIDE DEF S, T, f, g, last
<1> QED BY <1>1, <1>2, <1>3, <1>7, <1>8, <1>9, ConfirmedStay DEF c

LEMMA HeadAndShouldersStay ==
  ASSUME NEW a, NEW b, OneLonger(a, b)
  PROVE  Stays(HeadAndShoulders(a), HeadAndShoulders(b), NewSwing(a))
<1> DEFINE c == NewSwing(a)
           n == Len(a)
           Between(s, p) == Within(Swings(s).lows, p[1], p[3])
           Shaped(s, p) == /\ s[p[2]].high > Max({s[p[1]].high, s[p[3]].high})
                            /\ Similar(s[p[1]].high, s[p[3]].high, ShoulderTolerance)
                            /\ Cardinality(Between(s, p)) >= 2
           Closes(s, p) == FirstBelow(s, p[3], Max(Lows(s, Between(s, p))))
           S == {p \in ThreeInARow(Swings(a).highs) : Shaped(a, p)}
           T == {p \in ThreeInARow(Swings(b).highs) : Shaped(b, p)}
           f == [p \in S |-> Closes(a, p)]
           g == [p \in T |-> Closes(b, p)]
           last == [p \in T |-> p[3]]
<1>1. /\ c \in Int /\ c <= n /\ n \in Nat
      /\ ThreeInARow(Swings(a).highs) = {p \in ThreeInARow(Swings(b).highs) : p[3] < c}
      /\ Swings(b).highs \cup Swings(b).lows \subseteq 1..n
      /\ \A i \in 1..n : b[i] = a[i]
  BY PatternsRest
<1>2. HeadAndShoulders(a) = AllConfirmed("head_and_shoulders", S, f)
  BY DEF HeadAndShoulders, AllConfirmed
<1>3. HeadAndShoulders(b) = AllConfirmed("head_and_shoulders", T, g)
  BY DEF HeadAndShoulders, AllConfirmed
<1> HIDE DEF n, c
<1>4. \A p \in ThreeInARow(Swings(b).highs) : {p[1], p[2], p[3]} \subseteq 1..n
  BY <1>1 DEF ThreeInARow
<1>5. ASSUME NEW p \in ThreeInARow(Swings(b).highs), p[3] < c
      PROVE  Between(a, p) = Between(b, p) /\ Between(b, p) \in SUBSET (1..n)
  <2>1. p[3] \in Nat
    BY <1>1, <1>4
  <2>2. Between(a, p) = Between(b, p)
    BY <1>5, <2>1, BetweenStays DEF c
  <2>3. Between(b, p) \subseteq 1..n
    BY <1>1 DEF Within
  <2> QED BY <2>2, <2>3
<1>6. ASSUME NEW p \in ThreeInARow(Swings(b).highs), p[3] < c
      PROVE  Shaped(a, p) <=> Shaped(b, p)
  <2>1. b[p[1]] = a[p[1]] /\ b[p[2]] = a[p[2]] /\ b[p[3]] = a[p[3]]
    BY <1>1, <1>4
  <2>2. Between(a, p) = Between(b, p)
    BY <1>5, <1>6
  <2> HIDE DEF Between
  <2> QED BY <2>1, <2>2
<1>7. S = {p \in T : last[p] < c}
  <2> HIDE DEF Shaped
  <2> QED BY <1>1, <1>6
<1>8. ASSUME NEW p \in T
      PROVE  last[p] \in Nat /\ g[p] \subseteq {i \in Nat : last[p] < i}
  <2> HIDE DEF Shaped
  <2>1. p[3] \in 1..n /\ last[p] = p[3]
    BY <1>4
  <2>2. p[3] \in Nat
    BY <1>1, <2>1
  <2> DEFINE neckline == Max(Lows(b, Between(b, p)))
  <2>3. g[p] = FirstBelow(b, p[3], neckline)
    OBVIOUS
  <2> HIDE DEF neckline, g, T
  <2>4. g[p] \subseteq (p[3] + 1)..Len(b)
    BY <2>2, <2>3, ClosesStay
  <2>5. Len(b) \in Nat
    BY LongerTypes
  <2> QED BY <2>1, <2>2, <2>4, <2>5
<1>9. ASSUME NEW p \in S
       PROVE  f[p] = {i \in g[p] : i <= n}
  <2>1. p \in T /\ p[3] < c
    <3> HIDE DEF Shaped
    <3>1. p \in T /\ last[p] < c
      BY <1>7, <1>9
    <3> QED BY <3>1
  <2>2. Between(a, p) = Between(b, p) /\ Between(b, p) \in SUBSET (1..Len(a))
    BY <1>5, <2>1 DEF n
  <2>3. Lows(a, Between(a, p)) = Lows(b, Between(b, p))
    <3> HIDE DEF Between
    <3> QED BY <2>2, NecklinesStay
  <2> DEFINE neckline == Max(Lows(b, Between(b, p)))
  <2>4. g[p] = FirstBelow(b, p[3], neckline) /\ f[p] = FirstBelow(a, p[3], neckline)
    BY <2>1, <2>3
  <2>5. p[3] \in Nat
    BY <1>1, <1>4, <2>1
  <2> HIDE DEF neckline, f, g, S, T
  <2> QED BY <2>4, <2>5, ClosesStay DEF n
<1> HIDE DEF S, T, f, g, last
<1> QED BY <1>1, <1>2, <1>3, <1>7, <1>8, <1>9, ConfirmedStay DEF c

LEMMA InverseHeadAndShouldersStay ==
  ASSUME NEW a, NEW b, OneLonger(a, b)
  PROVE  Stays(InverseHeadAndShoulders(a), InverseHeadAndShoulders(b), NewSwing(a))
<1> DEFINE c == NewSwing(a)
           n == Len(a)
           Between(s, p) == Within(Swings(s).highs, p[1], p[3])
           Shaped(s, p) == /\ s[p[2]].low < Min({s[p[1]].low, s[p[3]].low})
                            /\ Similar(s[p[1]].low, s[p[3]].low, ShoulderTolerance)
                            /\ Cardinality(Between(s, p)) >= 2
           Closes(s, p) == FirstAbove(s, p[3], Min(Highs(s, Between(s, p))))
           S == {p \in ThreeInARow(Swings(a).lows) : Shaped(a, p)}
           T == {p \in ThreeInARow(Swings(b).lows) : Shaped(b, p)}
           f == [p \in S |-> Closes(a, p)]
           g == [p \in T |-> Closes(b, p)]
           last == [p \in T |-> p[3]]
<1>1. /\ c \in Int /\ c <= n /\ n \in Nat
      /\ ThreeInARow(Swings(a).lows) = {p \in ThreeInARow(Swings(b).lows) : p[3] < c}
      /\ Swings(b).highs \cup Swings(b).lows \subseteq 1..n
      /\ \A i \in 1..n : b[i] = a[i]
  BY PatternsRest
<1>2. InverseHeadAndShoulders(a) = AllConfirmed("inverse_head_and_shoulders", S, f)
  BY DEF InverseHeadAndShoulders, AllConfirmed
<1>3. InverseHeadAndShoulders(b) = AllConfirmed("inverse_head_and_shoulders", T, g)
  BY DEF InverseHeadAndShoulders, AllConfirmed
<1> HIDE DEF n, c
<1>4. \A p \in ThreeInARow(Swings(b).lows) : {p[1], p[2], p[3]} \subseteq 1..n
  BY <1>1 DEF ThreeInARow
<1>5. ASSUME NEW p \in ThreeInARow(Swings(b).lows), p[3] < c
      PROVE  Between(a, p) = Between(b, p) /\ Between(b, p) \in SUBSET (1..n)
  <2>1. p[3] \in Nat
    BY <1>1, <1>4
  <2>2. Between(a, p) = Between(b, p)
    BY <1>5, <2>1, BetweenStays DEF c
  <2>3. Between(b, p) \subseteq 1..n
    BY <1>1 DEF Within
  <2> QED BY <2>2, <2>3
<1>6. ASSUME NEW p \in ThreeInARow(Swings(b).lows), p[3] < c
      PROVE  Shaped(a, p) <=> Shaped(b, p)
  <2>1. b[p[1]] = a[p[1]] /\ b[p[2]] = a[p[2]] /\ b[p[3]] = a[p[3]]
    BY <1>1, <1>4
  <2>2. Between(a, p) = Between(b, p)
    BY <1>5, <1>6
  <2> HIDE DEF Between
  <2> QED BY <2>1, <2>2
<1>7. S = {p \in T : last[p] < c}
  <2> HIDE DEF Shaped
  <2> QED BY <1>1, <1>6
<1>8. ASSUME NEW p \in T
      PROVE  last[p] \in Nat /\ g[p] \subseteq {i \in Nat : last[p] < i}
  <2> HIDE DEF Shaped
  <2>1. p[3] \in 1..n /\ last[p] = p[3]
    BY <1>4
  <2>2. p[3] \in Nat
    BY <1>1, <2>1
  <2> DEFINE neckline == Min(Highs(b, Between(b, p)))
  <2>3. g[p] = FirstAbove(b, p[3], neckline)
    OBVIOUS
  <2> HIDE DEF neckline, g, T
  <2>4. g[p] \subseteq (p[3] + 1)..Len(b)
    BY <2>2, <2>3, ClosesStay
  <2>5. Len(b) \in Nat
    BY LongerTypes
  <2> QED BY <2>1, <2>2, <2>4, <2>5
<1>9. ASSUME NEW p \in S
       PROVE  f[p] = {i \in g[p] : i <= n}
  <2>1. p \in T /\ p[3] < c
    <3> HIDE DEF Shaped
    <3>1. p \in T /\ last[p] < c
      BY <1>7, <1>9
    <3> QED BY <3>1
  <2>2. Between(a, p) = Between(b, p) /\ Between(b, p) \in SUBSET (1..Len(a))
    BY <1>5, <2>1 DEF n
  <2>3. Highs(a, Between(a, p)) = Highs(b, Between(b, p))
    <3> HIDE DEF Between
    <3> QED BY <2>2, NecklinesStay
  <2> DEFINE neckline == Min(Highs(b, Between(b, p)))
  <2>4. g[p] = FirstAbove(b, p[3], neckline) /\ f[p] = FirstAbove(a, p[3], neckline)
    BY <2>1, <2>3
  <2>5. p[3] \in Nat
    BY <1>1, <1>4, <2>1
  <2> HIDE DEF neckline, f, g, S, T
  <2> QED BY <2>4, <2>5, ClosesStay DEF n
<1> HIDE DEF S, T, f, g, last
<1> QED BY <1>1, <1>2, <1>3, <1>7, <1>8, <1>9, ConfirmedStay DEF c

LEMMA PatternsStay ==
  ASSUME NEW a, NEW b, OneLonger(a, b)
  PROVE  Stays(Patterns(a), Patterns(b), Len(b) - Lookback)
<1>1. Len(b) - Lookback = NewSwing(a)
  BY LongerTypes, LookbackAssumption DEF NewSwing, LookbackAssumption
<1>2. /\ Stays(DoubleTops(a), DoubleTops(b), NewSwing(a))
      /\ Stays(DoubleBottoms(a), DoubleBottoms(b), NewSwing(a))
      /\ Stays(HeadAndShoulders(a), HeadAndShoulders(b), NewSwing(a))
      /\ Stays(InverseHeadAndShoulders(a), InverseHeadAndShoulders(b), NewSwing(a))
  BY DoubleTopsStay, DoubleBottomsStay, HeadAndShouldersStay, InverseHeadAndShouldersStay
<1> QED BY <1>1, <1>2 DEF Stays, Patterns

\* Sweeps, order blocks and chart patterns are never withdrawn, whatever the series
\* and the detectors' settings (smc.py:102-186, ict.py:12-45,
\* chart_patterns.py:26-146).
THEOREM EventsStay == Growth => EventsNeverWithdrawn
<1>1. ASSUME SeriesInv, SeriesInv', AnotherBar
      PROVE  LET sweeps == Sweeps(bars')
                 blocks == DisplacementBlocks(bars')
                 displacements == Displacements(bars')
                 patterns == Patterns(bars')
                 n == Len(bars')
             IN /\ Sweeps(bars) = {e \in sweeps : e.bar < n}
                /\ n > AtrPeriod + 2 => DisplacementBlocks(bars) = {b \in blocks : b.displacement < n}
                /\ n > AtrPeriod + 2 =>
                     \A d \in displacements :
                       (\E b \in blocks : b.displacement = d.bar)
                         <=> d.bar > 1 /\ (IF d.direction = "bullish" THEN Bearish(bars'[d.bar - 1])
                                                                       ELSE Bullish(bars'[d.bar - 1]))
                /\ Patterns(bars) \subseteq patterns
                /\ {p \in patterns : p.bar < n - Lookback} \subseteq Patterns(bars)
  <2>1. PICK a, z : a = bars /\ z = bars' /\ OneLonger(a, z)
    BY <1>1, StepIsLonger
  <2>2. Sweeps(a) = {e \in Sweeps(z) : e.bar < Len(z)}
    BY <2>1, SweepsStay
  <2>3. Len(z) > AtrPeriod + 2 =>
          DisplacementBlocks(a) = {b \in DisplacementBlocks(z) : b.displacement < Len(z)}
    BY <2>1, BlocksStay
  <2>4. z \in Series
    BY <2>1, LongerTypes
  <2>5. ASSUME Len(z) > AtrPeriod + 2, NEW d \in Displacements(z)
        PROVE  (\E b \in DisplacementBlocks(z) : b.displacement = d.bar)
                 <=> d.bar > 1 /\ (IF d.direction = "bullish" THEN Bearish(z[d.bar - 1])
                                                               ELSE Bullish(z[d.bar - 1]))
    BY <2>4, <2>5, DisplacementsMakeBlocks
  <2>6. /\ Patterns(a) \subseteq Patterns(z)
        /\ {p \in Patterns(z) : p.bar < Len(z) - Lookback} \subseteq Patterns(a)
    BY <2>1, PatternsStay DEF Stays
  <2> QED BY <2>1, <2>2, <2>3, <2>5, <2>6
<1> QED BY <1>1, GrowthSeriesInv, PTL DEF Growth, EventsNeverWithdrawn

-----------------------------------------------------------------------------
(* Breaks.  Of swings `points`, the pair of a bar and a swing is in        *)
(* `beyond` if the bar closes beyond the swing.                            *)

IsFirst(points, beyond, from, i) ==
  LET s == LatestOf(points, i)
  IN /\ s # None
     /\ <<i, s>> \in beyond
     /\ \A j \in (Max({s, from}) + 1)..(i - 1) : <<j, s>> \notin beyond

\* The level a walk has at bar i: the latest swing, unless a close was beyond it.
LevelAt(points, beyond, from, i) ==
  LET s == LatestOf(points, i)
  IN IF s # None /\ \A j \in (Max({s, from}) + 1)..i : <<j, s>> \notin beyond THEN s ELSE None

FirstsUpTo(points, beyond, from, i) ==
  {<<k, LatestOf(points, k)>> : k \in {j \in (from + 1)..i : IsFirst(points, beyond, from, j)}}

\* Points are bars, and no bar closes beyond its own.
Breakable(points, beyond) ==
  /\ points \subseteq Nat \ {0}
  /\ \A i \in points : <<i, i>> \notin beyond

LEMMA LatestIs ==
  ASSUME NEW points, points \subseteq Nat \ {0}, NEW i \in Nat
  PROVE  /\ LatestOf(points, i) \in Nat
         /\ LatestOf(points, i) # None => LatestOf(points, i) \in points /\ LatestOf(points, i) <= i
         /\ \A s \in points : s <= i => s <= LatestOf(points, i)
<1> DEFINE S == {None} \cup {s \in points : s <= i}
<1>1. S \subseteq 0..i
  <2>1. ASSUME NEW s \in S PROVE s \in 0..i
    <3>1. s = 0 \/ (s \in Nat /\ s <= i)
      BY DEF None
    <3> QED BY <3>1
  <2> HIDE DEF S
  <2> QED BY <2>1
<1>2. IsFiniteSet(S)
  <2>1. 0 \in Int /\ i \in Int
    OBVIOUS
  <2>2. IsFiniteSet(0..i)
    BY <2>1, FS_Interval
  <2> HIDE DEF S
  <2> QED BY <1>1, <2>2, FS_Subset
<1>3. S \in SUBSET Int /\ S # {}
  BY <1>1
<1>4. Max(S) \in S /\ \A y \in S : Max(S) >= y
  <2> HIDE DEF S
  <2> QED BY <1>2, <1>3, MaxOfFinite
<1>5. LatestOf(points, i) = Max(S)
  BY DEF LatestOf
<1> HIDE DEF None
<1>6. Max(S) \in 0..i
  BY <1>1, <1>4
<1> DEFINE m == Max(S)
<1>7. m \in {None} \cup {s \in points : s <= i}
  BY <1>4
<1>8. \A s \in points : s <= i => s <= m
  BY <1>1, <1>4, <1>6
<1> HIDE DEF m, S
<1>9. LatestOf(points, i) = m /\ m \in Nat
  BY <1>5, <1>6 DEF m
<1> QED BY <1>7, <1>8, <1>9

LEMMA LatestMoves ==
  ASSUME NEW points, points \subseteq Nat \ {0}, NEW i \in Nat \ {0}
  PROVE  LatestOf(points, i) = IF i \in points THEN i ELSE LatestOf(points, i - 1)
<1> DEFINE l == LatestOf(points, i)
           k == LatestOf(points, i - 1)
<1>1. /\ l \in Nat
      /\ l # None => l \in points /\ l <= i
      /\ \A s \in points : s <= i => s <= l
  BY LatestIs
<1>2. /\ k \in Nat
      /\ k # None => k \in points /\ k <= i - 1
      /\ \A s \in points : s <= i - 1 => s <= k
  <2>1. i - 1 \in Nat
    OBVIOUS
  <2> QED BY <2>1, LatestIs
<1>3. l = IF i \in points THEN i ELSE k
  <2> HIDE DEF l, k
  <2>1. CASE i \in points
    <3>1. i <= l
      BY <1>1, <2>1
    <3> QED BY <1>1, <2>1, <3>1 DEF None
  <2>2. CASE i \notin points
    <3>1. l <= k
      BY <1>1, <1>2, <2>2 DEF None
    <3>2. k <= l
      BY <1>1, <1>2 DEF None
    <3> QED BY <1>1, <1>2, <2>2, <3>1, <3>2
  <2> QED BY <2>1, <2>2
<1> QED BY <1>3

\* What one bar does to the level.
LEMMA LevelMoves ==
  ASSUME NEW points, NEW beyond, Breakable(points, beyond), NEW from \in Nat, NEW i \in Nat \ {0},
         NEW level, level = IF i \in points THEN i ELSE LevelAt(points, beyond, from, i - 1),
         NEW breaks, breaks \in BOOLEAN,
         breaks <=> i > from /\ level \notin {None, i} /\ <<i, level>> \in beyond
  PROVE  /\ breaks <=> i > from /\ IsFirst(points, beyond, from, i)
         /\ breaks => level = LatestOf(points, i)
         /\ (IF breaks THEN None ELSE level) = LevelAt(points, beyond, from, i)
<1> DEFINE s == LatestOf(points, i)
           r == LatestOf(points, i - 1)
<1>0. points \subseteq Nat \ {0} /\ i - 1 \in Nat /\ i \in Nat
  BY DEF Breakable
<1>1. /\ s \in Nat
      /\ s # None => s \in points /\ s <= i
  BY <1>0, LatestIs
<1>2. /\ r \in Nat
      /\ r # None => r \in points /\ r <= i - 1
  BY <1>0, LatestIs
<1>3. s = IF i \in points THEN i ELSE r
  BY <1>0, LatestMoves
<1> DEFINE m == Max({s, from})
<1>4. m = (IF s >= from THEN s ELSE from) /\ m \in Nat
  <2> HIDE DEF s
  <2> QED BY <1>1, MaxIsIf
<1>5. IsFirst(points, beyond, from, i) <=>
        s # None /\ <<i, s>> \in beyond /\ \A j \in (m + 1)..(i - 1) : <<j, s>> \notin beyond
  BY DEF IsFirst
<1>6. LevelAt(points, beyond, from, i) =
        IF s # None /\ \A j \in (m + 1)..i : <<j, s>> \notin beyond THEN s ELSE None
  BY DEF LevelAt
<1>7. i \notin points =>
        LevelAt(points, beyond, from, i - 1) =
          IF s # None /\ \A j \in (m + 1)..(i - 1) : <<j, s>> \notin beyond THEN s ELSE None
  BY <1>3 DEF LevelAt
<1>8. i \in points => <<i, i>> \notin beyond
  BY DEF Breakable
<1> HIDE DEF s, r, m
<1>9. CASE i \in points
  <2>1. s = i /\ level = i /\ ~breaks
    BY <1>3, <1>9
  <2>2. (m + 1)..i = {}
    BY <1>4, <2>1
  <2>3. i # None
    BY DEF None
  <2> QED BY <1>5, <1>6, <1>8, <1>9, <2>1, <2>2, <2>3 DEF s
<1>10. CASE i \notin points
  <2>1. s = r /\ s # i
    <3>1. s = r
      BY <1>3, <1>10
    <3>2. r # None => r # i
      BY <1>2
    <3>3. None # i
      BY DEF None
    <3> QED BY <3>1, <3>2, <3>3
  <2>2. level = IF s # None /\ \A j \in (m + 1)..(i - 1) : <<j, s>> \notin beyond THEN s ELSE None
    BY <1>7, <1>10
  <2>3. breaks <=> i > from /\ IsFirst(points, beyond, from, i)
    <3>1. CASE level = None
      <4>1. ~breaks
        BY <3>1
      <4>2. ~IsFirst(points, beyond, from, i)
        BY <1>5, <2>2, <3>1
      <4> QED BY <4>1, <4>2
    <3>2. CASE level # None
      <4>1. level = s /\ s # None /\ \A j \in (m + 1)..(i - 1) : <<j, s>> \notin beyond
        BY <2>2, <3>2
      <4>2. IsFirst(points, beyond, from, i) <=> <<i, level>> \in beyond
        BY <1>5, <4>1
      <4>3. level \notin {None, i}
        BY <2>1, <4>1
      <4> QED BY <4>2, <4>3
    <3> QED BY <3>1, <3>2
  <2>4. breaks => level = s
    BY <2>2
  <2>5. CASE i > from
    <3>1. s # None => \A j : j \in (m + 1)..i <=> (j \in (m + 1)..(i - 1) \/ j = i)
      <4>1. s # None => m + 1 <= i
        BY <1>1, <1>2, <1>4, <2>1, <2>5
      <4>2. m + 1 \in Nat
        BY <1>4
      <4> QED BY <1>0, <4>1, <4>2
    <3>2. CASE breaks
      <4>1. level = s /\ s # None /\ <<i, s>> \in beyond
        BY <2>4, <3>2
      <4>2. i \in (m + 1)..i
        BY <3>1, <4>1
      <4> QED BY <1>6, <2>3, <2>4, <3>2, <4>1, <4>2 DEF s
    <3>3. CASE ~breaks
      <4>1. CASE level = None
        <5>1. s = None \/ \E j \in (m + 1)..(i - 1) : <<j, s>> \in beyond
          BY <2>2, <4>1
        <5>2. LevelAt(points, beyond, from, i) = None
          BY <1>6, <3>1, <5>1
        <5> QED BY <2>3, <2>4, <3>3, <4>1, <5>2
      <4>2. CASE level # None
        <5>1. level = s /\ s # None /\ \A j \in (m + 1)..(i - 1) : <<j, s>> \notin beyond
          BY <2>2, <4>2
        <5>2. <<i, s>> \notin beyond
          BY <2>1, <2>5, <3>3, <5>1
        <5>3. LevelAt(points, beyond, from, i) = s
          BY <1>6, <3>1, <5>1, <5>2
        <5> QED BY <2>3, <3>3, <5>1, <5>3
      <4> QED BY <4>1, <4>2
    <3> QED BY <3>2, <3>3, <2>3, <2>4 DEF s
  <2>6. CASE ~(i > from)
    <3>1. ~breaks
      BY <2>6
    <3>2. (m + 1)..i = {} /\ (m + 1)..(i - 1) = {}
      BY <1>0, <1>1, <1>4, <2>6
    <3>3. level = s /\ LevelAt(points, beyond, from, i) = s
      BY <1>6, <2>2, <3>2
    <3> QED BY <2>3, <3>1, <3>3
  <2> QED BY <2>5, <2>6
<1> QED BY <1>9, <1>10

LEMMA FirstsMove ==
  ASSUME NEW points, NEW beyond, NEW from \in Nat, NEW i \in Nat \ {0}
  PROVE  FirstsUpTo(points, beyond, from, i) =
           FirstsUpTo(points, beyond, from, i - 1)
             \cup (IF i > from /\ IsFirst(points, beyond, from, i) THEN {<<i, LatestOf(points, i)>>} ELSE {})
<1> DEFINE F(n) == {j \in (from + 1)..n : IsFirst(points, beyond, from, j)}
<1>1. F(i) = F(i - 1) \cup (IF i > from /\ IsFirst(points, beyond, from, i) THEN {i} ELSE {})
  OBVIOUS
<1>2. \A n : FirstsUpTo(points, beyond, from, n) = {<<k, LatestOf(points, k)>> : k \in F(n)}
  BY DEF FirstsUpTo
<1> HIDE DEF F
<1> QED BY <1>1, <1>2

LEMMA NoneYet ==
  ASSUME NEW points, points \subseteq Nat \ {0}, NEW beyond, NEW from \in Nat
  PROVE  /\ LevelAt(points, beyond, from, 0) = None
         /\ FirstsUpTo(points, beyond, from, 0) = {}
<1>1. LatestOf(points, 0) = None
  <2> DEFINE l == LatestOf(points, 0)
  <2>1. l # None => l \in points /\ l <= 0
    <3>1. 0 \in Nat
      OBVIOUS
    <3> QED BY <3>1, LatestIs
  <2> HIDE DEF l
  <2>2. CASE l # None
    <3>1. l \in points /\ l <= 0
      BY <2>1, <2>2
    <3>2. l \in Nat /\ l # 0
      BY <3>1
    <3> QED BY <3>1, <3>2
  <2> QED BY <2>2 DEF l
<1>2. (from + 1)..0 = {}
  OBVIOUS
<1> QED BY <1>1, <1>2 DEF LevelAt, FirstsUpTo

\* The closes beyond an earlier bar's high or low.
AboveHighs(series) ==
  {p \in (1..Len(series)) \X (1..Len(series)) : series[p[1]].close > series[p[2]].high}
BelowLows(series) ==
  {p \in (1..Len(series)) \X (1..Len(series)) : series[p[1]].close < series[p[2]].low}

LevelsAt(series, from, i) ==
  [high |-> LevelAt(Swings(series).highs, AboveHighs(series), from, i),
   low |-> LevelAt(Swings(series).lows, BelowLows(series), from, i)]

UpsTo(series, from, i) == FirstsUpTo(Swings(series).highs, AboveHighs(series), from, i)
DownsTo(series, from, i) == FirstsUpTo(Swings(series).lows, BelowLows(series), from, i)

And(breaks, i, s) == breaks \cup {<<i, s>>}

LEMMA BarEnds ==
  ASSUME NEW series \in Series, NEW i \in 1..Len(series)
  PROVE  /\ series[i].open \in Int /\ series[i].close \in Int
         /\ series[i].low \in Int /\ series[i].high \in Int
         /\ series[i].low <= series[i].close /\ series[i].close <= series[i].high
<1>1. /\ series[i] \in Shapes
      /\ series[i].open \in Int /\ series[i].close \in Int
      /\ series[i].low \in Int /\ series[i].high \in Int
  BY SeriesType
<1>2. /\ series[i].low <= Min({series[i].open, series[i].close})
      /\ Max({series[i].open, series[i].close}) <= series[i].high
  BY <1>1, AnalysisAssumption DEF AnalysisAssumption
<1> DEFINE o == series[i].open
           c == series[i].close
<1>3. Min({o, c}) = IF o <= c THEN o ELSE c
  <2> HIDE DEF o, c
  <2>1. o \in Int /\ c \in Int
    BY <1>1 DEF o, c
  <2> QED BY <2>1, MinIsIf
<1>4. Max({o, c}) = IF o >= c THEN o ELSE c
  <2> HIDE DEF o, c
  <2>1. o \in Int /\ c \in Int
    BY <1>1 DEF o, c
  <2> QED BY <2>1, MaxIsIf
<1>5. series[i].low <= c
  BY <1>1, <1>2, <1>3
<1>6. c <= series[i].high
  BY <1>1, <1>2, <1>4
<1> QED BY <1>1, <1>5, <1>6

LEMMA SwingsBreakable ==
  ASSUME NEW series \in Series
  PROVE  /\ Breakable(Swings(series).highs, AboveHighs(series))
         /\ Breakable(Swings(series).lows, BelowLows(series))
         /\ Swings(series).highs \subseteq 1..Len(series)
         /\ Swings(series).lows \subseteq 1..Len(series)
<1>1. /\ Swings(series).highs \subseteq 1..Len(series)
      /\ Swings(series).lows \subseteq 1..Len(series)
  BY SwingsAmong
<1>2. \A i \in 1..Len(series) : /\ <<i, i>> \notin AboveHighs(series)
                                /\ <<i, i>> \notin BelowLows(series)
  <2> SUFFICES ASSUME NEW i \in 1..Len(series)
               PROVE  <<i, i>> \notin AboveHighs(series) /\ <<i, i>> \notin BelowLows(series)
    OBVIOUS
  <2>1. ~(series[i].close > series[i].high) /\ ~(series[i].close < series[i].low)
    BY BarEnds
  <2> QED BY <2>1 DEF AboveHighs, BelowLows
<1> QED BY <1>1, <1>2 DEF Breakable

\* One bar of any of the walks.
LEMMA LevelsMove ==
  ASSUME NEW series \in Series, NEW from \in Nat, NEW i \in 1..Len(series),
         NEW levels, levels = Reached(Swings(series), LevelsAt(series, from, i - 1), i)
  PROVE  /\ levels \in [high : Nat, low : Nat]
         /\ i <= from => levels = LevelsAt(series, from, i)
         /\ i > from =>
              /\ Consumed(series, levels, i) = LevelsAt(series, from, i)
              /\ BreaksUp(series, levels, i) =>
                   UpsTo(series, from, i) = And(UpsTo(series, from, i - 1), i, levels.high)
              /\ ~BreaksUp(series, levels, i) =>
                   UpsTo(series, from, i) = UpsTo(series, from, i - 1)
              /\ BreaksDown(series, levels, i) =>
                   DownsTo(series, from, i) = And(DownsTo(series, from, i - 1), i, levels.low)
              /\ ~BreaksDown(series, levels, i) =>
                   DownsTo(series, from, i) = DownsTo(series, from, i - 1)
<1> DEFINE highs == Swings(series).highs
           lows == Swings(series).lows
           above == AboveHighs(series)
           below == BelowLows(series)
           high == levels.high
           low == levels.low
           up == i > from /\ high \notin {None, i} /\ <<i, high>> \in above
           down == i > from /\ low \notin {None, i} /\ <<i, low>> \in below
<1>1. i \in Nat \ {0} /\ i - 1 \in Nat /\ Len(series) \in Nat
  BY SeriesType
<1>2. /\ high = IF i \in highs THEN i ELSE LevelAt(highs, above, from, i - 1)
      /\ low = IF i \in lows THEN i ELSE LevelAt(lows, below, from, i - 1)
      /\ levels = [high |-> high, low |-> low]
  BY DEF Reached, LevelsAt
<1>3. /\ Breakable(highs, above) /\ Breakable(lows, below)
      /\ highs \subseteq 1..Len(series) /\ lows \subseteq 1..Len(series)
  BY SwingsBreakable
<1>4. /\ high \in 0..Len(series) /\ low \in 0..Len(series)
  <2>1. ASSUME NEW points, NEW beyond, points \subseteq 1..Len(series)
        PROVE  LevelAt(points, beyond, from, i - 1) \in 0..Len(series)
    <3>1. points \subseteq Nat \ {0}
      BY <2>1
    <3> DEFINE s == LatestOf(points, i - 1)
    <3>2. s # None => s \in points
      BY <1>1, <3>1, LatestIs
    <3>3. LevelAt(points, beyond, from, i - 1) \in {None, s}
      BY DEF LevelAt
    <3> DEFINE l == LevelAt(points, beyond, from, i - 1)
    <3>4. l \in {0, s}
      BY <3>3 DEF None
    <3>5. s # 0 => s \in 1..Len(series)
      BY <2>1, <3>2 DEF None
    <3> HIDE DEF s, l
    <3>6. l \in 0..Len(series)
      BY <1>1, <3>4, <3>5
    <3> QED BY <3>6 DEF l
  <2>2. LevelAt(highs, above, from, i - 1) \in 0..Len(series)
    BY <1>3, <2>1
  <2>3. LevelAt(lows, below, from, i - 1) \in 0..Len(series)
    BY <1>3, <2>1
  <2> QED BY <1>1, <1>2, <2>2, <2>3
<1> HIDE DEF highs, lows, above, below, high, low
<1>5. /\ up <=> i > from /\ IsFirst(highs, above, from, i)
      /\ up => high = LatestOf(highs, i)
      /\ (IF up THEN None ELSE high) = LevelAt(highs, above, from, i)
  <2>1. up \in BOOLEAN /\ (up <=> i > from /\ high \notin {None, i} /\ <<i, high>> \in above)
    OBVIOUS
  <2>2. high = IF i \in highs THEN i ELSE LevelAt(highs, above, from, i - 1)
    BY <1>2
  <2>3. Breakable(highs, above) /\ i \in Nat \ {0}
    BY <1>1, <1>3
  <2> HIDE DEF up
  <2> QED BY <2>1, <2>2, <2>3, LevelMoves
<1>6. /\ down <=> i > from /\ IsFirst(lows, below, from, i)
      /\ down => low = LatestOf(lows, i)
      /\ (IF down THEN None ELSE low) = LevelAt(lows, below, from, i)
  <2>1. down \in BOOLEAN /\ (down <=> i > from /\ low \notin {None, i} /\ <<i, low>> \in below)
    OBVIOUS
  <2>2. low = IF i \in lows THEN i ELSE LevelAt(lows, below, from, i - 1)
    BY <1>2
  <2>3. Breakable(lows, below) /\ i \in Nat \ {0}
    BY <1>1, <1>3
  <2> HIDE DEF down
  <2> QED BY <2>1, <2>2, <2>3, LevelMoves
<1>7. levels \in [high : Nat, low : Nat]
  BY <1>1, <1>2, <1>4
<1>8. CASE i <= from
  <2>1. ~up /\ ~down
    BY <1>1, <1>8
  <2> QED BY <1>2, <1>5, <1>6, <1>7, <1>8, <1>1, <2>1 DEF LevelsAt, highs, lows, above, below
<1>9. CASE i > from
  <2>1. BreaksUp(series, levels, i) <=> up
    <3>1. high # None => high \in 1..Len(series)
      BY <1>1, <1>4 DEF None
    <3>2. high # None => (<<i, high>> \in above <=> series[i].close > series[high].high)
      BY <3>1 DEF above, AboveHighs
    <3> QED BY <1>9, <3>2 DEF BreaksUp, high
  <2>2. BreaksDown(series, levels, i) <=> down
    <3>1. low # None => low \in 1..Len(series)
      BY <1>1, <1>4 DEF None
    <3>2. low # None => (<<i, low>> \in below <=> series[i].close < series[low].low)
      BY <3>1 DEF below, BelowLows
    <3> QED BY <1>9, <3>2 DEF BreaksDown, low
  <2>3. Consumed(series, levels, i) = LevelsAt(series, from, i)
    <3>1. Consumed(series, levels, i) = [high |-> IF up THEN None ELSE high, low |-> IF down THEN None ELSE low]
      <4> HIDE DEF up, down
      <4> QED BY <2>1, <2>2 DEF Consumed, high, low
    <3> HIDE DEF up, down
    <3> QED BY <1>5, <1>6, <3>1 DEF LevelsAt, highs, lows, above, below
  <2>4. /\ BreaksUp(series, levels, i) =>
                 UpsTo(series, from, i) = And(UpsTo(series, from, i - 1), i, levels.high)
        /\ ~BreaksUp(series, levels, i) => UpsTo(series, from, i) = UpsTo(series, from, i - 1)
    <3>1. FirstsUpTo(highs, above, from, i) =
           FirstsUpTo(highs, above, from, i - 1)
             \cup (IF i > from /\ IsFirst(highs, above, from, i) THEN {<<i, LatestOf(highs, i)>>} ELSE {})
      BY <1>1, FirstsMove
    <3> HIDE DEF up, down
    <3>2. CASE up
      BY <1>5, <2>1, <3>1, <3>2 DEF And, UpsTo, highs, above, high
    <3>3. CASE ~up
      BY <1>5, <2>1, <3>1, <3>3 DEF UpsTo, highs, above, high
    <3> QED BY <3>2, <3>3
  <2>5. /\ BreaksDown(series, levels, i) =>
                 DownsTo(series, from, i) = And(DownsTo(series, from, i - 1), i, levels.low)
        /\ ~BreaksDown(series, levels, i) => DownsTo(series, from, i) = DownsTo(series, from, i - 1)
    <3>1. FirstsUpTo(lows, below, from, i) =
           FirstsUpTo(lows, below, from, i - 1)
             \cup (IF i > from /\ IsFirst(lows, below, from, i) THEN {<<i, LatestOf(lows, i)>>} ELSE {})
      BY <1>1, FirstsMove
    <3> HIDE DEF up, down
    <3>2. CASE down
      BY <1>6, <2>2, <3>1, <3>2 DEF And, DownsTo, lows, below, low
    <3>3. CASE ~down
      BY <1>6, <2>2, <3>1, <3>3 DEF DownsTo, lows, below, low
    <3> QED BY <3>2, <3>3
  <2> HIDE DEF up, down
  <2>6. ~(i <= from)
    BY <1>1, <1>9
  <2> QED BY <1>7, <1>9, <2>3, <2>4, <2>5, <2>6
<1> QED BY <1>1, <1>8, <1>9

\* detect_bos_choch, bar by bar.
BreakStart == [levels |-> NoLevels, trend |-> "unknown", events |-> <<>>]

IsBreakWalk(series, f, n) ==
  f = [i \in 0..n |-> IF i = 0 THEN BreakStart ELSE BreakStep(series, Swings(series), f[i - 1], i)]

LEMMA BreakWalkExists ==
  ASSUME NEW series, NEW n \in Nat
  PROVE  \E f : IsBreakWalk(series, f, n)
<1> DEFINE S == {m \in 0..n : \E f : IsBreakWalk(series, f, m)}
<1>1. 0 \in S
  <2> DEFINE f == [i \in 0..0 |-> BreakStart]
  <2>1. f = [i \in 0..0 |-> IF i = 0 THEN BreakStart ELSE BreakStep(series, Swings(series), f[i - 1], i)]
    <3> HIDE DEF BreakStart
    <3>1. \A i \in 0..0 : i = 0
      OBVIOUS
    <3> QED BY <3>1
  <2> HIDE DEF f
  <2> QED BY <2>1 DEF IsBreakWalk
<1>2. ASSUME NEW m \in 0..(n - 1), m \in S PROVE m + 1 \in S
  <2>1. PICK f : IsBreakWalk(series, f, m)
    BY <1>2
  <2> DEFINE g == [i \in 0..(m + 1) |->
                     IF i = m + 1 THEN BreakStep(series, Swings(series), f[m], m + 1) ELSE f[i]]
  <2>2. g = [i \in 0..(m + 1) |-> IF i = 0 THEN BreakStart
                                   ELSE BreakStep(series, Swings(series), g[i - 1], i)]
    <3>1. ASSUME NEW i \in 0..(m + 1)
          PROVE  g[i] = IF i = 0 THEN BreakStart ELSE BreakStep(series, Swings(series), g[i - 1], i)
      <4>1. CASE i = m + 1
        <5>1. m \in 0..(m + 1) /\ m # m + 1 /\ (m + 1) - 1 = m /\ m + 1 # 0
          OBVIOUS
        <5>2. g[i - 1] = f[m] /\ g[i] = BreakStep(series, Swings(series), f[m], m + 1)
          BY <4>1, <5>1
        <5> HIDE DEF g
        <5> QED BY <4>1, <5>1, <5>2
      <4>2. CASE i # m + 1
        <5>1. i \in 0..m
          BY <4>2
        <5>2. f[i] = IF i = 0 THEN BreakStart ELSE BreakStep(series, Swings(series), f[i - 1], i)
          BY <2>1, <5>1 DEF IsBreakWalk
        <5>3. i # 0 => i - 1 \in 0..(m + 1) /\ i - 1 # m + 1
          BY <5>1
        <5>4. g[i] = f[i] /\ (i # 0 => g[i - 1] = f[i - 1])
          BY <4>2, <5>3
        <5> HIDE DEF g
        <5> QED BY <5>2, <5>4
      <4> QED BY <4>1, <4>2
    <3> QED BY <3>1
  <2>3. m + 1 \in 0..n
    OBVIOUS
  <2> HIDE DEF g
  <2> QED BY <2>2, <2>3 DEF IsBreakWalk
<1>3. \A k \in 0..n : k \in S
  <2> HIDE DEF S
  <2> QED BY <1>1, <1>2, CountingUp
<1> QED BY <1>3

LEMMA BreakWalk ==
  ASSUME NEW series \in Series
  PROVE  \E f : /\ f[0] = BreakStart
                /\ \A i \in 1..Len(series) :
                     f[i] = BreakStep(series, Swings(series), f[i - 1], i)
                /\ BosChoch(series) = f[Len(series)].events
<1> DEFINE n == Len(series)
           f == CHOOSE g : IsBreakWalk(series, g, n)
<1>1. n \in Nat
  BY SeriesType
<1>2. IsBreakWalk(series, f, n)
  <2> HIDE DEF n
  <2> QED BY <1>1, BreakWalkExists
<1>3. BosChoch(series) = f[n].events
  BY DEF BosChoch, IsBreakWalk, BreakStart
<1> HIDE DEF f
<1>4. f[0] = BreakStart
  BY <1>1, <1>2 DEF IsBreakWalk
<1>5. \A i \in 1..n : f[i] = BreakStep(series, Swings(series), f[i - 1], i)
  <2> SUFFICES ASSUME NEW i \in 1..n PROVE f[i] = BreakStep(series, Swings(series), f[i - 1], i)
    OBVIOUS
  <2>1. i \in 0..n /\ i # 0
    BY <1>1
  <2> QED BY <1>2, <2>1 DEF IsBreakWalk
<1> QED BY <1>3, <1>4, <1>5

\* The events so far, and the trend after them, tell the breaks.
Directions == {"bullish", "bearish"}

Events == [label : {"BOS", "CHOCH"}, bar : Nat, direction : Directions, swing : Nat]

IsLabelled(events, k) ==
  events[k].label = "CHOCH" <=> k > 1 /\ events[k - 1].direction # events[k].direction

Told(events, direction) ==
  {<<events[k].bar, events[k].swing>> : k \in {j \in 1..Len(events) : events[j].direction = direction}}

Tells(events, trend, ups, downs) ==
  /\ events \in Seq(Events)
  /\ trend = IF events = <<>> THEN "unknown" ELSE events[Len(events)].direction
  /\ \A k \in 1..Len(events) : IsLabelled(events, k)
  /\ Told(events, "bullish") = ups
  /\ Told(events, "bearish") = downs

LEMMA AnotherBreak ==
  ASSUME NEW events, NEW trend, NEW ups, NEW downs, Tells(events, trend, ups, downs),
         NEW i \in Nat, NEW direction \in Directions, NEW swing \in Nat
  PROVE  Tells(Append(events, Break(trend, i, direction, swing)), direction,
               IF direction = "bullish" THEN ups \cup {<<i, swing>>} ELSE ups,
               IF direction = "bearish" THEN downs \cup {<<i, swing>>} ELSE downs)
<1> DEFINE e == Break(trend, i, direction, swing)
           after == Append(events, e)
           n == Len(events)
<1>1. events \in Seq(Events) /\ n \in Nat
  BY LenProperties DEF Tells
<1>2. e.label \in {"BOS", "CHOCH"} /\ e.bar = i /\ e.direction = direction /\ e.swing = swing
  BY DEF Break
<1>3. e \in Events
  BY DEF Break, Events
<1>4. e.label = "CHOCH" <=> trend = Opposite(direction)
  BY DEF Break
<1> HIDE DEF e
<1>5. /\ after \in Seq(Events) /\ Len(after) = n + 1
      /\ \A k \in 1..n : after[k] = events[k]
      /\ after[n + 1] = e
  BY <1>1, <1>3, AppendProperties
<1> HIDE DEF after
<1>6. \A k \in 1..n : events[k].direction \in Directions
  <2>1. \A k \in 1..n : events[k] \in Events
    BY <1>1, ElementOfSeq
  <2> QED BY <2>1 DEF Events
<1>7. \A k \in 1..(n + 1) : IsLabelled(after, k)
  <2> SUFFICES ASSUME NEW k \in 1..(n + 1) PROVE IsLabelled(after, k)
    OBVIOUS
  <2>1. CASE k \in 1..n
    <3>1. k > 1 => k - 1 \in 1..n
      BY <1>1, <2>1
    <3>2. IsLabelled(events, k)
      BY <2>1 DEF Tells
    <3>3. after[k] = events[k] /\ (k > 1 => after[k - 1] = events[k - 1])
      BY <1>5, <2>1, <3>1
    <3> QED BY <3>2, <3>3 DEF IsLabelled
  <2>2. CASE k = n + 1
    <3>1. CASE n = 0
      <4>1. trend = "unknown"
        BY <1>1, <3>1, EmptySeq DEF Tells
      <4>2. e.label # "CHOCH"
        BY <1>4, <4>1 DEF Opposite
      <4>3. after[k].label = e.label /\ ~(k > 1)
        BY <1>5, <2>2, <3>1
      <4> QED BY <4>2, <4>3 DEF IsLabelled
    <3>2. CASE n # 0
      <4>1. events # <<>> /\ n \in 1..n
        BY <1>1, <3>2, EmptySeq
      <4>2. trend = events[n].direction
        BY <4>1 DEF Tells
      <4>3. trend \in Directions
        BY <1>6, <4>1, <4>2
      <4>4. trend = Opposite(direction) <=> trend # direction
        BY <4>3 DEF Opposite, Directions
      <4>5. k > 1 /\ k - 1 = n /\ after[k] = e /\ after[k - 1] = events[n]
        BY <1>1, <1>5, <2>2, <3>2, <4>1
      <4> QED BY <1>2, <1>4, <4>2, <4>4, <4>5 DEF IsLabelled
    <3> QED BY <3>1, <3>2
  <2> QED BY <1>1, <2>1, <2>2
<1>8. ASSUME NEW d
      PROVE  Told(after, d) = Told(events, d) \cup (IF direction = d THEN {<<i, swing>>} ELSE {})
  <2> DEFINE K(s) == {j \in 1..Len(s) : s[j].direction = d}
  <2>1. K(after) = K(events) \cup (IF direction = d THEN {n + 1} ELSE {})
    <3>1. \A j : j \in 1..(n + 1) <=> j \in 1..n \/ j = n + 1
      BY <1>1
    <3>2. n + 1 \notin 1..n
      BY <1>1
    <3> QED BY <1>2, <1>5, <3>1, <3>2
  <2>2. \A k \in K(events) : after[k] = events[k]
    BY <1>5
  <2>3. \A s : Told(s, d) = {<<s[k].bar, s[k].swing>> : k \in K(s)}
    BY DEF Told
  <2> HIDE DEF K
  <2> QED BY <1>2, <1>5, <2>1, <2>2, <2>3
<1>9. after # <<>>
  BY <1>1, <1>5
<1>10. after[Len(after)].direction = direction
  BY <1>2, <1>5
<1>11. Told(after, "bullish") = IF direction = "bullish" THEN ups \cup {<<i, swing>>} ELSE ups
  BY <1>8 DEF Tells
<1>12. Told(after, "bearish") = IF direction = "bearish" THEN downs \cup {<<i, swing>>} ELSE downs
  BY <1>8 DEF Tells
<1>13. Tells(after, direction,
             IF direction = "bullish" THEN ups \cup {<<i, swing>>} ELSE ups,
             IF direction = "bearish" THEN downs \cup {<<i, swing>>} ELSE downs)
  BY <1>5, <1>7, <1>9, <1>10, <1>11, <1>12 DEF Tells
<1> QED BY <1>13 DEF after, e

BreaksToldBy(series, w, i) ==
  /\ w.levels = LevelsAt(series, 0, i)
  /\ Tells(w.events, w.trend, UpsTo(series, 0, i), DownsTo(series, 0, i))

LEMMA BreakStepTells ==
  ASSUME NEW series \in Series, NEW i \in 1..Len(series), NEW before,
         BreaksToldBy(series, before, i - 1)
  PROVE  BreaksToldBy(series, BreakStep(series, Swings(series), before, i), i)
<1> DEFINE levels == Reached(Swings(series), before.levels, i)
           after == BreakStep(series, Swings(series), before, i)
           up == BreaksUp(series, levels, i)
           down == BreaksDown(series, levels, i)
           upBreak == Break(before.trend, i, "bullish", levels.high)
           trend == IF up THEN "bullish" ELSE before.trend
           downBreak == Break(trend, i, "bearish", levels.low)
           once == before.events \o (IF up THEN <<upBreak>> ELSE <<>>)
           twice == once \o (IF down THEN <<downBreak>> ELSE <<>>)
           ups == UpsTo(series, 0, i - 1)
           downs == DownsTo(series, 0, i - 1)
<1>1. i \in Nat /\ i > 0
  BY SeriesType
<1>2. levels = Reached(Swings(series), LevelsAt(series, 0, i - 1), i)
  BY DEF BreaksToldBy
<1>3. after.levels = Consumed(series, levels, i)
  BY DEF BreakStep
<1>4. after.trend = (IF down THEN "bearish" ELSE trend)
  BY DEF BreakStep
<1>5. after.events = twice
  BY DEF BreakStep
<1> HIDE DEF levels, after
<1>6. /\ levels.high \in Nat /\ levels.low \in Nat
      /\ Consumed(series, levels, i) = LevelsAt(series, 0, i)
      /\ up => UpsTo(series, 0, i) = And(ups, i, levels.high)
      /\ ~up => UpsTo(series, 0, i) = ups
      /\ down => DownsTo(series, 0, i) = And(downs, i, levels.low)
      /\ ~down => DownsTo(series, 0, i) = downs
  <2>1. PICK from \in Nat : from = 0
    OBVIOUS
  <2>2. levels = Reached(Swings(series), LevelsAt(series, from, i - 1), i) /\ i > from
    BY <1>1, <1>2, <2>1
  <2>3. levels \in [high : Nat, low : Nat]
    BY <2>2, LevelsMove
  <2>4. Consumed(series, levels, i) = LevelsAt(series, from, i)
    BY <2>2, LevelsMove
  <2>5. up => UpsTo(series, from, i) = And(UpsTo(series, from, i - 1), i, levels.high)
    BY <2>2, LevelsMove
  <2>6. ~up => UpsTo(series, from, i) = UpsTo(series, from, i - 1)
    BY <2>2, LevelsMove
  <2>7. down => DownsTo(series, from, i) = And(DownsTo(series, from, i - 1), i, levels.low)
    BY <2>2, LevelsMove
  <2>8. ~down => DownsTo(series, from, i) = DownsTo(series, from, i - 1)
    BY <2>2, LevelsMove
  <2> HIDE DEF up, down
  <2> QED BY <2>1, <2>3, <2>4, <2>5, <2>6, <2>7, <2>8
<1> HIDE DEF ups, downs, up, down
<1>7. Tells(before.events, before.trend, ups, downs)
  BY DEF BreaksToldBy, ups, downs
<1>8. Tells(once, trend, UpsTo(series, 0, i), downs)
  <2>1. CASE up
    <3>1. upBreak \in Events
      BY <1>1, <1>6 DEF Break, Events, Directions
    <3>2. once = Append(before.events, upBreak)
      <4>1. before.events \in Seq(Events)
        BY <1>7 DEF Tells
      <4> HIDE DEF upBreak
      <4>2. before.events \o <<upBreak>> = Append(before.events, upBreak)
        BY <3>1, <4>1
      <4> QED BY <2>1, <4>2
    <3>3. Tells(Append(before.events, upBreak), "bullish", And(ups, i, levels.high), downs)
      <4>1. "bullish" \in Directions /\ "bullish" # "bearish"
        BY DEF Directions
      <4> QED BY <1>1, <1>6, <1>7, <4>1, AnotherBreak DEF And
    <3>4. UpsTo(series, 0, i) = And(ups, i, levels.high)
      BY <1>6, <2>1
    <3> HIDE DEF upBreak
    <3> QED BY <2>1, <3>2, <3>3, <3>4
  <2>2. CASE ~up
    <3>1. once = before.events
      <4>1. before.events \in Seq(Events)
        BY <1>7 DEF Tells
      <4> QED BY <2>2, <4>1
    <3>2. UpsTo(series, 0, i) = ups
      BY <1>6, <2>2
    <3> QED BY <1>7, <2>2, <3>1, <3>2
  <2> QED BY <2>1, <2>2
<1> HIDE DEF once, trend
<1>9. Tells(twice, IF down THEN "bearish" ELSE trend, UpsTo(series, 0, i), DownsTo(series, 0, i))
  <2>0. once \in Seq(Events)
    BY <1>8 DEF Tells
  <2>1. CASE down
    <3>1. downBreak \in Events
      BY <1>1, <1>6 DEF Break, Events, Directions
    <3>2. twice = Append(once, downBreak)
      <4> HIDE DEF downBreak
      <4>2. once \o <<downBreak>> = Append(once, downBreak)
        BY <2>0, <3>1
      <4> QED BY <2>1, <4>2
    <3>3. Tells(Append(once, downBreak), "bearish", UpsTo(series, 0, i), And(downs, i, levels.low))
      <4>1. "bearish" \in Directions /\ "bullish" # "bearish"
        BY DEF Directions
      <4> QED BY <1>1, <1>6, <1>8, <4>1, AnotherBreak DEF And
    <3>4. DownsTo(series, 0, i) = And(downs, i, levels.low)
      BY <1>6, <2>1
    <3> HIDE DEF downBreak
    <3> QED BY <2>1, <3>2, <3>3, <3>4
  <2>2. CASE ~down
    <3>1. twice = once
      BY <2>0, <2>2
    <3>2. DownsTo(series, 0, i) = downs
      BY <1>6, <2>2
    <3> QED BY <1>8, <2>2, <3>1, <3>2
  <2> QED BY <2>1, <2>2
<1>10. BreaksToldBy(series, after, i)
  <2> HIDE DEF twice
  <2> QED BY <1>3, <1>4, <1>5, <1>6, <1>9 DEF BreaksToldBy
<1> QED BY <1>10 DEF after

LEMMA BreaksAreTold ==
  ASSUME NEW series \in Series
  PROVE  \E trend : Tells(BosChoch(series), trend, UpsTo(series, 0, Len(series)),
                          DownsTo(series, 0, Len(series)))
<1>1. PICK f : /\ f[0] = BreakStart
               /\ \A i \in 1..Len(series) :
                    f[i] = BreakStep(series, Swings(series), f[i - 1], i)
               /\ BosChoch(series) = f[Len(series)].events
  BY BreakWalk
<1> DEFINE S == {i \in 0..Len(series) : BreaksToldBy(series, f[i], i)}
<1>2. Len(series) \in Nat
  BY SeriesType
<1>3. 0 \in S
  <2>1. /\ Swings(series).highs \subseteq Nat \ {0}
        /\ Swings(series).lows \subseteq Nat \ {0}
    BY SwingsBreakable DEF Breakable
  <2>2. LevelsAt(series, 0, 0) = NoLevels
    BY <2>1, NoneYet DEF LevelsAt, NoLevels
  <2>3. UpsTo(series, 0, 0) = {} /\ DownsTo(series, 0, 0) = {}
    BY <2>1, NoneYet DEF UpsTo, DownsTo
  <2>4. Tells(<<>>, "unknown", {}, {})
    <3>1. <<>> \in Seq(Events) /\ Len(<<>>) = 0
      BY EmptySeq
    <3>2. \A d : Told(<<>>, d) = {}
      BY <3>1 DEF Told
    <3> QED BY <3>1, <3>2 DEF Tells
  <2>5. f[0].levels = NoLevels /\ f[0].trend = "unknown" /\ f[0].events = <<>>
    BY <1>1 DEF BreakStart
  <2>6. BreaksToldBy(series, f[0], 0)
    BY <2>2, <2>3, <2>4, <2>5 DEF BreaksToldBy
  <2> QED BY <1>2, <2>6
<1>4. ASSUME NEW k \in 0..(Len(series) - 1), k \in S PROVE k + 1 \in S
  <2>1. k + 1 \in 1..Len(series) /\ (k + 1) - 1 = k
    BY <1>2
  <2>2. f[k + 1] = BreakStep(series, Swings(series), f[k], k + 1)
    BY <1>1, <2>1
  <2>3. BreaksToldBy(series, f[k], k)
    BY <1>4
  <2>4. BreaksToldBy(series, BreakStep(series, Swings(series), f[k], k + 1), k + 1)
    BY <2>1, <2>3, BreakStepTells
  <2> QED BY <1>2, <2>1, <2>2, <2>4
<1>5. Len(series) \in S
  <2>1. Len(series) \in 0..Len(series)
    BY <1>2
  <2> HIDE DEF S
  <2> QED BY <1>2, <1>3, <1>4, <2>1, CountingUp
<1> QED BY <1>1, <1>5 DEF BreaksToldBy

\* detect_order_blocks_and_breakers, bar by bar.
BlockStart ==
  [levels |-> NoLevels, zones |-> <<>>, bulls |-> <<>>, bears |-> <<>>, breaks |-> {}]

IsBlockWalk(series, f, n) ==
  f = [i \in 0..n |-> IF i = 0 THEN BlockStart ELSE BlockStep(series, Swings(series), f[i - 1], i)]

LEMMA BlockWalkExists ==
  ASSUME NEW series, NEW n \in Nat
  PROVE  \E f : IsBlockWalk(series, f, n)
<1> DEFINE S == {m \in 0..n : \E f : IsBlockWalk(series, f, m)}
<1>1. 0 \in S
  <2> DEFINE f == [i \in 0..0 |-> BlockStart]
  <2>1. f = [i \in 0..0 |-> IF i = 0 THEN BlockStart ELSE BlockStep(series, Swings(series), f[i - 1], i)]
    <3> HIDE DEF BlockStart
    <3>1. \A i \in 0..0 : i = 0
      OBVIOUS
    <3> QED BY <3>1
  <2> HIDE DEF f
  <2> QED BY <2>1 DEF IsBlockWalk
<1>2. ASSUME NEW m \in 0..(n - 1), m \in S PROVE m + 1 \in S
  <2>1. PICK f : IsBlockWalk(series, f, m)
    BY <1>2
  <2> DEFINE g == [i \in 0..(m + 1) |->
                     IF i = m + 1 THEN BlockStep(series, Swings(series), f[m], m + 1) ELSE f[i]]
  <2>2. g = [i \in 0..(m + 1) |-> IF i = 0 THEN BlockStart
                                   ELSE BlockStep(series, Swings(series), g[i - 1], i)]
    <3>1. ASSUME NEW i \in 0..(m + 1)
          PROVE  g[i] = IF i = 0 THEN BlockStart ELSE BlockStep(series, Swings(series), g[i - 1], i)
      <4>1. CASE i = m + 1
        <5>1. m \in 0..(m + 1) /\ m # m + 1 /\ (m + 1) - 1 = m /\ m + 1 # 0
          OBVIOUS
        <5>2. g[i - 1] = f[m] /\ g[i] = BlockStep(series, Swings(series), f[m], m + 1)
          BY <4>1, <5>1
        <5> HIDE DEF g
        <5> QED BY <4>1, <5>1, <5>2
      <4>2. CASE i # m + 1
        <5>1. i \in 0..m
          BY <4>2
        <5>2. f[i] = IF i = 0 THEN BlockStart ELSE BlockStep(series, Swings(series), f[i - 1], i)
          BY <2>1, <5>1 DEF IsBlockWalk
        <5>3. i # 0 => i - 1 \in 0..(m + 1) /\ i - 1 # m + 1
          BY <5>1
        <5>4. g[i] = f[i] /\ (i # 0 => g[i - 1] = f[i - 1])
          BY <4>2, <5>3
        <5> HIDE DEF g
        <5> QED BY <5>2, <5>4
      <4> QED BY <4>1, <4>2
    <3> QED BY <3>1
  <2>3. m + 1 \in 0..n
    OBVIOUS
  <2> HIDE DEF g
  <2> QED BY <2>2, <2>3 DEF IsBlockWalk
<1>3. \A k \in 0..n : k \in S
  <2> HIDE DEF S
  <2> QED BY <1>1, <1>2, CountingUp
<1> QED BY <1>3

LEMMA BlocksWalk ==
  ASSUME NEW series \in Series
  PROVE  \E f : /\ f[0] = BlockStart
                /\ \A i \in 1..Len(series) :
                     f[i] = BlockStep(series, Swings(series), f[i - 1], i)
                /\ BlockWalk(series) = f[Len(series)]
<1> DEFINE n == Len(series)
           f == CHOOSE g : IsBlockWalk(series, g, n)
<1>1. n \in Nat
  BY SeriesType
<1>2. IsBlockWalk(series, f, n)
  <2> HIDE DEF n
  <2> QED BY <1>1, BlockWalkExists
<1>3. BlockWalk(series) = f[n]
  BY DEF BlockWalk, IsBlockWalk, BlockStart
<1> HIDE DEF f
<1>4. f[0] = BlockStart
  BY <1>1, <1>2 DEF IsBlockWalk
<1>5. \A i \in 1..n : f[i] = BlockStep(series, Swings(series), f[i - 1], i)
  <2> SUFFICES ASSUME NEW i \in 1..n PROVE f[i] = BlockStep(series, Swings(series), f[i - 1], i)
    OBVIOUS
  <2>1. i \in 0..n /\ i # 0
    BY <1>1
  <2> QED BY <1>2, <2>1 DEF IsBlockWalk
<1> QED BY <1>3, <1>4, <1>5

\* compute_trade_signals, bar by bar.
SignalStart == [levels |-> NoLevels, signals |-> <<>>]

IsSignalWalk(series, f, n) ==
  f = [i \in 0..n |-> IF i = 0 THEN SignalStart ELSE SignalStep(series, Swings(series), OrderBlocks(series), f[i - 1], i)]

LEMMA SignalWalkExists ==
  ASSUME NEW series, NEW n \in Nat
  PROVE  \E f : IsSignalWalk(series, f, n)
<1> DEFINE S == {m \in 0..n : \E f : IsSignalWalk(series, f, m)}
<1>1. 0 \in S
  <2> DEFINE f == [i \in 0..0 |-> SignalStart]
  <2>1. f = [i \in 0..0 |-> IF i = 0 THEN SignalStart ELSE SignalStep(series, Swings(series), OrderBlocks(series), f[i - 1], i)]
    <3> HIDE DEF SignalStart
    <3>1. \A i \in 0..0 : i = 0
      OBVIOUS
    <3> QED BY <3>1
  <2> HIDE DEF f
  <2> QED BY <2>1 DEF IsSignalWalk
<1>2. ASSUME NEW m \in 0..(n - 1), m \in S PROVE m + 1 \in S
  <2>1. PICK f : IsSignalWalk(series, f, m)
    BY <1>2
  <2> DEFINE g == [i \in 0..(m + 1) |->
                     IF i = m + 1 THEN SignalStep(series, Swings(series), OrderBlocks(series), f[m], m + 1) ELSE f[i]]
  <2>2. g = [i \in 0..(m + 1) |-> IF i = 0 THEN SignalStart
                                   ELSE SignalStep(series, Swings(series), OrderBlocks(series), g[i - 1], i)]
    <3>1. ASSUME NEW i \in 0..(m + 1)
          PROVE  g[i] = IF i = 0 THEN SignalStart ELSE SignalStep(series, Swings(series), OrderBlocks(series), g[i - 1], i)
      <4>1. CASE i = m + 1
        <5>1. m \in 0..(m + 1) /\ m # m + 1 /\ (m + 1) - 1 = m /\ m + 1 # 0
          OBVIOUS
        <5>2. g[i - 1] = f[m] /\ g[i] = SignalStep(series, Swings(series), OrderBlocks(series), f[m], m + 1)
          BY <4>1, <5>1
        <5> HIDE DEF g
        <5> QED BY <4>1, <5>1, <5>2
      <4>2. CASE i # m + 1
        <5>1. i \in 0..m
          BY <4>2
        <5>2. f[i] = IF i = 0 THEN SignalStart ELSE SignalStep(series, Swings(series), OrderBlocks(series), f[i - 1], i)
          BY <2>1, <5>1 DEF IsSignalWalk
        <5>3. i # 0 => i - 1 \in 0..(m + 1) /\ i - 1 # m + 1
          BY <5>1
        <5>4. g[i] = f[i] /\ (i # 0 => g[i - 1] = f[i - 1])
          BY <4>2, <5>3
        <5> HIDE DEF g
        <5> QED BY <5>2, <5>4
      <4> QED BY <4>1, <4>2
    <3> QED BY <3>1
  <2>3. m + 1 \in 0..n
    OBVIOUS
  <2> HIDE DEF g
  <2> QED BY <2>2, <2>3 DEF IsSignalWalk
<1>3. \A k \in 0..n : k \in S
  <2> HIDE DEF S
  <2> QED BY <1>1, <1>2, CountingUp
<1> QED BY <1>3

LEMMA SignalWalk ==
  ASSUME NEW series \in Series
  PROVE  \E f : /\ f[0] = SignalStart
                /\ \A i \in 1..Len(series) :
                     f[i] = SignalStep(series, Swings(series), OrderBlocks(series), f[i - 1], i)
                /\ TradeSignals(series) = IF Len(series) < MinSignalBars THEN <<>> ELSE f[Len(series)].signals
<1> DEFINE n == Len(series)
           f == CHOOSE g : IsSignalWalk(series, g, n)
<1>1. n \in Nat
  BY SeriesType
<1>2. IsSignalWalk(series, f, n)
  <2> HIDE DEF n
  <2> QED BY <1>1, SignalWalkExists
<1>3. TradeSignals(series) = IF n < MinSignalBars THEN <<>> ELSE f[n].signals
  BY DEF TradeSignals, IsSignalWalk, SignalStart
<1> HIDE DEF f
<1>4. f[0] = SignalStart
  BY <1>1, <1>2 DEF IsSignalWalk
<1>5. \A i \in 1..n : f[i] = SignalStep(series, Swings(series), OrderBlocks(series), f[i - 1], i)
  <2> SUFFICES ASSUME NEW i \in 1..n PROVE f[i] = SignalStep(series, Swings(series), OrderBlocks(series), f[i - 1], i)
    OBVIOUS
  <2>1. i \in 0..n /\ i # 0
    BY <1>1
  <2> QED BY <1>2, <2>1 DEF IsSignalWalk
<1> QED BY <1>3, <1>4, <1>5

\* The blocks of smc_pro.py stand on the same breaks.
LEMMA BlocksOfBreaks ==
  ASSUME NEW series \in Series
  PROVE  BlockWalk(series).breaks =
           UpsTo(series, 0, Len(series)) \cup DownsTo(series, 0, Len(series))
<1>1. PICK f : /\ f[0] = BlockStart
               /\ \A i \in 1..Len(series) :
                    f[i] = BlockStep(series, Swings(series), f[i - 1], i)
               /\ BlockWalk(series) = f[Len(series)]
  BY BlocksWalk
<1> DEFINE Follows(i) == /\ f[i].levels = LevelsAt(series, 0, i)
                         /\ f[i].breaks = UpsTo(series, 0, i) \cup DownsTo(series, 0, i)
           S == {i \in 0..Len(series) : Follows(i)}
<1>2. Len(series) \in Nat
  BY SeriesType
<1>3. 0 \in S
  <2>1. /\ Swings(series).highs \subseteq Nat \ {0}
        /\ Swings(series).lows \subseteq Nat \ {0}
    BY SwingsBreakable DEF Breakable
  <2>2. LevelsAt(series, 0, 0) = NoLevels
    BY <2>1, NoneYet DEF LevelsAt, NoLevels
  <2>3. UpsTo(series, 0, 0) = {} /\ DownsTo(series, 0, 0) = {}
    BY <2>1, NoneYet DEF UpsTo, DownsTo
  <2>4. f[0].levels = NoLevels /\ f[0].breaks = {}
    BY <1>1 DEF BlockStart
  <2> QED BY <1>2, <2>2, <2>3, <2>4
<1>4. ASSUME NEW k \in 0..(Len(series) - 1), k \in S PROVE k + 1 \in S
  <2> DEFINE i == k + 1
             before == f[k]
             levels == Reached(Swings(series), before.levels, i)
             up == BreaksUp(series, levels, i)
             down == BreaksDown(series, levels, i)
             ups == UpsTo(series, 0, k)
             downs == DownsTo(series, 0, k)
  <2>1. i \in 1..Len(series) /\ i - 1 = k
    BY <1>2
  <2>2. f[i] = BlockStep(series, Swings(series), before, i)
    BY <1>1, <2>1
  <2>3. before.levels = LevelsAt(series, 0, k) /\ before.breaks = ups \cup downs
    BY <1>4
  <2>4. f[i].levels = Consumed(series, levels, i)
    <3> HIDE DEF before, i
    <3> QED BY <2>2 DEF BlockStep
  <2>5. f[i].breaks = before.breaks \cup (IF up THEN {<<i, levels.high>>} ELSE {})
                                   \cup (IF down THEN {<<i, levels.low>>} ELSE {})
    <3> HIDE DEF before, i
    <3> QED BY <2>2 DEF BlockStep
  <2>6. levels = Reached(Swings(series), LevelsAt(series, 0, k), i)
    BY <2>3
  <2> HIDE DEF levels, before, i
  <2>7. /\ Consumed(series, levels, i) = LevelsAt(series, 0, i)
        /\ up => UpsTo(series, 0, i) = And(ups, i, levels.high)
        /\ ~up => UpsTo(series, 0, i) = ups
        /\ down => DownsTo(series, 0, i) = And(downs, i, levels.low)
        /\ ~down => DownsTo(series, 0, i) = downs
    <3>1. PICK from \in Nat : from = 0
      OBVIOUS
    <3>2. levels = Reached(Swings(series), LevelsAt(series, from, i - 1), i) /\ i > from
      BY <2>1, <2>6, <3>1
    <3>4. Consumed(series, levels, i) = LevelsAt(series, from, i)
      BY <2>1, <3>2, LevelsMove
    <3>5. up => UpsTo(series, from, i) = And(UpsTo(series, from, i - 1), i, levels.high)
      BY <2>1, <3>2, LevelsMove
    <3>6. ~up => UpsTo(series, from, i) = UpsTo(series, from, i - 1)
      BY <2>1, <3>2, LevelsMove
    <3>7. down => DownsTo(series, from, i) = And(DownsTo(series, from, i - 1), i, levels.low)
      BY <2>1, <3>2, LevelsMove
    <3>8. ~down => DownsTo(series, from, i) = DownsTo(series, from, i - 1)
      BY <2>1, <3>2, LevelsMove
    <3> HIDE DEF up, down
    <3> QED BY <2>1, <3>1, <3>4, <3>5, <3>6, <3>7, <3>8
  <2> HIDE DEF up, down, ups, downs
  <2>8. f[i].breaks = UpsTo(series, 0, i) \cup DownsTo(series, 0, i)
    <3> DEFINE uu == UpsTo(series, 0, i)
               dd == DownsTo(series, 0, i)
    <3>1. uu = ups \cup (IF up THEN {<<i, levels.high>>} ELSE {})
      BY <2>7 DEF And
    <3>2. dd = downs \cup (IF down THEN {<<i, levels.low>>} ELSE {})
      BY <2>7 DEF And
    <3> HIDE DEF uu, dd
    <3>3. f[i].breaks = uu \cup dd
      BY <2>3, <2>5, <3>1, <3>2
    <3> QED BY <3>3 DEF uu, dd
  <2>9. i \in S
    BY <1>2, <2>1, <2>4, <2>7, <2>8
  <2> QED BY <2>9 DEF i
<1>5. Len(series) \in S
  <2>1. Len(series) \in 0..Len(series)
    BY <1>2
  <2> HIDE DEF S
  <2> QED BY <1>2, <1>3, <1>4, <2>1, CountingUp
<1> QED BY <1>1, <1>5

\* Signals that a break up to bar i gives.
SignalsOn(series) ==
  {SignalAt(series, OrderBlocks(series), p[1], p[2])[1] : p \in (1..Len(series)) \X {"long", "short"}}

OnBreaks(series, i) ==
  {s \in SignalsOn(series) :
     s.bar \in BarsOf(IF s.direction = "long" THEN UpsTo(series, Warmup, i)
                                             ELSE DownsTo(series, Warmup, i))}

LEMMA SignalIs ==
  ASSUME NEW series \in Series, NEW i \in 1..Len(series), NEW d \in {"long", "short"},
         NEW signal, signal = SignalAt(series, OrderBlocks(series), i, d)
  PROVE  signal = <<>> \/ (signal = <<signal[1]>> /\ signal[1] \in SignalsOn(series)
                             /\ signal[1].bar = i /\ signal[1].direction = d)
<1>1. signal[1] \in SignalsOn(series)
  <2>1. <<i, d>> \in (1..Len(series)) \X {"long", "short"}
    OBVIOUS
  <2> QED BY <2>1 DEF SignalsOn
<1>2. CASE signal # <<>>
  <2>1. PICK stop, score : signal = <<[bar |-> i, direction |-> d, stop |-> stop, score |-> score]>>
    BY <1>2 DEF SignalAt
  <2> QED BY <1>1, <2>1
<1> QED BY <1>2

\* A signal is given at a break only.
SignalsRest(series, w, i) ==
  /\ w = [levels |-> w.levels, signals |-> w.signals]
  /\ w.levels = LevelsAt(series, Warmup, i)
  /\ w.signals \in Seq(OnBreaks(series, i))

LEMMA SignalStepRests ==
  ASSUME NEW series \in Series, NEW i \in 1..Len(series), NEW before,
         SignalsRest(series, before, i - 1)
  PROVE  SignalsRest(series, SignalStep(series, Swings(series), OrderBlocks(series), before, i), i)
<1> DEFINE blocks == OrderBlocks(series)
           levels == Reached(Swings(series), before.levels, i)
           after == SignalStep(series, Swings(series), blocks, before, i)
           up == BreaksUp(series, levels, i)
           down == BreaksDown(series, levels, i)
           long == SignalAt(series, blocks, i, "long")
           short == SignalAt(series, blocks, i, "short")
           old == before.signals
           once == old \o (IF up THEN long ELSE <<>>)
           twice == once \o (IF down THEN short ELSE <<>>)
           ups == UpsTo(series, Warmup, i - 1)
           downs == DownsTo(series, Warmup, i - 1)
<1>1. Warmup \in Nat /\ i \in Nat
  BY SmcProAssumption, SeriesType DEF SmcProAssumption
<1>2. levels = Reached(Swings(series), LevelsAt(series, Warmup, i - 1), i)
  BY DEF SignalsRest
<1>3. old \in Seq(OnBreaks(series, i - 1))
  BY DEF SignalsRest
<1>4. CASE i <= Warmup
  <2>1. after = [before EXCEPT !.levels = levels]
    BY <1>4 DEF SignalStep
  <2>2. after = [levels |-> levels, signals |-> old]
    <3>1. before = [levels |-> before.levels, signals |-> before.signals]
      BY DEF SignalsRest
    <3> HIDE DEF levels, after
    <3> QED BY <2>1, <3>1
  <2> HIDE DEF levels, after
  <2>3. levels = LevelsAt(series, Warmup, i)
    BY <1>1, <1>2, <1>4, LevelsMove
  <2>4. OnBreaks(series, i - 1) \subseteq OnBreaks(series, i)
    <3>1. /\ FirstsUpTo(Swings(series).highs, AboveHighs(series), Warmup, i - 1) = {}
          /\ FirstsUpTo(Swings(series).lows, BelowLows(series), Warmup, i - 1) = {}
      <4>1. (Warmup + 1)..(i - 1) = {}
        BY <1>1, <1>4
      <4> QED BY <4>1 DEF FirstsUpTo
    <3> QED BY <3>1 DEF OnBreaks, UpsTo, DownsTo, BarsOf
  <2>5. old \in Seq(OnBreaks(series, i))
    <3>1. \A S, T : S \subseteq T => Seq(S) \subseteq Seq(T)
      OBVIOUS
    <3> QED BY <1>3, <2>4, <3>1
  <2>6. SignalsRest(series, after, i)
    BY <2>2, <2>3, <2>5 DEF SignalsRest
  <2> QED BY <2>6 DEF after
<1>5. CASE i > Warmup
  <2>1. after = [levels |-> Consumed(series, levels, i), signals |-> twice]
    <3>1. ~(i <= Warmup)
      BY <1>1, <1>5
    <3> QED BY <3>1 DEF SignalStep
  <2> HIDE DEF levels, after
  <2>2. Consumed(series, levels, i) = LevelsAt(series, Warmup, i)
    BY <1>1, <1>2, <1>5, LevelsMove
  <2>3. up => UpsTo(series, Warmup, i) = And(ups, i, levels.high)
    BY <1>1, <1>2, <1>5, LevelsMove
  <2>4. ~up => UpsTo(series, Warmup, i) = ups
    BY <1>1, <1>2, <1>5, LevelsMove
  <2>5. down => DownsTo(series, Warmup, i) = And(downs, i, levels.low)
    BY <1>1, <1>2, <1>5, LevelsMove
  <2>6. ~down => DownsTo(series, Warmup, i) = downs
    BY <1>1, <1>2, <1>5, LevelsMove
  <2> HIDE DEF up, down
  <2>7. /\ up => i \in BarsOf(UpsTo(series, Warmup, i))
        /\ down => i \in BarsOf(DownsTo(series, Warmup, i))
    <3>1. \A b, s : i \in BarsOf(And(b, i, s))
      <4> SUFFICES ASSUME NEW b, NEW s PROVE i \in BarsOf(And(b, i, s))
        OBVIOUS
      <4>1. <<i, s>> \in And(b, i, s) /\ <<i, s>>[1] = i
        BY DEF And
      <4> QED BY <4>1 DEF BarsOf
    <3> QED BY <2>3, <2>5, <3>1
  <2>8. OnBreaks(series, i - 1) \subseteq OnBreaks(series, i)
    <3>1. ups \subseteq UpsTo(series, Warmup, i) /\ downs \subseteq DownsTo(series, Warmup, i)
      <4> HIDE DEF ups, downs
      <4> QED BY <2>3, <2>4, <2>5, <2>6 DEF And
    <3>2. /\ BarsOf(ups) \subseteq BarsOf(UpsTo(series, Warmup, i))
          /\ BarsOf(downs) \subseteq BarsOf(DownsTo(series, Warmup, i))
      <4> HIDE DEF ups, downs
      <4> QED BY <3>1 DEF BarsOf
    <3> QED BY <3>2 DEF OnBreaks
  <2>9. old \in Seq(OnBreaks(series, i))
    <3>1. \A S, T : S \subseteq T => Seq(S) \subseteq Seq(T)
      OBVIOUS
    <3> QED BY <1>3, <2>8, <3>1
  <2>10. (IF up THEN long ELSE <<>>) \in Seq(OnBreaks(series, i))
    <3>1. long = <<>> \/ (long = <<long[1]>> /\ long[1] \in SignalsOn(series)
                           /\ long[1].bar = i /\ long[1].direction = "long")
      <4>1. "long" \in {"long", "short"}
        OBVIOUS
      <4> QED BY <4>1, SignalIs
    <3> HIDE DEF long
    <3>2. up /\ long # <<>> => long[1] \in OnBreaks(series, i)
      BY <2>7, <3>1 DEF OnBreaks
    <3>3. CASE up /\ long # <<>>
      <4>1. PICK s \in OnBreaks(series, i) : long = <<s>>
        BY <3>1, <3>2, <3>3
      <4>2. <<s>> \in Seq(OnBreaks(series, i))
        OBVIOUS
      <4> QED BY <3>3, <4>1, <4>2
    <3>4. CASE ~up \/ long = <<>>
      BY <3>4, EmptySeq
    <3> QED BY <3>3, <3>4
  <2>11. (IF down THEN short ELSE <<>>) \in Seq(OnBreaks(series, i))
    <3>1. short = <<>> \/ (short = <<short[1]>> /\ short[1] \in SignalsOn(series)
                           /\ short[1].bar = i /\ short[1].direction = "short")
      <4>1. "short" \in {"long", "short"}
        OBVIOUS
      <4> QED BY <4>1, SignalIs
    <3> HIDE DEF short
    <3>2. down /\ short # <<>> => short[1] \in OnBreaks(series, i)
      <4>1. "short" # "long"
        OBVIOUS
      <4> QED BY <2>7, <3>1, <4>1 DEF OnBreaks
    <3>3. CASE down /\ short # <<>>
      <4>1. PICK s \in OnBreaks(series, i) : short = <<s>>
        BY <3>1, <3>2, <3>3
      <4>2. <<s>> \in Seq(OnBreaks(series, i))
        OBVIOUS
      <4> QED BY <3>3, <4>1, <4>2
    <3>4. CASE ~down \/ short = <<>>
      BY <3>4, EmptySeq
    <3> QED BY <3>3, <3>4
  <2>12. twice \in Seq(OnBreaks(series, i))
    <3> HIDE DEF long, short, old
    <3>1. once \in Seq(OnBreaks(series, i))
      BY <2>9, <2>10, ConcatProperties
    <3> HIDE DEF once
    <3> QED BY <2>11, <3>1, ConcatProperties
  <2> HIDE DEF twice
  <2>13. SignalsRest(series, after, i)
    BY <2>1, <2>2, <2>12 DEF SignalsRest
  <2> QED BY <2>13 DEF after
<1> QED BY <1>1, <1>4, <1>5

LEMMA SignalsOnBreaks ==
  ASSUME NEW series \in Series, NEW s \in ToSet(TradeSignals(series))
  PROVE  s \in OnBreaks(series, Len(series))
<1>1. PICK f : /\ f[0] = SignalStart
               /\ \A i \in 1..Len(series) :
                    f[i] = SignalStep(series, Swings(series), OrderBlocks(series), f[i - 1], i)
               /\ TradeSignals(series) =
                    IF Len(series) < MinSignalBars THEN <<>> ELSE f[Len(series)].signals
  BY SignalWalk
<1> DEFINE S == {i \in 0..Len(series) : SignalsRest(series, f[i], i)}
<1>2. Len(series) \in Nat
  BY SeriesType
<1>3. 0 \in S
  <2>1. /\ Swings(series).highs \subseteq Nat \ {0}
        /\ Swings(series).lows \subseteq Nat \ {0}
        /\ Warmup \in Nat
    BY SwingsBreakable, SmcProAssumption DEF Breakable, SmcProAssumption
  <2>2. LevelsAt(series, Warmup, 0) = NoLevels
    BY <2>1, NoneYet DEF LevelsAt, NoLevels
  <2>3. SignalsRest(series, f[0], 0)
    BY <1>1, <2>2, EmptySeq DEF SignalsRest, SignalStart
  <2> QED BY <1>2, <2>3
<1>4. ASSUME NEW k \in 0..(Len(series) - 1), k \in S PROVE k + 1 \in S
  <2>1. k + 1 \in 1..Len(series) /\ (k + 1) - 1 = k
    BY <1>2
  <2>2. f[k + 1] = SignalStep(series, Swings(series), OrderBlocks(series), f[k], k + 1)
    BY <1>1, <2>1
  <2>3. SignalsRest(series, f[k], k)
    BY <1>4
  <2>4. SignalsRest(series, SignalStep(series, Swings(series), OrderBlocks(series), f[k], k + 1), k + 1)
    BY <2>1, <2>3, SignalStepRests
  <2> QED BY <1>2, <2>1, <2>2, <2>4
<1>5. Len(series) \in S
  <2>1. Len(series) \in 0..Len(series)
    BY <1>2
  <2> HIDE DEF S
  <2> QED BY <1>2, <1>3, <1>4, <2>1, CountingUp
<1>6. TradeSignals(series) \in Seq(OnBreaks(series, Len(series)))
  BY <1>1, <1>5, EmptySeq DEF SignalsRest
<1>7. PICK k \in 1..Len(TradeSignals(series)) : s = TradeSignals(series)[k]
  BY <1>6, LenProperties DEF ToSet
<1> QED BY <1>6, <1>7, ElementOfSeq

\* The property's definition of a first close is the one by pairs of bars.
LEMMA FirstCloses ==
  ASSUME NEW series, series = bars, series \in Series, NEW from \in Nat
  PROVE  UpBreaks(from) = UpsTo(series, from, Len(series))
         /\ DownBreaks(from) = DownsTo(series, from, Len(series))
<1> DEFINE n == Len(series)
           highs == Swings(series).highs
           lows == Swings(series).lows
<1>1. n \in Nat /\ highs \subseteq 1..n /\ lows \subseteq 1..n
  BY SeriesType, SwingsBreakable
<1>2. ASSUME NEW i \in (from + 1)..n, NEW points, points \subseteq 1..n
      PROVE  LET s == LatestOf(points, i)
             IN s # None => /\ s \in 1..n
                            /\ \A j \in (Max({s, from}) + 1)..i : j \in 1..n
  <2> DEFINE s == LatestOf(points, i)
             m == Max({s, from})
  <2>1. i \in Nat /\ points \subseteq Nat \ {0}
    BY <1>1, <1>2
  <2>2. s \in Nat /\ (s # None => s \in points)
    BY <2>1, LatestIs
  <2>3. m = IF s >= from THEN s ELSE from
    <3> HIDE DEF s
    <3> QED BY <2>2, MaxIsIf
  <2> HIDE DEF s, m
  <2>4. s # None => s \in 1..n /\ \A j \in (m + 1)..i : j \in 1..n
    BY <1>1, <1>2, <2>2, <2>3
  <2> QED BY <2>4 DEF s, m
<1>3. ASSUME NEW i \in (from + 1)..n
      PROVE  LET s == LatestOf(highs, i)
                 Above(close, t) == close > bars[t].high
             IN FirstClose(s, from, i, Above) <=> IsFirst(highs, AboveHighs(series), from, i)
  <2> DEFINE s == LatestOf(highs, i)
             m == Max({s, from})
  <2>1. s # None => s \in 1..n /\ \A j \in (m + 1)..i : j \in 1..n
    <3> HIDE DEF highs
    <3> QED BY <1>1, <1>2
  <2>2. \A j \in (m + 1)..(i - 1) : j \in (m + 1)..i
    OBVIOUS
  <2>3. i \in 1..n
    BY <1>1
  <2> HIDE DEF s, m, highs
  <2>4. \A j \in 1..n : s \in 1..n => (<<j, s>> \in AboveHighs(series) <=> bars[j].close > bars[s].high)
    BY DEF AboveHighs
  <2> HIDE DEF n
  <2>5. (s # None /\ bars[i].close > bars[s].high
          /\ \A j \in (m + 1)..(i - 1) : ~(bars[j].close > bars[s].high))
        <=> (s # None /\ <<i, s>> \in AboveHighs(series)
              /\ \A j \in (m + 1)..(i - 1) : <<j, s>> \notin AboveHighs(series))
    BY <2>1, <2>2, <2>3, <2>4
  <2> QED BY <2>5 DEF FirstClose, IsFirst, s, m
<1>4. ASSUME NEW i \in (from + 1)..n
      PROVE  LET s == LatestOf(lows, i)
                 Below(close, t) == close < bars[t].low
             IN FirstClose(s, from, i, Below) <=> IsFirst(lows, BelowLows(series), from, i)
  <2> DEFINE s == LatestOf(lows, i)
             m == Max({s, from})
  <2>1. s # None => s \in 1..n /\ \A j \in (m + 1)..i : j \in 1..n
    <3> HIDE DEF lows
    <3> QED BY <1>1, <1>2
  <2>2. \A j \in (m + 1)..(i - 1) : j \in (m + 1)..i
    OBVIOUS
  <2>3. i \in 1..n
    BY <1>1
  <2> HIDE DEF s, m, lows
  <2>4. \A j \in 1..n : s \in 1..n => (<<j, s>> \in BelowLows(series) <=> bars[j].close < bars[s].low)
    BY DEF BelowLows
  <2> HIDE DEF n
  <2>5. (s # None /\ bars[i].close < bars[s].low
          /\ \A j \in (m + 1)..(i - 1) : ~(bars[j].close < bars[s].low))
        <=> (s # None /\ <<i, s>> \in BelowLows(series)
              /\ \A j \in (m + 1)..(i - 1) : <<j, s>> \notin BelowLows(series))
    BY <2>1, <2>2, <2>3, <2>4
  <2> QED BY <2>5 DEF FirstClose, IsFirst, s, m
<1>5. UpBreaks(from) = UpsTo(series, from, n)
  <2> DEFINE Above(close, t) == close > bars[t].high
             F == {k \in (from + 1)..n : FirstClose(LatestOf(highs, k), from, k, Above)}
             G == {k \in (from + 1)..n : IsFirst(highs, AboveHighs(series), from, k)}
  <2>1. F = G
    BY <1>3
  <2>2. UpBreaks(from) = {<<i, LatestOf(highs, i)>> : i \in F}
    BY DEF UpBreaks
  <2>3. UpsTo(series, from, n) = {<<i, LatestOf(highs, i)>> : i \in G}
    BY DEF UpsTo, FirstsUpTo
  <2> HIDE DEF F, G
  <2> QED BY <2>1, <2>2, <2>3
<1>6. DownBreaks(from) = DownsTo(series, from, n)
  <2> DEFINE Below(close, t) == close < bars[t].low
             F == {k \in (from + 1)..n : FirstClose(LatestOf(lows, k), from, k, Below)}
             G == {k \in (from + 1)..n : IsFirst(lows, BelowLows(series), from, k)}
  <2>1. F = G
    BY <1>4
  <2>2. DownBreaks(from) = {<<i, LatestOf(lows, i)>> : i \in F}
    BY DEF DownBreaks
  <2>3. DownsTo(series, from, n) = {<<i, LatestOf(lows, i)>> : i \in G}
    BY DEF DownsTo, FirstsUpTo
  <2> HIDE DEF F, G
  <2> QED BY <2>1, <2>2, <2>3
<1> QED BY <1>5, <1>6

LEMMA FoundAreTold ==
  ASSUME NEW events \in Seq(Events), NEW d
  PROVE  {<<e.bar, e.swing>> : e \in {f \in ToSet(events) : f.direction = d}} = Told(events, d)
<1>1. DOMAIN events = 1..Len(events)
  BY LenProperties
<1>2. ToSet(events) = {events[k] : k \in 1..Len(events)}
  BY <1>1 DEF ToSet
<1> DEFINE K == {j \in 1..Len(events) : events[j].direction = d}
           E == {f \in ToSet(events) : f.direction = d}
<1>3. E = {events[k] : k \in K}
  BY <1>2
<1>4. Told(events, d) = {<<events[k].bar, events[k].swing>> : k \in K}
  BY DEF Told
<1> HIDE DEF K, E
<1>5. {<<e.bar, e.swing>> : e \in E} = {<<events[k].bar, events[k].swing>> : k \in K}
  BY <1>3
<1> QED BY <1>4, <1>5 DEF E

\* For any series, the walks of smc.py and smc_pro.py tell the same breaks, which
\* are the first closes beyond the latest swing, and signals are given at them only
\* (smc.py:45-74, smc_pro.py:117-188, 341-364).
THEOREM BreaksAreFirst == Growth => []BreaksAreFirstCloses
<1>1. SeriesInv => BreaksAreFirstCloses
  <2> SUFFICES ASSUME SeriesInv PROVE BreaksAreFirstCloses
    OBVIOUS
  <2>1. PICK series : series = bars
    OBVIOUS
  <2>2. series \in Series
    BY <2>1 DEF SeriesInv
  <2>3. PICK trend : Tells(BosChoch(series), trend, UpsTo(series, 0, Len(series)),
                           DownsTo(series, 0, Len(series)))
    BY <2>2, BreaksAreTold
  <2>4. UpBreaks(0) = UpsTo(series, 0, Len(series)) /\ DownBreaks(0) = DownsTo(series, 0, Len(series))
    <3>1. 0 \in Nat
      OBVIOUS
    <3> QED BY <2>1, <2>2, <3>1, FirstCloses
  <2>5. UpBreaks(Warmup) = UpsTo(series, Warmup, Len(series))
        /\ DownBreaks(Warmup) = DownsTo(series, Warmup, Len(series))
    <3>1. Warmup \in Nat
      BY SmcProAssumption DEF SmcProAssumption
    <3> QED BY <2>1, <2>2, <3>1, FirstCloses
  <2> DEFINE events == BosChoch(bars)
             Found(direction) == {<<e.bar, e.swing>> : e \in {f \in ToSet(events) : f.direction = direction}}
  <2>6. events = BosChoch(series)
    BY <2>1
  <2>7. events \in Seq(Events) /\ DOMAIN events = 1..Len(events)
    BY <2>3, <2>6, LenProperties DEF Tells
  <2>8. /\ Found("bullish") = UpBreaks(0)
        /\ Found("bearish") = DownBreaks(0)
    <3> HIDE DEF events
    <3> QED BY <2>3, <2>4, <2>6, <2>7, FoundAreTold DEF Tells
  <2>9. BlockWalk(bars).breaks = UpBreaks(0) \cup DownBreaks(0)
    BY <2>1, <2>2, <2>4, BlocksOfBreaks
  <2>10. \A k \in DOMAIN events :
           events[k].label = "CHOCH" <=> k > 1 /\ events[k - 1].direction # events[k].direction
    <3> HIDE DEF events
    <3> QED BY <2>3, <2>6, <2>7 DEF Tells, IsLabelled
  <2>11. \A s \in ToSet(TradeSignals(bars)) :
           s.bar \in BarsOf(IF s.direction = "long" THEN UpBreaks(Warmup) ELSE DownBreaks(Warmup))
    <3> SUFFICES ASSUME NEW s \in ToSet(TradeSignals(bars))
                 PROVE  s.bar \in BarsOf(IF s.direction = "long" THEN UpBreaks(Warmup) ELSE DownBreaks(Warmup))
      OBVIOUS
    <3>1. s \in OnBreaks(series, Len(series))
      BY <2>1, <2>2, SignalsOnBreaks
    <3> QED BY <2>5, <3>1 DEF OnBreaks
  <2> QED BY <2>8, <2>9, <2>10, <2>11 DEF BreaksAreFirstCloses
<1> QED BY <1>1, GrowthSeriesInv, PTL

-----------------------------------------------------------------------------
(* Sequences, as sets of their members.                                    *)

Members(s) == {s[k] : k \in 1..Len(s)}

LEMMA MembersAreToSet ==
  ASSUME NEW T, NEW s \in Seq(T)
  PROVE  /\ Members(s) = ToSet(s)
         /\ Members(s) \subseteq T
         /\ \A k \in 1..Len(s) : s[k] \in Members(s)
<1>1. DOMAIN s = 1..Len(s) /\ \A k \in 1..Len(s) : s[k] \in T
  BY LenProperties, ElementOfSeq
<1> QED BY <1>1 DEF Members, ToSet

LEMMA MembersOfAppend ==
  ASSUME NEW T, NEW s \in Seq(T), NEW e \in T
  PROVE  Members(Append(s, e)) = Members(s) \cup {e}
<1> DEFINE t == Append(s, e)
           n == Len(s)
<1>1. /\ n \in Nat /\ Len(t) = n + 1 /\ t[n + 1] = e
      /\ \A k \in 1..n : t[k] = s[k]
  BY AppendProperties, LenProperties
<1>2. \A k : k \in 1..(n + 1) <=> k \in 1..n \/ k = n + 1
  BY <1>1
<1> HIDE DEF t, n
<1>3. {t[k] : k \in 1..(n + 1)} = {s[k] : k \in 1..n} \cup {e}
  BY <1>1, <1>2
<1> QED BY <1>1, <1>3 DEF Members, t, n

LEMMA MembersOfConcat ==
  ASSUME NEW T, NEW s \in Seq(T), NEW r \in Seq(T)
  PROVE  /\ s \o r \in Seq(T)
         /\ Len(s \o r) = Len(s) + Len(r)
         /\ Members(s \o r) = Members(s) \cup Members(r)
<1> DEFINE t == s \o r
           n == Len(s)
           m == Len(r)
<1>1. /\ n \in Nat /\ m \in Nat /\ t \in Seq(T) /\ Len(t) = n + m
      /\ \A k \in 1..(n + m) : t[k] = IF k <= n THEN s[k] ELSE r[k - n]
  BY ConcatProperties, LenProperties
<1> HIDE DEF t, n, m
<1>2. ASSUME NEW k \in 1..m PROVE k + n \in 1..(n + m) /\ t[k + n] = r[k]
  <2>1. k + n \in 1..(n + m) /\ ~(k + n <= n) /\ (k + n) - n = k
    BY <1>1
  <2> QED BY <1>1, <2>1
<1>3. ASSUME NEW k \in 1..n PROVE k \in 1..(n + m) /\ t[k] = s[k]
  BY <1>1
<1>4. ASSUME NEW k \in 1..(n + m)
      PROVE  t[k] \in {s[j] : j \in 1..n} \cup {r[j] : j \in 1..m}
  <2>1. CASE k <= n
    <3>1. k \in 1..n /\ t[k] = s[k]
      BY <1>1, <2>1
    <3> QED BY <3>1
  <2>2. CASE ~(k <= n)
    <3>1. k - n \in 1..m /\ t[k] = r[k - n]
      BY <1>1, <2>2
    <3> QED BY <3>1
  <2> QED BY <2>1, <2>2
<1>5. {t[k] : k \in 1..(n + m)} = {s[j] : j \in 1..n} \cup {r[j] : j \in 1..m}
  <2>1. \A x \in {t[k] : k \in 1..(n + m)} : x \in {s[j] : j \in 1..n} \cup {r[j] : j \in 1..m}
    BY <1>4
  <2>2. \A x \in {s[j] : j \in 1..n} : x \in {t[k] : k \in 1..(n + m)}
    BY <1>3
  <2>3. \A x \in {r[j] : j \in 1..m} : x \in {t[k] : k \in 1..(n + m)}
    BY <1>2
  <2> QED BY <2>1, <2>2, <2>3
<1> QED BY <1>1, <1>5 DEF Members, t, n, m

\* What is picked from a sequence.
IsPicking(seq, places, f, n) ==
  f = [k \in 0..n |->
         IF k = 0 THEN <<>>
         ELSE IF k \in places THEN Append(f[k - 1], seq[k]) ELSE f[k - 1]]

LEMMA PickingExists ==
  ASSUME NEW seq, NEW places, NEW n \in Nat
  PROVE  \E f : IsPicking(seq, places, f, n)
<1> DEFINE Step(f, k) == IF k \in places THEN Append(f[k - 1], seq[k]) ELSE f[k - 1]
           S == {m \in 0..n : \E f : IsPicking(seq, places, f, m)}
<1>1. 0 \in S
  <2> DEFINE f == [k \in 0..0 |-> <<>>]
  <2>1. f = [k \in 0..0 |-> IF k = 0 THEN <<>> ELSE Step(f, k)]
    <3> HIDE DEF Step
    <3>1. \A k \in 0..0 : k = 0
      OBVIOUS
    <3> QED BY <3>1
  <2> HIDE DEF f
  <2> QED BY <2>1 DEF IsPicking
<1>2. ASSUME NEW m \in 0..(n - 1), m \in S PROVE m + 1 \in S
  <2>1. PICK f : IsPicking(seq, places, f, m)
    BY <1>2
  <2> DEFINE g == [k \in 0..(m + 1) |->
                     IF k = m + 1 THEN (IF m + 1 \in places THEN Append(f[m], seq[m + 1]) ELSE f[m])
                     ELSE f[k]]
  <2>2. g = [k \in 0..(m + 1) |-> IF k = 0 THEN <<>> ELSE Step(g, k)]
    <3>1. ASSUME NEW k \in 0..(m + 1)
          PROVE  g[k] = IF k = 0 THEN <<>> ELSE Step(g, k)
      <4>1. CASE k = m + 1
        <5>1. m \in 0..(m + 1) /\ m # m + 1 /\ (m + 1) - 1 = m /\ m + 1 # 0
          OBVIOUS
        <5>2. g[k - 1] = f[m] /\ g[k] = (IF m + 1 \in places THEN Append(f[m], seq[m + 1]) ELSE f[m])
          BY <4>1, <5>1
        <5> HIDE DEF g
        <5> QED BY <4>1, <5>1, <5>2
      <4>2. CASE k # m + 1
        <5>1. k \in 0..m
          BY <4>2
        <5>2. f[k] = IF k = 0 THEN <<>> ELSE Step(f, k)
          BY <2>1, <5>1 DEF IsPicking
        <5>3. k # 0 => k - 1 \in 0..(m + 1) /\ k - 1 # m + 1
          BY <5>1
        <5>4. g[k] = f[k] /\ (k # 0 => g[k - 1] = f[k - 1])
          BY <4>2, <5>3
        <5> HIDE DEF g
        <5> QED BY <5>2, <5>4
      <4> QED BY <4>1, <4>2
    <3> HIDE DEF Step
    <3> QED BY <3>1
  <2>3. m + 1 \in 0..n
    OBVIOUS
  <2> HIDE DEF g
  <2> QED BY <2>2, <2>3 DEF IsPicking
<1>3. \A k \in 0..n : k \in S
  <2> HIDE DEF S
  <2> QED BY <1>1, <1>2, CountingUp
<1> QED BY <1>3

LEMMA PickingOf ==
  ASSUME NEW T, NEW seq \in Seq(T), NEW places
  PROVE  \E f : /\ f[0] = <<>>
                /\ \A k \in 1..Len(seq) :
                     f[k] = IF k \in places THEN Append(f[k - 1], seq[k]) ELSE f[k - 1]
                /\ Picked(seq, places) = f[Len(seq)]
<1> DEFINE n == Len(seq)
           f == CHOOSE g : IsPicking(seq, places, g, n)
<1>1. n \in Nat
  BY LenProperties
<1>2. IsPicking(seq, places, f, n)
  <2> HIDE DEF n
  <2> QED BY <1>1, PickingExists
<1>3. Picked(seq, places) = f[n]
  BY DEF Picked, IsPicking
<1> HIDE DEF f
<1>4. f[0] = <<>>
  BY <1>1, <1>2 DEF IsPicking
<1>5. \A k \in 1..n : f[k] = IF k \in places THEN Append(f[k - 1], seq[k]) ELSE f[k - 1]
  <2> SUFFICES ASSUME NEW k \in 1..n
               PROVE  f[k] = IF k \in places THEN Append(f[k - 1], seq[k]) ELSE f[k - 1]
    OBVIOUS
  <2>1. k \in 0..n /\ k # 0
    BY <1>1
  <2> QED BY <1>2, <2>1 DEF IsPicking
<1> QED BY <1>3, <1>4, <1>5

LEMMA PickedMembers ==
  ASSUME NEW T, NEW seq \in Seq(T), NEW places
  PROVE  /\ Picked(seq, places) \in Seq(T)
         /\ Members(Picked(seq, places)) = {seq[k] : k \in {j \in 1..Len(seq) : j \in places}}
<1>1. PICK f : /\ f[0] = <<>>
               /\ \A k \in 1..Len(seq) :
                    f[k] = IF k \in places THEN Append(f[k - 1], seq[k]) ELSE f[k - 1]
               /\ Picked(seq, places) = f[Len(seq)]
  BY PickingOf
<1> DEFINE From(k) == {seq[p] : p \in {j \in 1..k : j \in places}}
           S == {k \in 0..Len(seq) : f[k] \in Seq(T) /\ Members(f[k]) = From(k)}
<1>2. Len(seq) \in Nat
  BY LenProperties
<1>3. 0 \in S
  <2>1. <<>> \in Seq(T) /\ Len(<<>>) = 0 /\ 1..0 = {}
    BY EmptySeq
  <2>2. Members(<<>>) = {} /\ From(0) = {}
    BY <2>1 DEF Members
  <2> HIDE DEF From
  <2>3. f[0] \in Seq(T) /\ Members(f[0]) = From(0)
    BY <1>1, <2>1, <2>2
  <2>4. 0 \in 0..Len(seq)
    BY <1>2
  <2> QED BY <2>3, <2>4
<1>4. ASSUME NEW k \in 0..(Len(seq) - 1), k \in S PROVE k + 1 \in S
  <2>1. k + 1 \in 1..Len(seq) /\ (k + 1) - 1 = k /\ k + 1 \in 0..Len(seq)
    BY <1>2
  <2>2. f[k + 1] = IF k + 1 \in places THEN Append(f[k], seq[k + 1]) ELSE f[k]
    BY <1>1, <2>1
  <2>3. seq[k + 1] \in T
    BY <2>1, ElementOfSeq
  <2>4. From(k + 1) = From(k) \cup (IF k + 1 \in places THEN {seq[k + 1]} ELSE {})
    <3>1. \A j : j \in 1..(k + 1) <=> j \in 1..k \/ j = k + 1
      BY <1>2
    <3> DEFINE P == {j \in 1..k : j \in places}
               Q == {j \in 1..(k + 1) : j \in places}
    <3>2. Q = P \cup (IF k + 1 \in places THEN {k + 1} ELSE {})
      BY <3>1
    <3>3. From(k) = {seq[p] : p \in P} /\ From(k + 1) = {seq[p] : p \in Q}
      OBVIOUS
    <3> HIDE DEF P, Q, From
    <3> QED BY <3>2, <3>3
  <2> HIDE DEF From
  <2>5. CASE k + 1 \in places
    <3>1. Members(Append(f[k], seq[k + 1])) = Members(f[k]) \cup {seq[k + 1]}
      BY <1>4, <2>3, MembersOfAppend
    <3>2. Append(f[k], seq[k + 1]) \in Seq(T)
      BY <1>4, <2>3, AppendProperties
    <3> QED BY <1>4, <2>1, <2>2, <2>4, <2>5, <3>1, <3>2
  <2>6. CASE k + 1 \notin places
    BY <1>4, <2>1, <2>2, <2>4, <2>6
  <2> QED BY <2>5, <2>6
<1>5. Len(seq) \in S
  <2>1. Len(seq) \in 0..Len(seq)
    BY <1>2
  <2> HIDE DEF S
  <2> QED BY <1>2, <1>3, <1>4, <2>1, CountingUp
<1> QED BY <1>1, <1>5

-----------------------------------------------------------------------------
(* Fair value gaps.                                                        *)

GapZones ==
  [kind : {"fair_value_gap"}, bias : Directions, top : Int, bottom : Int,
   start : Nat, end : Nat, inverse : BOOLEAN]

InverseOf(z, g) ==
  /\ g.end = z.start
  /\ g.bias = Flipped(z.bias)
  /\ g.top = z.top /\ g.bottom = z.bottom

LEMMA EndedFields ==
  ASSUME NEW z \in GapZones, NEW i \in Nat, NEW e, e = EndedAt(z, i)
  PROVE  /\ e \in GapZones
         /\ e.end = i /\ e.inverse = z.inverse
         /\ e.start = z.start /\ e.bias = z.bias
         /\ e.top = z.top /\ e.bottom = z.bottom
<1>1. z = [kind |-> z.kind, bias |-> z.bias, top |-> z.top, bottom |-> z.bottom,
           start |-> z.start, end |-> z.end, inverse |-> z.inverse]
  BY DEF GapZones
<1>2. e = [kind |-> z.kind, bias |-> z.bias, top |-> z.top, bottom |-> z.bottom,
           start |-> z.start, end |-> i, inverse |-> z.inverse]
  BY <1>1 DEF EndedAt
<1>3. e \in GapZones
  BY <1>2 DEF GapZones
<1> QED BY <1>2, <1>3

LEMMA InvertedFields ==
  ASSUME NEW z \in GapZones, NEW i \in Nat, NEW e, e = EndedAt(z, i),
         NEW inverse, inverse = Inverted(z, i)
  PROVE  inverse \in GapZones /\ inverse.inverse = TRUE /\ InverseOf(inverse, e)
<1>1. /\ z.kind = "fair_value_gap" /\ z.bias \in Directions /\ z.top \in Int /\ z.bottom \in Int
  BY DEF GapZones
<1>2. Flipped(z.bias) \in Directions /\ Flipped(Flipped(z.bias)) = z.bias
  BY <1>1 DEF Flipped, Directions
<1>3. inverse = [kind |-> z.kind, bias |-> Flipped(z.bias), top |-> z.top, bottom |-> z.bottom,
                 start |-> i, end |-> None, inverse |-> TRUE]
  <2>1. PICK new : new = Zone(z.kind, Flipped(z.bias), z.top, z.bottom, i)
    OBVIOUS
  <2>2. new = [kind |-> z.kind, bias |-> Flipped(z.bias), top |-> z.top, bottom |-> z.bottom,
               start |-> i, end |-> None, inverse |-> FALSE]
    BY <2>1 DEF Zone
  <2>3. Inverted(z, i) = [new EXCEPT !.inverse = TRUE]
    BY <2>1 DEF Inverted
  <2> QED BY <2>2, <2>3
<1>4. inverse \in GapZones
  BY <1>1, <1>2, <1>3 DEF GapZones, None
<1>5. e.end = i /\ e.bias = z.bias /\ e.top = z.top /\ e.bottom = z.bottom
  BY EndedFields
<1> QED BY <1>2, <1>3, <1>4, <1>5 DEF InverseOf

LEMMA NewGap ==
  ASSUME NEW series \in Series, NEW i \in 1..Len(series)
  PROVE  \/ /\ GapAt(series, i) = <<>>
            /\ \A g \in FairValueGaps(series) : g.bar # i
         \/ \E z \in GapZones :
              /\ GapAt(series, i) = <<z>>
              /\ ~z.inverse /\ z.end = None /\ i >= 3 /\ z.start = i - 2
              /\ GapOf(z) \in FairValueGaps(series)
              /\ \A g \in FairValueGaps(series) : g.bar = i => g = GapOf(z)
<1> DEFINE n == Len(series)
           Bull(k) == [bar |-> k, bias |-> "bullish", top |-> series[k].low, bottom |-> series[k - 2].high]
           Bear(k) == [bar |-> k, bias |-> "bearish", top |-> series[k - 2].low, bottom |-> series[k].high]
           bulls == {k \in 3..n : series[k - 2].high < series[k].low}
           bears == {k \in 3..n : series[k - 2].low > series[k].high}
<1>1. FairValueGaps(series) = {Bull(k) : k \in bulls} \cup {Bear(k) : k \in bears}
  BY DEF FairValueGaps
<1>2. n \in Nat /\ i \in 1..n
  BY SeriesType
<1>3. \A g \in FairValueGaps(series) :
        g.bar = i => (i \in bulls /\ g = Bull(i)) \/ (i \in bears /\ g = Bear(i))
  <2>1. \A k : Bull(k).bar = k /\ Bear(k).bar = k
    OBVIOUS
  <2> HIDE DEF Bull, Bear, bulls, bears
  <2> QED BY <1>1, <2>1
<1>4. /\ i \in bulls => Bull(i) \in FairValueGaps(series)
      /\ i \in bears => Bear(i) \in FairValueGaps(series)
  <2> HIDE DEF Bull, Bear, bulls, bears
  <2> QED BY <1>1
<1>5. i >= 3 =>
        /\ i - 2 \in 1..n
        /\ series[i].low \in Int /\ series[i].high \in Int /\ series[i].low <= series[i].high
        /\ series[i - 2].low \in Int /\ series[i - 2].high \in Int
        /\ series[i - 2].low <= series[i - 2].high
  <2>1. i >= 3 => i - 2 \in 1..n
    BY <1>2
  <2>2. \A k \in 1..n : series[k].low \in Int /\ series[k].high \in Int /\ series[k].low <= series[k].high
    <3> SUFFICES ASSUME NEW k \in 1..n
                 PROVE  series[k].low \in Int /\ series[k].high \in Int /\ series[k].low <= series[k].high
      OBVIOUS
    <3>1. /\ series[k].low \in Int /\ series[k].high \in Int /\ series[k].close \in Int
          /\ series[k].low <= series[k].close /\ series[k].close <= series[k].high
      BY BarEnds
    <3> DEFINE l == series[k].low
               h == series[k].high
               c == series[k].close
    <3>2. l \in Int /\ h \in Int /\ c \in Int /\ l <= c /\ c <= h
      BY <3>1
    <3> HIDE DEF l, h, c
    <3>3. l <= h
      BY <3>2
    <3> QED BY <3>2, <3>3 DEF l, h
  <2> QED BY <1>2, <2>1, <2>2
<1>6. CASE i \in bulls
  <2> DEFINE z == Zone("fair_value_gap", "bullish", series[i].low, series[i - 2].high, i - 2)
  <2>1. i >= 3 /\ i \notin bears
    BY <1>5, <1>6
  <2>2. GapAt(series, i) = <<z>>
    BY <1>6, <2>1 DEF GapAt
  <2>3. z \in GapZones
    <3>1. i - 2 \in Nat
      BY <2>1
    <3> QED BY <1>5, <2>1, <3>1 DEF Zone, GapZones, Directions, None
  <2>4. GapOf(z) = Bull(i)
    <3>1. (i - 2) + 2 = i
      BY <1>2
    <3> QED BY <3>1 DEF GapOf, Zone
  <2>5. ~z.inverse /\ z.end = None /\ z.start = i - 2
    BY DEF Zone
  <2> HIDE DEF z, Bull, Bear, bulls, bears
  <2> QED BY <1>3, <1>4, <1>6, <2>1, <2>2, <2>3, <2>4, <2>5
<1>7. CASE i \in bears
  <2> DEFINE z == Zone("fair_value_gap", "bearish", series[i - 2].low, series[i].high, i - 2)
  <2>1. i >= 3 /\ i \notin bulls
    BY <1>5, <1>7
  <2>2. GapAt(series, i) = <<z>>
    BY <1>7, <2>1 DEF GapAt
  <2>3. z \in GapZones
    <3>1. i - 2 \in Nat
      BY <2>1
    <3> QED BY <1>5, <2>1, <3>1 DEF Zone, GapZones, Directions, None
  <2>4. GapOf(z) = Bear(i)
    <3>1. (i - 2) + 2 = i
      BY <1>2
    <3> QED BY <3>1 DEF GapOf, Zone
  <2>5. ~z.inverse /\ z.end = None /\ z.start = i - 2
    BY DEF Zone
  <2> HIDE DEF z, Bull, Bear, bulls, bears
  <2> QED BY <1>3, <1>4, <1>7, <2>1, <2>2, <2>3, <2>4, <2>5
<1>8. CASE i \notin bulls /\ i \notin bears
  <2>1. GapAt(series, i) = <<>>
    BY <1>2, <1>8 DEF GapAt
  <2> HIDE DEF Bull, Bear, bulls, bears
  <2> QED BY <1>3, <1>8, <2>1
<1> QED BY <1>6, <1>7, <1>8

\* The new gap is first, the others stay in their order, and the oldest are dropped.
Placed(old, i, filled, fresh, new) ==
  /\ Len(new) = IF Len(fresh) + Len(old) <= 2 * MaxGaps THEN Len(fresh) + Len(old) ELSE 2 * MaxGaps
  /\ \A k \in 1..Len(new) :
       /\ k <= Len(fresh) => new[k] = fresh[k]
       /\ k > Len(fresh) =>
            LET z == old[k - Len(fresh)]
            IN new[k] = IF z \in filled THEN Inverted(z, i) ELSE z

\* One bar of detect_fvg_with_inverse, as sets.
StepMakes(before, i, filled, stays, fresh, after) ==
  LET all == Members(fresh) \cup ({Inverted(z, i) : z \in filled} \cup stays)
  IN  /\ after.zones \in Seq(GapZones) /\ after.active \in Seq(GapZones)
      /\ Members(after.zones) = Members(before.zones) \cup {EndedAt(z, i) : z \in filled}
      /\ Members(after.active) \subseteq all
      /\ Placed(before.active, i, filled, fresh, after.active)

LEMMA GapStepSets ==
  ASSUME NEW series \in Series, NEW i \in 1..Len(series), NEW before,
         before.zones \in Seq(GapZones), before.active \in Seq(GapZones),
         NEW after, after = GapStep(series, before, i),
         NEW filled, filled = {z \in Members(before.active) : Fills(z, series[i].close)},
         NEW stays, stays = Members(before.active) \ filled,
         NEW fresh, fresh = GapAt(series, i)
  PROVE  StepMakes(before, i, filled, stays, fresh, after)
<1> DEFINE old == before.active
           n == Len(old)
           places == {k \in DOMAIN old : Fills(old[k], series[i].close)}
           picked == Picked(old, places)
           ended == [k \in DOMAIN picked |-> EndedAt(picked[k], i)]
           flipped == [k \in DOMAIN old |-> IF k \in places THEN Inverted(old[k], i) ELSE old[k]]
           all == fresh \o flipped
<1>1. after.zones = before.zones \o ended /\ after.active = Newest(all, 2 * MaxGaps)
  BY DEF GapStep
<1>2. /\ i \in Nat /\ n \in Nat /\ DOMAIN old = 1..n
      /\ \A k \in 1..n : old[k] \in GapZones
  BY SeriesType, LenProperties, ElementOfSeq
<1>3. Members(old) = {old[k] : k \in 1..n}
  BY DEF Members
<1>4. /\ \A k \in 1..n : k \in places <=> old[k] \in filled
      /\ places \subseteq 1..n
  BY <1>2, <1>3
<1>5. filled = {old[k] : k \in places} /\ filled \subseteq GapZones
  <2>1. filled \subseteq Members(old)
    OBVIOUS
  <2> HIDE DEF places
  <2> QED BY <1>2, <1>3, <1>4, <2>1
<1> HIDE DEF old, n, places
<1>6. /\ picked \in Seq(GapZones)
      /\ Members(picked) = filled
  <2>1. old \in Seq(GapZones)
    BY DEF old
  <2>2. /\ picked \in Seq(GapZones)
        /\ Members(picked) = {old[k] : k \in {j \in 1..Len(old) : j \in places}}
    BY <2>1, PickedMembers
  <2>3. {j \in 1..Len(old) : j \in places} = places
    BY <1>4 DEF n
  <2> QED BY <1>5, <2>2, <2>3
<1> HIDE DEF picked
<1>7. ended \in Seq(GapZones) /\ Members(ended) = {EndedAt(z, i) : z \in filled}
  <2>1. DOMAIN picked = 1..Len(picked) /\ Len(picked) \in Nat
    BY <1>6, LenProperties
  <2>2. \A k \in 1..Len(picked) : picked[k] \in GapZones /\ EndedAt(picked[k], i) \in GapZones
    BY <1>2, <1>6, ElementOfSeq, EndedFields
  <2>3. ended = [k \in 1..Len(picked) |-> EndedAt(picked[k], i)]
    BY <2>1
  <2>4. ended \in Seq(GapZones) /\ Len(ended) = Len(picked)
    BY <2>1, <2>2, <2>3
  <2>5. Members(picked) = {picked[k] : k \in 1..Len(picked)}
    BY DEF Members
  <2>6. Members(ended) = {EndedAt(picked[k], i) : k \in 1..Len(picked)}
    <3>1. Members(ended) = {ended[k] : k \in 1..Len(picked)}
      BY <2>4 DEF Members
    <3>2. \A k \in 1..Len(picked) : ended[k] = EndedAt(picked[k], i)
      BY <2>3
    <3> HIDE DEF ended
    <3> QED BY <3>1, <3>2
  <2> HIDE DEF ended
  <2>7. {EndedAt(picked[k], i) : k \in 1..Len(picked)} = {EndedAt(z, i) : z \in Members(picked)}
    BY <2>5
  <2> QED BY <1>6, <2>4, <2>6, <2>7
<1> HIDE DEF ended
<1>8. /\ flipped \in Seq(GapZones) /\ Len(flipped) = n
      /\ Members(flipped) = {Inverted(z, i) : z \in filled} \cup stays
      /\ \A k \in 1..n : flipped[k] = IF old[k] \in filled THEN Inverted(old[k], i) ELSE old[k]
  <2>1. \A k \in 1..n : /\ old[k] \in GapZones
                        /\ Inverted(old[k], i) \in GapZones
    BY <1>2, InvertedFields
  <2>2. flipped = [k \in 1..n |-> IF k \in places THEN Inverted(old[k], i) ELSE old[k]]
    BY <1>2
  <2>3. flipped \in Seq(GapZones) /\ Len(flipped) = n
    BY <1>2, <2>1, <2>2
  <2>4. Members(flipped) = {flipped[k] : k \in 1..n}
    BY <2>3 DEF Members
  <2>5. \A k \in 1..n : flipped[k] = IF k \in places THEN Inverted(old[k], i) ELSE old[k]
    BY <2>2
  <2> HIDE DEF flipped
  <2>6. stays = {old[k] : k \in {j \in 1..n : j \notin places}}
    <3>1. stays = Members(old) \ filled
      BY DEF old
    <3> QED BY <1>3, <1>4, <3>1
  <2>7. \A x : x \in {flipped[k] : k \in 1..n} <=> x \in {Inverted(z, i) : z \in filled} \/ x \in stays
    <3>1. ASSUME NEW k \in 1..n PROVE flipped[k] \in {Inverted(z, i) : z \in filled} \/ flipped[k] \in stays
      BY <1>4, <1>5, <2>5, <2>6
    <3>2. ASSUME NEW z \in filled PROVE Inverted(z, i) \in {flipped[k] : k \in 1..n}
      BY <1>4, <1>5, <2>5
    <3>3. ASSUME NEW z \in stays PROVE z \in {flipped[k] : k \in 1..n}
      BY <2>5, <2>6
    <3> QED BY <3>1, <3>2, <3>3
  <2>8. \A k \in 1..n : flipped[k] = IF old[k] \in filled THEN Inverted(old[k], i) ELSE old[k]
    BY <1>4, <2>5
  <2> QED BY <2>3, <2>4, <2>7, <2>8
<1> HIDE DEF flipped
<1>9. fresh \in Seq(GapZones) /\ Len(fresh) \in Nat
  <2>1. fresh = <<>> \/ \E z \in GapZones : fresh = <<z>>
    BY NewGap
  <2>2. CASE fresh = <<>>
    BY <2>2, EmptySeq
  <2>3. CASE \E z \in GapZones : fresh = <<z>>
    <3>1. PICK z \in GapZones : fresh = <<z>>
      BY <2>3
    <3>2. <<z>> \in Seq(GapZones) /\ Len(<<z>>) = 1
      OBVIOUS
    <3> QED BY <3>1, <3>2
  <2> QED BY <2>1, <2>2, <2>3
<1>10. /\ all \in Seq(GapZones) /\ Len(all) = Len(fresh) + n
       /\ Members(all) = Members(fresh) \cup ({Inverted(z, i) : z \in filled} \cup stays)
       /\ \A k \in 1..Len(all) : all[k] = IF k <= Len(fresh) THEN fresh[k] ELSE flipped[k - Len(fresh)]
  <2>1. /\ all \in Seq(GapZones) /\ Len(all) = Len(fresh) + Len(flipped)
        /\ Members(all) = Members(fresh) \cup Members(flipped)
        /\ \A k \in 1..Len(all) : all[k] = IF k <= Len(fresh) THEN fresh[k] ELSE flipped[k - Len(fresh)]
    <3>1. fresh \in Seq(GapZones) /\ flipped \in Seq(GapZones)
      BY <1>8, <1>9
    <3> QED BY <3>1, MembersOfConcat, ConcatProperties
  <2> HIDE DEF all
  <2> QED BY <1>8, <2>1
<1> HIDE DEF all
<1>11. /\ after.zones \in Seq(GapZones)
       /\ Members(after.zones) = Members(before.zones) \cup {EndedAt(z, i) : z \in filled}
  BY <1>1, <1>7, MembersOfConcat
<1>12. /\ after.active \in Seq(GapZones)
       /\ Members(after.active) \subseteq Members(all)
       /\ Len(after.active) = IF Len(all) <= 2 * MaxGaps THEN Len(all) ELSE 2 * MaxGaps
       /\ \A k \in 1..Len(after.active) : k \in 1..Len(all) /\ after.active[k] = all[k]
  <2> DEFINE l == Len(all)
             m == Min({l, 2 * MaxGaps})
             cut == SubSeq(all, 1, m)
  <2>1. l \in Nat /\ 2 * MaxGaps \in Nat
    BY <1>10, LenProperties, SmcProAssumption DEF SmcProAssumption
  <2>2. m = IF l <= 2 * MaxGaps THEN l ELSE 2 * MaxGaps
    <3> DEFINE g == 2 * MaxGaps
    <3> HIDE DEF l, g
    <3>1. Min({l, g}) = IF l <= g THEN l ELSE g
      BY <2>1, MinIsIf DEF g
    <3> QED BY <3>1 DEF g
  <2>3. after.active = cut
    BY <1>1 DEF Newest
  <2> HIDE DEF m
  <2>4. m \in 0..l /\ (l <= 2 * MaxGaps => m = l)
    <3> HIDE DEF l
    <3> QED BY <2>1, <2>2
  <2>5. /\ cut \in Seq(GapZones) /\ Len(cut) = m
        /\ \A k \in 1..m : cut[k] = all[k]
    BY <1>10, <2>1, <2>4, SubSeqProperties
  <2> HIDE DEF cut
  <2>6. Members(cut) = {all[k] : k \in 1..m}
    BY <2>5 DEF Members
  <2>7. Members(all) = {all[k] : k \in 1..l}
    BY DEF Members
  <2>8. 1..m \subseteq 1..l
    <3> HIDE DEF l
    <3> QED BY <2>1, <2>4
  <2>9. Members(cut) \subseteq Members(all)
    <3> HIDE DEF l
    <3> QED BY <2>6, <2>7, <2>8
  <2> QED BY <2>2, <2>3, <2>5, <2>8, <2>9
<1>13. Placed(old, i, filled, fresh, after.active)
  <2> DEFINE new == after.active
             w == Len(fresh)
  <2>1. Len(all) = w + n /\ w \in Nat /\ n = Len(old)
    BY <1>9, <1>10 DEF n
  <2>2. Len(new) = IF w + Len(old) <= 2 * MaxGaps THEN w + Len(old) ELSE 2 * MaxGaps
    BY <1>12, <2>1
  <2>3. ASSUME NEW k \in 1..Len(new), k <= w
        PROVE  new[k] = fresh[k]
    BY <1>10, <1>12, <2>3
  <2>4. ASSUME NEW k \in 1..Len(new), k > w
        PROVE  new[k] = IF old[k - w] \in filled THEN Inverted(old[k - w], i) ELSE old[k - w]
    <3>1. k \in 1..Len(all) /\ new[k] = all[k]
      BY <1>12
    <3>2. k - w \in 1..n
      BY <1>2, <2>1, <2>4, <3>1
    <3>3. all[k] = flipped[k - w]
      <4> HIDE DEF w
      <4>1. ~(k <= w)
        BY <2>1, <2>4
      <4> QED BY <1>10, <3>1, <4>1 DEF w
    <3> QED BY <1>8, <3>1, <3>2, <3>3
  <2> HIDE DEF new, w
  <2> QED BY <2>2, <2>3, <2>4 DEF Placed, new, w
<1> QED BY <1>10, <1>11, <1>12, <1>13 DEF old, StepMakes

GapsTo(series, i) == {g \in FairValueGaps(series) : g.bar <= i}

NoCloseThrough(series, z, last) ==
  \A j \in (z.start + 3)..last : ~ClosedThrough(z, series[j].close)

\* What a gap that has been filled by bar i looks like, and one that has not.
FilledGap(series, z, i) ==
  /\ ~z.inverse
  /\ GapOf(z) \in FairValueGaps(series)
  /\ z.end \in (z.start + 3)..i
  /\ ClosedThrough(z, series[z.end].close)
  /\ NoCloseThrough(series, z, z.end - 1)

OpenGap(series, z, i) ==
  /\ GapOf(z) \in FairValueGaps(series)
  /\ z.start + 2 <= i
  /\ z.end = None
  /\ NoCloseThrough(series, z, i)

ZonesTrack(series, zones, active, i) ==
  /\ \A z \in zones : FilledGap(series, z, i)
  /\ \A z \in active : ~z.inverse => OpenGap(series, z, i)
  /\ \A z \in active : z.inverse => \E g \in zones : InverseOf(z, g)

\* The gaps that are held, filled or not.
Held(zones, active) == {GapOf(z) : z \in zones \cup {a \in active : ~a.inverse}}

\* The gaps found after a gap.
Later(series, g, i) == {h \in GapsTo(series, i) : h.bar > g.bar}

\* A gap is at the place that the gaps found after it have left it, and is held
\* until there are as many of them as are kept.
GapsCounted(series, w, i) ==
  /\ IsFiniteSet(GapsTo(series, i))
  /\ \A k \in 1..Len(w.active) :
       ~w.active[k].inverse => Cardinality(Later(series, GapOf(w.active[k]), i)) >= k - 1
  /\ \A g \in GapsTo(series, i) :
       Cardinality(Later(series, g, i)) < 2 * MaxGaps =>
         g \in Held(Members(w.zones), Members(w.active))

GapsKept(series, w, i) ==
  /\ w.zones \in Seq(GapZones) /\ w.active \in Seq(GapZones)
  /\ ZonesTrack(series, Members(w.zones), Members(w.active), i)
  /\ GapsCounted(series, w, i)

LEMMA ZonesKeepTrack ==
  ASSUME NEW series \in Series, NEW i \in 1..Len(series),
         NEW zones \in SUBSET GapZones, NEW active \in SUBSET GapZones,
         ZonesTrack(series, zones, active, i - 1),
         NEW filled, filled = {z \in active : Fills(z, series[i].close)},
         NEW fresh, fresh \in SUBSET GapZones,
         \A z \in fresh : ~z.inverse /\ z.end = None /\ z.start = i - 2 /\ i >= 3
                            /\ GapOf(z) \in FairValueGaps(series)
  PROVE  ZonesTrack(series, zones \cup {EndedAt(z, i) : z \in filled},
                    fresh \cup {Inverted(z, i) : z \in filled} \cup (active \ filled), i)
<1> DEFINE ended == {EndedAt(z, i) : z \in filled}
           inverted == {Inverted(z, i) : z \in filled}
           stays == active \ filled
<1>1. i \in Nat /\ i > 0 /\ Len(series) \in Nat
  BY SeriesType
<1>2. \A z \in GapZones : z.start \in Nat /\ z.end \in Nat /\ z.inverse \in BOOLEAN
  BY DEF GapZones
<1>3. filled \subseteq GapZones /\ stays \subseteq GapZones
  OBVIOUS
<1>4. ASSUME NEW z \in zones PROVE FilledGap(series, z, i)
  <2>1. FilledGap(series, z, i - 1)
    BY <1>4 DEF ZonesTrack
  <2>2. (z.start + 3)..(i - 1) \subseteq (z.start + 3)..i
    BY <1>1
  <2> QED BY <2>1, <2>2 DEF FilledGap
<1>5. ASSUME NEW z \in filled PROVE FilledGap(series, EndedAt(z, i), i)
  <2> DEFINE e == EndedAt(z, i)
  <2>1. z \in GapZones /\ ~z.inverse /\ ClosedThrough(z, series[i].close) /\ OpenGap(series, z, i - 1)
    BY <1>5 DEF Fills, ZonesTrack
  <2>2. /\ e.end = i /\ e.inverse = z.inverse /\ e.start = z.start
        /\ e.bias = z.bias /\ e.top = z.top /\ e.bottom = z.bottom
    BY <1>1, <2>1, EndedFields
  <2> HIDE DEF e
  <2>3. \A c : ClosedThrough(e, c) <=> ClosedThrough(z, c)
    BY <2>2 DEF ClosedThrough
  <2>4. GapOf(e) = GapOf(z)
    BY <2>2 DEF GapOf
  <2>5. e.end \in (e.start + 3)..i
    <3>1. z.start \in Nat /\ z.start + 2 <= i - 1
      BY <1>2, <2>1 DEF OpenGap
    <3> QED BY <1>1, <2>2, <3>1
  <2>6. NoCloseThrough(series, e, e.end - 1)
    BY <2>1, <2>2, <2>3 DEF OpenGap, NoCloseThrough
  <2>7. FilledGap(series, e, i)
    <3>1. ClosedThrough(e, series[e.end].close)
      BY <2>1, <2>2, <2>3
    <3>2. GapOf(e) \in FairValueGaps(series)
      BY <2>1, <2>4 DEF OpenGap
    <3> QED BY <2>1, <2>2, <2>5, <2>6, <3>1, <3>2 DEF FilledGap
  <2> QED BY <2>7 DEF e
<1>6. ASSUME NEW z \in filled
      PROVE  Inverted(z, i).inverse = TRUE /\ InverseOf(Inverted(z, i), EndedAt(z, i))
  <2>1. z \in GapZones
    BY <1>3
  <2> QED BY <1>1, <2>1, InvertedFields
<1>7. ASSUME NEW z \in stays, ~z.inverse PROVE OpenGap(series, z, i)
  <2>1. z \in GapZones /\ OpenGap(series, z, i - 1) /\ ~ClosedThrough(z, series[i].close)
    BY <1>7 DEF Fills, ZonesTrack
  <2>2. z.start \in Nat
    BY <1>2, <2>1
  <2>3. \A j \in (z.start + 3)..i : j = i \/ j \in (z.start + 3)..(i - 1)
    BY <1>1, <2>2
  <2>4. NoCloseThrough(series, z, i)
    BY <2>1, <2>3 DEF OpenGap, NoCloseThrough
  <2>5. z.start + 2 <= i
    BY <1>1, <2>1, <2>2 DEF OpenGap
  <2> QED BY <2>1, <2>4, <2>5 DEF OpenGap
<1>8. ASSUME NEW z \in fresh PROVE ~z.inverse /\ OpenGap(series, z, i)
  <2>1. z.start + 2 <= i /\ (z.start + 3)..i = {}
    BY <1>1
  <2>2. NoCloseThrough(series, z, i)
    BY <2>1 DEF NoCloseThrough
  <2> QED BY <2>1, <2>2 DEF OpenGap
<1>9. ASSUME NEW z \in stays, z.inverse PROVE \E g \in zones : InverseOf(z, g)
  BY <1>9 DEF ZonesTrack
<1> DEFINE zonesNow == zones \cup ended
           activeNow == fresh \cup inverted \cup stays
<1>10. \A z \in zonesNow : FilledGap(series, z, i)
  BY <1>4, <1>5
<1>11. \A z \in activeNow : ~z.inverse => OpenGap(series, z, i)
  <2> SUFFICES ASSUME NEW z \in activeNow, ~z.inverse PROVE OpenGap(series, z, i)
    OBVIOUS
  <2>1. z \notin inverted
    BY <1>6
  <2> HIDE DEF inverted, stays
  <2> QED BY <1>7, <1>8, <2>1
<1>12. \A z \in activeNow : z.inverse => \E g \in zonesNow : InverseOf(z, g)
  <2> SUFFICES ASSUME NEW z \in activeNow, z.inverse PROVE \E g \in zonesNow : InverseOf(z, g)
    OBVIOUS
  <2>1. z \notin fresh
    BY <1>8
  <2>2. CASE z \in stays
    BY <1>9, <2>2
  <2>3. CASE z \in inverted
    <3>1. PICK y \in filled : z = Inverted(y, i)
      BY <2>3
    <3>2. EndedAt(y, i) \in zonesNow
      BY <3>1
    <3> HIDE DEF zonesNow
    <3> QED BY <1>6, <3>1, <3>2
  <2> HIDE DEF inverted, stays, zonesNow
  <2> QED BY <2>1, <2>2, <2>3
<1> HIDE DEF zonesNow, activeNow
<1>13. ZonesTrack(series, zonesNow, activeNow, i)
  BY <1>10, <1>11, <1>12 DEF ZonesTrack
<1> QED BY <1>13 DEF zonesNow, activeNow

LEMMA GapsMove ==
  ASSUME NEW series \in Series, NEW i \in 1..Len(series)
  PROVE  GapsTo(series, i) = GapsTo(series, i - 1) \cup {g \in FairValueGaps(series) : g.bar = i}
<1>1. \A g \in FairValueGaps(series) : g.bar \in Nat
  BY DEF FairValueGaps
<1>2. i \in Nat
  BY SeriesType
<1> QED BY <1>1, <1>2 DEF GapsTo

\* detect_fvg_with_inverse, bar by bar.
GapStart == [zones |-> <<>>, active |-> <<>>]

IsGapWalk(series, f, n) ==
  f = [i \in 0..n |-> IF i = 0 THEN GapStart ELSE GapStep(series, f[i - 1], i)]

LEMMA GapWalkExists ==
  ASSUME NEW series, NEW n \in Nat
  PROVE  \E f : IsGapWalk(series, f, n)
<1> DEFINE S == {m \in 0..n : \E f : IsGapWalk(series, f, m)}
<1>1. 0 \in S
  <2> DEFINE f == [i \in 0..0 |-> GapStart]
  <2>1. f = [i \in 0..0 |-> IF i = 0 THEN GapStart ELSE GapStep(series, f[i - 1], i)]
    <3> HIDE DEF GapStart
    <3>1. \A i \in 0..0 : i = 0
      OBVIOUS
    <3> QED BY <3>1
  <2> HIDE DEF f
  <2> QED BY <2>1 DEF IsGapWalk
<1>2. ASSUME NEW m \in 0..(n - 1), m \in S PROVE m + 1 \in S
  <2>1. PICK f : IsGapWalk(series, f, m)
    BY <1>2
  <2> DEFINE g == [i \in 0..(m + 1) |->
                     IF i = m + 1 THEN GapStep(series, f[m], m + 1) ELSE f[i]]
  <2>2. g = [i \in 0..(m + 1) |-> IF i = 0 THEN GapStart
                                   ELSE GapStep(series, g[i - 1], i)]
    <3>1. ASSUME NEW i \in 0..(m + 1)
          PROVE  g[i] = IF i = 0 THEN GapStart ELSE GapStep(series, g[i - 1], i)
      <4>1. CASE i = m + 1
        <5>1. m \in 0..(m + 1) /\ m # m + 1 /\ (m + 1) - 1 = m /\ m + 1 # 0
          OBVIOUS
        <5>2. g[i - 1] = f[m] /\ g[i] = GapStep(series, f[m], m + 1)
          BY <4>1, <5>1
        <5> HIDE DEF g
        <5> QED BY <4>1, <5>1, <5>2
      <4>2. CASE i # m + 1
        <5>1. i \in 0..m
          BY <4>2
        <5>2. f[i] = IF i = 0 THEN GapStart ELSE GapStep(series, f[i - 1], i)
          BY <2>1, <5>1 DEF IsGapWalk
        <5>3. i # 0 => i - 1 \in 0..(m + 1) /\ i - 1 # m + 1
          BY <5>1
        <5>4. g[i] = f[i] /\ (i # 0 => g[i - 1] = f[i - 1])
          BY <4>2, <5>3
        <5> HIDE DEF g
        <5> QED BY <5>2, <5>4
      <4> QED BY <4>1, <4>2
    <3> QED BY <3>1
  <2>3. m + 1 \in 0..n
    OBVIOUS
  <2> HIDE DEF g
  <2> QED BY <2>2, <2>3 DEF IsGapWalk
<1>3. \A k \in 0..n : k \in S
  <2> HIDE DEF S
  <2> QED BY <1>1, <1>2, CountingUp
<1> QED BY <1>3

LEMMA GapsWalk ==
  ASSUME NEW series \in Series
  PROVE  \E f : /\ f[0] = GapStart
                /\ \A i \in 1..Len(series) :
                     f[i] = GapStep(series, f[i - 1], i)
                /\ GapWalk(series) = f[Len(series)]
<1> DEFINE n == Len(series)
           f == CHOOSE g : IsGapWalk(series, g, n)
<1>1. n \in Nat
  BY SeriesType
<1>2. IsGapWalk(series, f, n)
  <2> HIDE DEF n
  <2> QED BY <1>1, GapWalkExists
<1>3. GapWalk(series) = f[n]
  BY DEF GapWalk, IsGapWalk, GapStart
<1> HIDE DEF f
<1>4. f[0] = GapStart
  BY <1>1, <1>2 DEF IsGapWalk
<1>5. \A i \in 1..n : f[i] = GapStep(series, f[i - 1], i)
  <2> SUFFICES ASSUME NEW i \in 1..n PROVE f[i] = GapStep(series, f[i - 1], i)
    OBVIOUS
  <2>1. i \in 0..n /\ i # 0
    BY <1>1
  <2> QED BY <1>2, <2>1 DEF IsGapWalk
<1> QED BY <1>3, <1>4, <1>5

LEMMA GapStepKeeps ==
  ASSUME NEW series \in Series, NEW i \in 1..Len(series), NEW before,
         GapsKept(series, before, i - 1),
         NEW after, after = GapStep(series, before, i)
  PROVE  GapsKept(series, after, i)
<1> DEFINE zones == Members(before.zones)
           active == Members(before.active)
           fresh == GapAt(series, i)
           filled == {z \in active : Fills(z, series[i].close)}
           stays == active \ filled
           ended == {EndedAt(z, i) : z \in filled}
           inverted == {Inverted(z, i) : z \in filled}
           found == GapsTo(series, i - 1)
           all == Members(fresh) \cup (inverted \cup stays)
<1>1. i \in Nat /\ i - 1 \in Nat
  BY SeriesType
<1>2. before.zones \in Seq(GapZones) /\ before.active \in Seq(GapZones)
  BY DEF GapsKept
<1>3. zones \in SUBSET GapZones /\ active \in SUBSET GapZones
  BY <1>2, MembersAreToSet
<1> HIDE DEF zones, fresh
<1>4. /\ after.zones \in Seq(GapZones) /\ after.active \in Seq(GapZones)
      /\ Members(after.zones) = zones \cup ended
      /\ Members(after.active) \subseteq all
      /\ Placed(before.active, i, filled, fresh, after.active)
  <2>1. PICK F : F = filled
    OBVIOUS
  <2>2. PICK T : T = stays
    OBVIOUS
  <2>3. PICK N : N = fresh
    OBVIOUS
  <2> HIDE DEF filled, stays
  <2>4. F = {z \in Members(before.active) : Fills(z, series[i].close)}
    BY <2>1 DEF filled
  <2>5. T = Members(before.active) \ F
    BY <2>1, <2>2 DEF stays
  <2>6. N = GapAt(series, i)
    BY <2>3 DEF fresh
  <2>7. StepMakes(before, i, F, T, N, after)
    BY <1>2, <2>4, <2>5, <2>6, GapStepSets
  <2>8. StepMakes(before, i, filled, stays, fresh, after)
    BY <2>1, <2>2, <2>3, <2>7
  <2> QED BY <2>8 DEF StepMakes, zones
<1> HIDE DEF active, filled, ended, inverted
<1>5. \/ /\ fresh = <<>> /\ Members(fresh) = {} /\ Len(fresh) = 0
         /\ GapsTo(series, i) = found
      \/ \E z \in GapZones :
           /\ Members(fresh) = {z} /\ Len(fresh) = 1 /\ fresh[1] = z /\ GapOf(z).bar = i
           /\ ~z.inverse /\ z.end = None /\ i >= 3 /\ z.start = i - 2
           /\ GapOf(z) \in FairValueGaps(series) /\ GapOf(z) \notin found
           /\ GapsTo(series, i) = found \cup {GapOf(z)}
  <2>1. GapsTo(series, i) = found \cup {g \in FairValueGaps(series) : g.bar = i}
    BY GapsMove
  <2>2. CASE fresh = <<>> /\ \A g \in FairValueGaps(series) : g.bar # i
    <3>1. Len(fresh) = 0
      BY <2>2, EmptySeq
    <3>2. Members(fresh) = {}
      BY <3>1 DEF Members
    <3>3. {g \in FairValueGaps(series) : g.bar = i} = {}
      BY <2>2
    <3> HIDE DEF found
    <3> QED BY <2>1, <2>2, <3>1, <3>2, <3>3
  <2>3. ASSUME NEW z \in GapZones,
               fresh = <<z>>,
               ~z.inverse, z.end = None, i >= 3, z.start = i - 2,
               GapOf(z) \in FairValueGaps(series),
               \A g \in FairValueGaps(series) : g.bar = i => g = GapOf(z)
        PROVE  /\ Members(fresh) = {z} /\ Len(fresh) = 1 /\ fresh[1] = z /\ GapOf(z).bar = i
               /\ ~z.inverse /\ z.end = None /\ i >= 3 /\ z.start = i - 2
               /\ GapOf(z) \in FairValueGaps(series) /\ GapOf(z) \notin found
               /\ GapsTo(series, i) = found \cup {GapOf(z)}
    <3>1. Len(fresh) = 1 /\ fresh[1] = z
      BY <2>3
    <3>2. Members(fresh) = {z}
      BY <3>1 DEF Members
    <3>3. GapOf(z).bar = i
      BY <1>1, <2>3 DEF GapOf
    <3>4. GapOf(z) \notin found
      BY <1>1, <3>3 DEF GapsTo
    <3>5. {g \in FairValueGaps(series) : g.bar = i} = {GapOf(z)}
      BY <2>3, <3>3
    <3> HIDE DEF found
    <3> QED BY <2>1, <2>3, <3>1, <3>2, <3>3, <3>4, <3>5
  <2>4. \/ /\ fresh = <<>>
           /\ \A g \in FairValueGaps(series) : g.bar # i
        \/ \E z \in GapZones :
             /\ fresh = <<z>>
             /\ ~z.inverse /\ z.end = None /\ i >= 3 /\ z.start = i - 2
             /\ GapOf(z) \in FairValueGaps(series)
             /\ \A g \in FairValueGaps(series) : g.bar = i => g = GapOf(z)
    BY NewGap DEF fresh
  <2> HIDE DEF found
  <2> QED BY <2>2, <2>3, <2>4
<1>6. /\ Members(fresh) \in SUBSET GapZones
      /\ \A z \in Members(fresh) : /\ ~z.inverse /\ z.end = None /\ z.start = i - 2 /\ i >= 3
                                   /\ GapOf(z) \in FairValueGaps(series)
  BY <1>5
<1>7. ZonesTrack(series, zones \cup ended, all, i)
  <2>1. ZonesTrack(series, zones, active, i - 1)
    BY DEF GapsKept, zones, active
  <2> DEFINE new == Members(fresh)
  <2>2. new \in SUBSET GapZones
        /\ \A z \in new : /\ ~z.inverse /\ z.end = None /\ z.start = i - 2 /\ i >= 3
                          /\ GapOf(z) \in FairValueGaps(series)
    BY <1>6
  <2> HIDE DEF new
  <2>3. ZonesTrack(series, zones \cup ended, new \cup inverted \cup stays, i)
    BY <1>3, <2>1, <2>2, ZonesKeepTrack DEF filled, ended, inverted
  <2> QED BY <2>3 DEF new
<1>8. ZonesTrack(series, Members(after.zones), Members(after.active), i)
  BY <1>4, <1>7 DEF ZonesTrack
<1>9. IsFiniteSet(found) /\ Len(before.active) \in Nat
  BY <1>2, LenProperties DEF GapsKept, GapsCounted
<1>10. IsFiniteSet(GapsTo(series, i)) /\ Len(fresh) \in {0, 1}
  <2>1. ASSUME NEW g, GapsTo(series, i) = found \cup {g}
        PROVE  IsFiniteSet(GapsTo(series, i))
    <3> HIDE DEF found
    <3> QED BY <1>9, <2>1, FS_AddElement
  <2> HIDE DEF found
  <2> QED BY <1>5, <1>9, <2>1
<1>11. ASSUME NEW g \in found
       PROVE  /\ Cardinality(Later(series, g, i - 1)) \in Nat
              /\ Cardinality(Later(series, g, i)) =
                   Cardinality(Later(series, g, i - 1)) + Len(fresh)
  <2> DEFINE laterBefore == Later(series, g, i - 1)
             laterNow == Later(series, g, i)
  <2>1. laterBefore \subseteq found
    BY DEF Later
  <2>2. IsFiniteSet(laterBefore) /\ Cardinality(laterBefore) \in Nat
    BY <1>9, <2>1, FS_Subset, FS_CardinalityType
  <2>3. CASE GapsTo(series, i) = found /\ Len(fresh) = 0
    <3>1. laterNow = laterBefore
      BY <2>3 DEF Later
    <3> HIDE DEF laterNow, laterBefore
    <3> QED BY <2>2, <2>3, <3>1 DEF laterNow, laterBefore
  <2>4. ASSUME NEW h, h \notin found, h.bar = i, GapsTo(series, i) = found \cup {h}, Len(fresh) = 1
        PROVE  Cardinality(laterNow) = Cardinality(laterBefore) + Len(fresh)
    <3>1. h.bar > g.bar
      <4>1. g.bar <= i - 1 /\ g.bar \in Nat
        BY <1>11 DEF GapsTo, FairValueGaps
      <4> QED BY <1>1, <2>4, <4>1
    <3>2. laterNow = laterBefore \cup {h}
      BY <2>4, <3>1 DEF Later
    <3>3. h \notin laterBefore
      BY <2>1, <2>4
    <3> HIDE DEF laterNow, laterBefore
    <3> QED BY <2>2, <2>4, <3>2, <3>3, FS_AddElement
  <2> HIDE DEF laterNow, laterBefore, found
  <2>5. Cardinality(laterNow) = Cardinality(laterBefore) + Len(fresh)
    BY <1>5, <2>3, <2>4 DEF laterNow, laterBefore
  <2> QED BY <2>2, <2>5 DEF laterNow, laterBefore
<1>12. /\ \A k \in 1..Len(before.active) :
            ~before.active[k].inverse =>
              Cardinality(Later(series, GapOf(before.active[k]), i - 1)) >= k - 1
       /\ \A g \in found :
            Cardinality(Later(series, g, i - 1)) < 2 * MaxGaps => g \in Held(zones, active)
  BY DEF GapsKept, GapsCounted, zones, active
<1>13. \A k \in 1..Len(before.active) :
         /\ before.active[k] \in active
         /\ ~before.active[k].inverse => GapOf(before.active[k]) \in found
  <2> SUFFICES ASSUME NEW k \in 1..Len(before.active)
               PROVE  /\ before.active[k] \in active
                      /\ ~before.active[k].inverse => GapOf(before.active[k]) \in found
    OBVIOUS
  <2>1. before.active[k] \in active /\ before.active[k] \in GapZones
    BY <1>2, ElementOfSeq DEF active, Members
  <2>2. ~before.active[k].inverse => OpenGap(series, before.active[k], i - 1)
    BY <2>1 DEF GapsKept, ZonesTrack, active
  <2>3. OpenGap(series, before.active[k], i - 1) => GapOf(before.active[k]) \in found
    BY DEF OpenGap, GapsTo, GapOf
  <2> QED BY <2>1, <2>2, <2>3
<1>14. 2 * MaxGaps \in Nat /\ 2 * MaxGaps >= 1
  BY SmcProAssumption DEF SmcProAssumption
<1> DEFINE new == after.active
           w == Len(fresh)
<1>15. /\ new \in Seq(GapZones) /\ Len(new) \in Nat
       /\ Len(new) = IF w + Len(before.active) <= 2 * MaxGaps
                     THEN w + Len(before.active) ELSE 2 * MaxGaps
       /\ \A k \in 1..Len(new) : k <= w => new[k] = fresh[k]
       /\ \A k \in 1..Len(new) : k > w =>
            new[k] = IF before.active[k - w] \in filled
                     THEN Inverted(before.active[k - w], i) ELSE before.active[k - w]
  <2>1. Placed(before.active, i, filled, fresh, new)
    BY <1>4
  <2>2. new \in Seq(GapZones) /\ Len(new) \in Nat
    BY <1>4, LenProperties
  <2> HIDE DEF new
  <2> QED BY <2>1, <2>2 DEF Placed
<1>16. ASSUME NEW k \in 1..Len(new), ~new[k].inverse
       PROVE  Cardinality(Later(series, GapOf(new[k]), i)) >= k - 1
  <2>1. CASE k <= w
    <3>1. k = 1
      <4> HIDE DEF w, new
      <4> QED BY <1>10, <1>15, <2>1 DEF w
    <3>2. IsFiniteSet(Later(series, GapOf(new[k]), i))
      BY <1>10, FS_Subset DEF Later
    <3>3. Cardinality(Later(series, GapOf(new[k]), i)) \in Nat
      BY <3>2, FS_CardinalityType
    <3> HIDE DEF new
    <3> QED BY <3>1, <3>3
  <2>2. CASE k > w
    <3>1. PICK j : j = k - w
      OBVIOUS
    <3>2. j \in 1..Len(before.active)
      <4> HIDE DEF new, found
      <4> QED BY <1>9, <1>10, <1>14, <1>15, <2>2, <3>1
    <3>3. PICK z : z = before.active[j]
      OBVIOUS
    <3>4. z \in active /\ z \in GapZones
      BY <1>3, <1>13, <3>2, <3>3
    <3>5. new[k] = IF z \in filled THEN Inverted(z, i) ELSE z
      <4> HIDE DEF new, w
      <4> QED BY <1>15, <2>2, <3>1, <3>3
    <3>6. z \in filled => Inverted(z, i).inverse = TRUE
      BY <1>1, <3>4, InvertedFields
    <3>7. new[k] = z /\ ~z.inverse
      <4> HIDE DEF new
      <4> QED BY <1>16, <3>5, <3>6
    <3>8. GapOf(z) \in found
      BY <1>13, <3>2, <3>3, <3>7
    <3>9. Cardinality(Later(series, GapOf(z), i - 1)) >= j - 1
      BY <1>12, <3>2, <3>3, <3>7
    <3>10. PICK c : c = Cardinality(Later(series, GapOf(z), i - 1))
      OBVIOUS
    <3>11. c \in Nat /\ Cardinality(Later(series, GapOf(z), i)) = c + w
      BY <1>11, <3>8, <3>10
    <3>12. c + w >= k - 1
      <4>1. w \in Nat /\ k \in Nat
        BY <1>10, <1>15
      <4> HIDE DEF w, new
      <4> QED BY <3>1, <3>9, <3>10, <3>11, <4>1
    <3> HIDE DEF w, new
    <3> QED BY <3>7, <3>11, <3>12
  <2>3. k \in Nat /\ w \in Nat
    BY <1>10, <1>15
  <2> HIDE DEF w, new
  <2> QED BY <2>1, <2>2, <2>3
<1> DEFINE zonesNow == zones \cup ended
           activeNow == Members(new)
<1>17. ASSUME NEW g \in found, Cardinality(Later(series, g, i)) < 2 * MaxGaps
       PROVE  g \in Held(zonesNow, activeNow)
  <2>1. PICK c : c = Cardinality(Later(series, g, i - 1))
    OBVIOUS
  <2>2. c \in Nat /\ Cardinality(Later(series, g, i)) = c + w
    BY <1>11, <2>1
  <2>3. w \in Nat
    BY <1>10
  <2>4. c < 2 * MaxGaps
    <3> HIDE DEF w
    <3> QED BY <1>14, <1>17, <2>2, <2>3
  <2>5. g \in Held(zones, active)
    BY <1>12, <2>1, <2>4
  <2>6. CASE \E z \in zones : GapOf(z) = g
    BY <2>6 DEF Held
  <2>7. ASSUME NEW z \in active, ~z.inverse, GapOf(z) = g
        PROVE  g \in Held(zonesNow, activeNow)
    <3>1. CASE z \in filled
      <4>1. EndedAt(z, i) \in zonesNow
        BY <3>1 DEF ended
      <4>2. GapOf(EndedAt(z, i)) = GapOf(z)
        <5>1. PICK e : e = EndedAt(z, i)
          OBVIOUS
        <5>2. e.start = z.start /\ e.bias = z.bias /\ e.top = z.top /\ e.bottom = z.bottom
          BY <1>1, <1>3, <2>7, <5>1, EndedFields
        <5> QED BY <5>1, <5>2 DEF GapOf
      <4> HIDE DEF zonesNow
      <4> QED BY <2>7, <4>1, <4>2 DEF Held
    <3>2. CASE z \notin filled
      <4>1. PICK j \in 1..Len(before.active) : z = before.active[j]
        BY <2>7 DEF active, Members
      <4>2. c >= j - 1
        BY <1>12, <2>1, <2>7, <4>1
      <4>3. PICK k : k = j + w
        OBVIOUS
      <4>4. k \in 1..Len(new) /\ k > w /\ k - w = j
        <5>1. k <= 2 * MaxGaps
          <6> HIDE DEF w
          <6> QED BY <1>14, <1>17, <2>2, <2>3, <4>2, <4>3
        <5> HIDE DEF new, w, found
        <5> QED BY <1>9, <1>14, <1>15, <2>3, <4>1, <4>3, <5>1
      <4>5. new[k] = z
        <5> HIDE DEF new, w
        <5> QED BY <1>15, <3>2, <4>1, <4>4
      <4>6. z \in activeNow
        BY <4>4, <4>5 DEF Members
      <4> HIDE DEF activeNow, zonesNow
      <4> QED BY <2>7, <4>6 DEF Held
    <3> QED BY <3>1, <3>2
  <2> HIDE DEF zonesNow, activeNow
  <2> QED BY <2>5, <2>6, <2>7 DEF Held
<1>18. ASSUME NEW g \in GapsTo(series, i) \ found
       PROVE  g \in Held(zonesNow, activeNow)
  <2>1. PICK z \in GapZones : w = 1 /\ fresh[1] = z /\ ~z.inverse /\ g = GapOf(z)
    <3> HIDE DEF found
    <3> QED BY <1>5
  <2>2. 1 \in 1..Len(new)
    <3> HIDE DEF new, w, found
    <3> QED BY <1>9, <1>14, <1>15, <2>1
  <2>3. new[1] = z
    <3> HIDE DEF new, w
    <3> QED BY <1>15, <2>1, <2>2
  <2>4. z \in activeNow
    BY <2>2, <2>3 DEF Members
  <2> HIDE DEF activeNow, zonesNow
  <2> QED BY <2>1, <2>4 DEF Held
<1>19. \A g \in GapsTo(series, i) :
         Cardinality(Later(series, g, i)) < 2 * MaxGaps =>
           g \in Held(Members(after.zones), Members(after.active))
  <2> HIDE DEF found
  <2> QED BY <1>4, <1>17, <1>18
<1> QED BY <1>4, <1>8, <1>10, <1>16, <1>19 DEF GapsKept, GapsCounted

LEMMA GapsAreKept ==
  ASSUME NEW series \in Series
  PROVE  GapsKept(series, GapWalk(series), Len(series))
<1>1. PICK f : /\ f[0] = GapStart
               /\ \A i \in 1..Len(series) : f[i] = GapStep(series, f[i - 1], i)
               /\ GapWalk(series) = f[Len(series)]
  BY GapsWalk
<1> DEFINE S == {i \in 0..Len(series) : GapsKept(series, f[i], i)}
<1>2. Len(series) \in Nat
  BY SeriesType
<1>3. 0 \in S
  <2>1. f[0].zones = <<>> /\ f[0].active = <<>>
    BY <1>1 DEF GapStart
  <2>2. GapsTo(series, 0) = {}
    <3>1. \A g \in FairValueGaps(series) : g.bar \in Nat /\ g.bar > 0
      BY DEF FairValueGaps
    <3> QED BY <3>1 DEF GapsTo
  <2>3. <<>> \in Seq(GapZones) /\ Len(<<>>) = 0
    BY EmptySeq
  <2>4. Members(<<>>) = {}
    BY <2>3 DEF Members
  <2>5. IsFiniteSet({}) /\ Cardinality({}) = 0
    BY FS_EmptySet
  <2>6. ZonesTrack(series, {}, {}, 0)
    BY DEF ZonesTrack
  <2>7. GapsKept(series, f[0], 0)
    <3> DEFINE w == f[0]
    <3>1. w.zones = <<>> /\ w.active = <<>>
      BY <2>1
    <3> HIDE DEF w
    <3>2. Members(w.zones) = {} /\ Members(w.active) = {} /\ Len(w.active) = 0
      BY <2>3, <2>4, <3>1
    <3>3. w.zones \in Seq(GapZones) /\ w.active \in Seq(GapZones)
      BY <2>3, <3>1
    <3>4. ZonesTrack(series, Members(w.zones), Members(w.active), 0)
      BY <2>6, <3>2
    <3>5. GapsCounted(series, w, 0)
      <4>1. \A k \in 1..Len(w.active) : FALSE
        BY <3>2
      <4>2. IsFiniteSet(GapsTo(series, 0)) /\ \A g \in GapsTo(series, 0) : FALSE
        BY <2>2, <2>5
      <4> QED BY <4>1, <4>2 DEF GapsCounted
    <3>6. GapsKept(series, w, 0)
      BY <3>3, <3>4, <3>5 DEF GapsKept
    <3> QED BY <3>6 DEF w
  <2> QED BY <1>2, <2>7
<1>4. ASSUME NEW k \in 0..(Len(series) - 1), k \in S PROVE k + 1 \in S
  <2>1. k + 1 \in 1..Len(series) /\ (k + 1) - 1 = k
    BY <1>2
  <2>2. f[k + 1] = GapStep(series, f[k], k + 1)
    BY <1>1, <2>1
  <2>3. GapsKept(series, f[k], k)
    BY <1>4
  <2>4. GapsKept(series, f[k + 1], k + 1)
    BY <2>1, <2>2, <2>3, GapStepKeeps
  <2> QED BY <1>2, <2>1, <2>4
<1>5. Len(series) \in S
  <2>1. Len(series) \in 0..Len(series)
    BY <1>2
  <2> HIDE DEF S
  <2> QED BY <1>2, <1>3, <1>4, <2>1, CountingUp
<1> QED BY <1>1, <1>5

LEMMA FilledFirst ==
  ASSUME NEW series \in Series, series = bars, NEW z \in GapZones,
         FilledGap(series, z, Len(series))
  PROVE  z.end = FirstFill(z)
<1> DEFINE n == Len(series)
           fills == {i \in (z.start + 3)..n : ClosedThrough(z, series[i].close)}
<1>1. n \in Nat /\ z.start \in Nat /\ z.end \in Nat
  BY SeriesType DEF GapZones
<1>2. FirstFill(z) = IF fills = {} THEN None ELSE Min(fills)
  BY DEF FirstFill
<1>3. z.end \in fills
  BY DEF FilledGap
<1>4. fills \in SUBSET Nat
  BY <1>1
<1>5. Min(fills) \in fills /\ \A y \in fills : Min(fills) <= y
  BY <1>3, <1>4, MinOfNaturals
<1> DEFINE m == Min(fills)
<1>6. m \in (z.start + 3)..n /\ ClosedThrough(z, series[m].close) /\ m <= z.end
  <2> HIDE DEF m
  <2>1. m \in fills /\ m <= z.end
    BY <1>3, <1>5 DEF m
  <2> QED BY <2>1
<1> HIDE DEF m
<1>7. ~(m < z.end)
  <2>1. m < z.end => m \in (z.start + 3)..(z.end - 1)
    BY <1>1, <1>6
  <2> QED BY <1>6, <2>1 DEF FilledGap, NoCloseThrough
<1>8. m = z.end
  BY <1>1, <1>6, <1>7
<1> QED BY <1>2, <1>3, <1>8 DEF m

LEMMA OpenUnfilled ==
  ASSUME NEW series \in Series, series = bars, NEW z \in GapZones,
         OpenGap(series, z, Len(series))
  PROVE  z.end = FirstFill(z)
<1> DEFINE fills == {i \in (z.start + 3)..Len(series) : ClosedThrough(z, series[i].close)}
<1>1. FirstFill(z) = IF fills = {} THEN None ELSE Min(fills)
  BY DEF FirstFill
<1>2. fills = {}
  BY DEF OpenGap, NoCloseThrough
<1> QED BY <1>1, <1>2 DEF OpenGap

\* For any series, the gaps tracked by smc_pro.py are those of smc.py, each ends
\* where it is first closed through, and none is missed while there are no more
\* gaps than are tracked (smc_pro.py:196-232, smc.py:79-99).
THEOREM GapsAreTracked == Growth => []GapsTracked
<1>1. SeriesInv => GapsTracked
  <2> SUFFICES ASSUME SeriesInv PROVE GapsTracked
    OBVIOUS
  <2>1. PICK series : series = bars
    OBVIOUS
  <2>2. series \in Series
    BY <2>1 DEF SeriesInv
  <2> DEFINE n == Len(series)
             found == FairValueGaps(series)
  <2>3. PICK walk : walk = GapWalk(series)
    OBVIOUS
  <2>4. GapsKept(series, walk, n)
    BY <2>2, <2>3, GapsAreKept
  <2>5. walk.zones \in Seq(GapZones) /\ walk.active \in Seq(GapZones)
    BY <2>4 DEF GapsKept
  <2>6. PICK zones : zones = Members(walk.zones)
    OBVIOUS
  <2>7. PICK active : active = Members(walk.active)
    OBVIOUS
  <2>8. zones \subseteq GapZones /\ active \subseteq GapZones
    BY <2>5, <2>6, <2>7, MembersAreToSet
  <2>9. ZonesTrack(series, zones, active, n)
    BY <2>4, <2>6, <2>7 DEF GapsKept
  <2>10. found = GapsTo(series, n)
    <3>1. \A g \in found : g.bar \in 1..n
      <4>1. n \in Nat
        BY <2>2, SeriesType
      <4>2. 3..n \subseteq 1..n
        BY <4>1
      <4> HIDE DEF n
      <4> QED BY <4>2 DEF FairValueGaps, n
    <3>2. \A g \in found : g.bar <= n
      <4>1. n \in Nat
        BY <2>2, SeriesType
      <4> HIDE DEF n, found
      <4> QED BY <3>1, <4>1
    <3> QED BY <3>2 DEF GapsTo
  <2> DEFINE all == ToSet(walk.zones \o walk.active)
             gaps == {z \in all : ~z.inverse}
  <2>11. all = zones \cup active
    <3>1. /\ walk.zones \o walk.active \in Seq(GapZones)
          /\ Members(walk.zones \o walk.active) = zones \cup active
      BY <2>5, <2>6, <2>7, MembersOfConcat
    <3>2. Members(walk.zones \o walk.active) = ToSet(walk.zones \o walk.active)
      BY <3>1, MembersAreToSet
    <3> QED BY <3>1, <3>2
  <2> HIDE DEF all
  <2>12. \A z \in zones : ~z.inverse
    BY <2>9 DEF ZonesTrack, FilledGap
  <2>13. gaps = zones \cup {a \in active : ~a.inverse}
    BY <2>11, <2>12
  <2>14. zones \subseteq gaps
    BY <2>11, <2>12
  <2> HIDE DEF gaps
  <2>15. \A z \in gaps : z \in GapZones /\ (FilledGap(series, z, n) \/ OpenGap(series, z, n))
    BY <2>8, <2>9, <2>13 DEF ZonesTrack
  <2>16. {GapOf(z) : z \in gaps} \subseteq found
    BY <2>15 DEF FilledGap, OpenGap
  <2>17. \A z \in gaps : z.end = FirstFill(z)
    BY <2>1, <2>2, <2>15, FilledFirst, OpenUnfilled
  <2>18. \A z \in all \ gaps :
           \E g \in gaps : /\ g.end = z.start
                           /\ g.bias = Flipped(z.bias)
                           /\ <<g.top, g.bottom>> = <<z.top, z.bottom>>
    <3> SUFFICES ASSUME NEW z \in all \ gaps
                 PROVE  \E g \in gaps : /\ g.end = z.start
                                        /\ g.bias = Flipped(z.bias)
                                        /\ <<g.top, g.bottom>> = <<z.top, z.bottom>>
      OBVIOUS
    <3>1. z \in active /\ z.inverse
      BY <2>11, <2>13, <2>14
    <3>2. PICK g \in zones : InverseOf(z, g)
      BY <2>9, <3>1 DEF ZonesTrack
    <3> QED BY <2>14, <3>2 DEF InverseOf
  <2>19. \A g \in found :
           Cardinality({h \in found : h.bar > g.bar}) < 2 * MaxGaps =>
             g \in {GapOf(z) : z \in gaps}
    <3>1. {GapOf(z) : z \in gaps} = Held(zones, active)
      BY <2>13 DEF Held
    <3>2. \A g \in found : Later(series, g, n) = {h \in found : h.bar > g.bar}
      BY <2>10 DEF Later
    <3>3. \A g \in GapsTo(series, n) :
            Cardinality(Later(series, g, n)) < 2 * MaxGaps => g \in Held(zones, active)
      BY <2>4, <2>6, <2>7 DEF GapsKept, GapsCounted
    <3> HIDE DEF found, n
    <3> QED BY <2>10, <3>1, <3>2, <3>3
  <2>20. walk = GapWalk(bars) /\ found = FairValueGaps(bars)
    BY <2>1, <2>3
  <2> HIDE DEF found
  <2> QED BY <2>16, <2>17, <2>18, <2>19, <2>20 DEF GapsTracked, gaps, all
<1> QED BY <1>1, GrowthSeriesInv, PTL

-----------------------------------------------------------------------------
(* Logs.                                                                   *)

\* A log that has only got later members.
GrowsBy(T, old, new, late) ==
  /\ old \in Seq(T) /\ new \in Seq(T)
  /\ Len(old) <= Len(new)
  /\ \A k \in 1..Len(old) : new[k] = old[k]
  /\ \A k \in (Len(old) + 1)..Len(new) : new[k] \in late

LEMMA NothingMore ==
  ASSUME NEW T, NEW old \in Seq(T), NEW late
  PROVE  GrowsBy(T, old, old, late)
<1>1. Len(old) \in Nat
  BY LenProperties
<1> QED BY <1>1 DEF GrowsBy

LEMMA GrowsOn ==
  ASSUME NEW T, NEW late \in SUBSET T, NEW old, NEW new, GrowsBy(T, old, new, late),
         NEW fresh \in Seq(late)
  PROVE  GrowsBy(T, old, new \o fresh, late)
<1> DEFINE all == new \o fresh
           m == Len(old)
           n == Len(new)
           l == Len(fresh)
<1>1. new \in Seq(T) /\ fresh \in Seq(T) /\ old \in Seq(T)
  <2>1. \A k \in 1..Len(fresh) : fresh[k] \in T
    BY ElementOfSeq
  <2>2. fresh = [k \in 1..Len(fresh) |-> fresh[k]] /\ Len(fresh) \in Nat
    OBVIOUS
  <2>3. fresh \in Seq(T)
    BY <2>1, <2>2
  <2> QED BY <2>3 DEF GrowsBy
<1>2. /\ m \in Nat /\ n \in Nat /\ l \in Nat /\ all \in Seq(T) /\ Len(all) = n + l
      /\ \A k \in 1..(n + l) : all[k] = IF k <= n THEN new[k] ELSE fresh[k - n]
  BY <1>1, ConcatProperties, LenProperties
<1>3. m <= n /\ (\A k \in 1..m : new[k] = old[k]) /\ \A k \in (m + 1)..n : new[k] \in late
  BY DEF GrowsBy
<1>4. \A k \in 1..l : fresh[k] \in late
  BY ElementOfSeq
<1> HIDE DEF all, m, n, l
<1>5. \A k \in 1..m : all[k] = old[k]
  BY <1>2, <1>3
<1>6. ASSUME NEW k \in (m + 1)..(n + l) PROVE all[k] \in late
  <2>1. CASE k <= n
    BY <1>2, <1>3, <2>1
  <2>2. CASE ~(k <= n)
    <3>1. k - n \in 1..l /\ k \in 1..(n + l)
      BY <1>2, <2>2
    <3> QED BY <1>2, <1>4, <2>2, <3>1
  <2> QED BY <2>1, <2>2
<1>7. m <= n + l
  BY <1>2, <1>3
<1> QED BY <1>1, <1>2, <1>5, <1>6, <1>7 DEF GrowsBy, all, m, n, l

Picks(f, seq, places, n) ==
  \A k \in 1..n : f[k] = IF k \in places THEN Append(f[k - 1], seq[k]) ELSE f[k - 1]

LEMMA PicksOf ==
  ASSUME NEW T, NEW seq \in Seq(T), NEW places
  PROVE  \E f : f[0] = <<>> /\ Picks(f, seq, places, Len(seq)) /\ Picked(seq, places) = f[Len(seq)]
BY PickingOf DEF Picks

\* Nothing is picked beyond the last place.
LEMMA PickingRests ==
  ASSUME NEW f, NEW seq, NEW places, NEW n \in Nat, NEW m \in 0..n,
         Picks(f, seq, places, n), \A k \in (m + 1)..n : k \notin places
  PROVE  f[n] = f[m]
<1> DEFINE S == {j \in 0..(n - m) : f[m + j] = f[m]}
<1>1. m \in Nat /\ n - m \in Nat
  OBVIOUS
<1>2. 0 \in S
  <2>1. m + 0 = m /\ 0 \in 0..(n - m)
    BY <1>1
  <2> QED BY <2>1
<1>3. ASSUME NEW j \in 0..((n - m) - 1), j \in S PROVE j + 1 \in S
  <2>1. /\ m + (j + 1) \in (m + 1)..n /\ m + (j + 1) \in 1..n
        /\ (m + (j + 1)) - 1 = m + j /\ j + 1 \in 0..(n - m)
    BY <1>1
  <2>2. f[m + (j + 1)] = f[m + j]
    BY <2>1 DEF Picks
  <2> QED BY <1>3, <2>1, <2>2
<1>4. n - m \in S
  <2>1. n - m \in 0..(n - m)
    BY <1>1
  <2> HIDE DEF S
  <2> QED BY <1>1, <1>2, <1>3, <2>1, CountingUp
<1>5. m + (n - m) = n
  OBVIOUS
<1> QED BY <1>4, <1>5

\* What is picked from two logs that agree, but for members that are not picked.
LEMMA SamePicks ==
  ASSUME NEW T, NEW old, NEW one, NEW two, NEW late,
         GrowsBy(T, old, one, late), GrowsBy(T, old, two, late),
         NEW early, late \cap early = {},
         NEW p, \A k \in DOMAIN one : k \in p <=> one[k] \in early,
         NEW q, \A k \in DOMAIN two : k \in q <=> two[k] \in early
  PROVE  Picked(one, p) = Picked(two, q)
<1> DEFINE m == Len(old)
           n == Len(one)
           l == Len(two)
<1>1. one \in Seq(T) /\ two \in Seq(T) /\ old \in Seq(T)
  BY DEF GrowsBy
<1>2. /\ m \in Nat /\ n \in Nat /\ l \in Nat
      /\ DOMAIN one = 1..n /\ DOMAIN two = 1..l
  BY <1>1, LenProperties
<1>3. /\ m <= n /\ m <= l
      /\ \A k \in 1..m : one[k] = old[k] /\ two[k] = old[k]
      /\ \A k \in (m + 1)..n : one[k] \in late
      /\ \A k \in (m + 1)..l : two[k] \in late
  BY DEF GrowsBy
<1>4. PICK f : f[0] = <<>> /\ Picks(f, one, p, n) /\ Picked(one, p) = f[n]
  BY <1>1, PicksOf
<1>5. PICK g : g[0] = <<>> /\ Picks(g, two, q, l) /\ Picked(two, q) = g[l]
  BY <1>1, PicksOf
<1> HIDE DEF m, n, l
<1>6. /\ \A k \in 1..m : k \in 1..n /\ k \in 1..l
      /\ m \in 0..n /\ m \in 0..l
  BY <1>2, <1>3
<1>7. \A k \in (m + 1)..n : k \notin p
  <2> SUFFICES ASSUME NEW k \in (m + 1)..n PROVE k \notin p
    OBVIOUS
  <2>1. one[k] \notin early
    BY <1>3
  <2>2. k \in DOMAIN one
    BY <1>2
  <2> QED BY <2>1, <2>2
<1>8. \A k \in (m + 1)..l : k \notin q
  <2> SUFFICES ASSUME NEW k \in (m + 1)..l PROVE k \notin q
    OBVIOUS
  <2>1. two[k] \notin early
    BY <1>3
  <2>2. k \in DOMAIN two
    BY <1>2
  <2> QED BY <2>1, <2>2
<1>9. f[n] = f[m]
  BY <1>2, <1>4, <1>6, <1>7, PickingRests
<1>10. g[l] = g[m]
  BY <1>2, <1>5, <1>6, <1>8, PickingRests
<1>11. \A k \in 1..m : k \in p <=> k \in q
  BY <1>2, <1>3, <1>6
<1> DEFINE S == {k \in 0..m : f[k] = g[k]}
<1>12. 0 \in S
  BY <1>2, <1>4, <1>5
<1>13. ASSUME NEW k \in 0..(m - 1), k \in S PROVE k + 1 \in S
  <2>1. k + 1 \in 1..m /\ (k + 1) - 1 = k /\ k + 1 \in 0..m
    BY <1>2
  <2>2. /\ f[k + 1] = IF k + 1 \in p THEN Append(f[k], one[k + 1]) ELSE f[k]
        /\ g[k + 1] = IF k + 1 \in q THEN Append(g[k], two[k + 1]) ELSE g[k]
    <3>1. k + 1 \in 1..n /\ k + 1 \in 1..l
      BY <1>6, <2>1
    <3> QED BY <1>4, <1>5, <2>1, <3>1 DEF Picks
  <2>3. one[k + 1] = two[k + 1] /\ (k + 1 \in p <=> k + 1 \in q)
    BY <1>3, <1>11, <2>1
  <2>4. f[k] = g[k]
    BY <1>13
  <2> QED BY <2>1, <2>2, <2>3, <2>4
<1>14. m \in S
  <2>1. m \in 0..m
    BY <1>2
  <2> HIDE DEF S
  <2> QED BY <1>2, <1>12, <1>13, <2>1, CountingUp
<1> QED BY <1>4, <1>5, <1>9, <1>10, <1>14

LEMMA SeqOfMore ==
  ASSUME NEW S, NEW T, S \subseteq T, NEW s \in Seq(S)
  PROVE  s \in Seq(T)
<1>1. \A k \in 1..Len(s) : s[k] \in T
  BY ElementOfSeq
<1>2. s = [k \in 1..Len(s) |-> s[k]] /\ Len(s) \in Nat
  OBVIOUS
<1> QED BY <1>1, <1>2

AddsTo(old, new, S) == \E fresh \in Seq(S) : new = old \o fresh

LEMMA AddsTwice ==
  ASSUME NEW T, NEW S \in SUBSET T, NEW old \in Seq(T),
         NEW first \in Seq(S), NEW second \in Seq(S),
         NEW new, new = (old \o first) \o second
  PROVE  AddsTo(old, new, S) /\ new \in Seq(T)
<1>1. first \in Seq(T) /\ second \in Seq(T)
  BY SeqOfMore
<1>2. new = old \o (first \o second)
  BY <1>1, ConcatAssociative
<1>3. first \o second \in Seq(S)
  BY ConcatProperties
<1>4. new \in Seq(T)
  BY <1>1, ConcatProperties
<1> QED BY <1>2, <1>3, <1>4 DEF AddsTo

\* A log that bar i adds members of at[i] to.
IsLog(log, at, n) ==
  /\ log[0] = <<>>
  /\ \A i \in 1..n : AddsTo(log[i - 1], log[i], at[i])

LEMMA LogGrows ==
  ASSUME NEW T, NEW log, NEW at, NEW n \in Nat, IsLog(log, at, n),
         \A i \in 1..n : at[i] \subseteq T,
         NEW from \in 0..n, NEW late \in SUBSET T,
         \A i \in (from + 1)..n : at[i] \subseteq late
  PROVE  GrowsBy(T, log[from], log[n], late)
<1>1. \A i \in 1..n : AddsTo(log[i - 1], log[i], at[i])
  BY DEF IsLog
<1> DEFINE S == {i \in 0..n : log[i] \in Seq(T)}
<1>2. 0 \in S
  <2>1. log[0] = <<>> /\ <<>> \in Seq(T) /\ 0 \in 0..n
    BY EmptySeq DEF IsLog
  <2> QED BY <2>1
<1>3. ASSUME NEW i \in 0..(n - 1), i \in S PROVE i + 1 \in S
  <2>1. i + 1 \in 1..n /\ (i + 1) - 1 = i /\ i + 1 \in 0..n
    OBVIOUS
  <2>2. PICK fresh \in Seq(at[i + 1]) : log[i + 1] = log[i] \o fresh
    BY <1>1, <2>1 DEF AddsTo
  <2>3. fresh \in Seq(T)
    <3>1. PICK A : A = at[i + 1]
      OBVIOUS
    <3>2. A \subseteq T /\ fresh \in Seq(A)
      BY <2>1, <2>2, <3>1
    <3> QED BY <3>2, SeqOfMore
  <2>4. log[i] \in Seq(T)
    BY <1>3
  <2>5. log[i] \o fresh \in Seq(T)
    BY <2>3, <2>4, ConcatProperties
  <2> QED BY <2>1, <2>2, <2>5
<1>4. from \in S
  <2> HIDE DEF S
  <2> QED BY <1>2, <1>3, CountingUp
<1> DEFINE G == {j \in 0..(n - from) : GrowsBy(T, log[from], log[from + j], late)}
<1>5. from \in Nat /\ n - from \in Nat
  OBVIOUS
<1>6. 0 \in G
  <2>1. from + 0 = from /\ 0 \in 0..(n - from)
    BY <1>5
  <2>2. GrowsBy(T, log[from], log[from], late)
    BY <1>4, NothingMore
  <2> QED BY <2>1, <2>2
<1>7. ASSUME NEW j \in 0..((n - from) - 1), j \in G PROVE j + 1 \in G
  <2> DEFINE i == from + (j + 1)
  <2>1. /\ i \in (from + 1)..n /\ i \in 1..n /\ i - 1 = from + j /\ j + 1 \in 0..(n - from)
    BY <1>5
  <2> HIDE DEF i
  <2>2. PICK fresh \in Seq(at[i]) : log[i] = log[from + j] \o fresh
    BY <1>1, <2>1 DEF AddsTo
  <2>3. fresh \in Seq(late)
    <3>1. PICK A : A = at[i]
      OBVIOUS
    <3>2. A \subseteq late /\ fresh \in Seq(A)
      BY <2>1, <2>2, <3>1
    <3> QED BY <3>2, SeqOfMore
  <2>4. GrowsBy(T, log[from], log[from + j], late)
    BY <1>7
  <2>5. GrowsBy(T, log[from], log[from + j] \o fresh, late)
    <3>1. PICK old, new : old = log[from] /\ new = log[from + j]
      OBVIOUS
    <3>2. GrowsBy(T, old, new \o fresh, late)
      BY <2>3, <2>4, <3>1, GrowsOn
    <3> QED BY <3>1, <3>2
  <2> QED BY <2>1, <2>2, <2>5 DEF i
<1>8. n - from \in G
  <2>1. n - from \in 0..(n - from)
    BY <1>5
  <2> HIDE DEF G
  <2> QED BY <1>5, <1>6, <1>7, <2>1, CountingUp
<1>9. from + (n - from) = n
  OBVIOUS
<1> QED BY <1>8, <1>9

-----------------------------------------------------------------------------
(* Breaks and blocks of a longer series.                                   *)

LevelsUpTo(i) == [high : 0..i, low : 0..i]

\* A settled bar does the same to the levels.
LEMMA ReachedStays ==
  ASSUME NEW a, NEW b, OneLonger(a, b), NEW i \in 1..(Len(a) - Lookback),
         NEW levels \in LevelsUpTo(i - 1),
         NEW found, found = Reached(Swings(a), levels, i)
  PROVE  /\ found = Reached(Swings(b), levels, i)
         /\ found \in LevelsUpTo(i)
         /\ BreaksUp(b, found, i) <=> BreaksUp(a, found, i)
         /\ BreaksDown(b, found, i) <=> BreaksDown(a, found, i)
         /\ Consumed(b, found, i) = Consumed(a, found, i)
         /\ Consumed(a, found, i) \in LevelsUpTo(i)
<1> DEFINE n == Len(a)
<1>1. /\ Lookback \in Nat \ {0} /\ n \in Nat
      /\ \A j \in 1..n : b[j] = a[j]
  BY LookbackAssumption, LongerTypes DEF LookbackAssumption
<1>2. i \in Nat \ {0} /\ i \in 1..n /\ i # NewSwing(a) /\ 1..i \subseteq 1..n
  BY <1>1 DEF NewSwing
<1>3. /\ i \in Swings(a).highs <=> i \in Swings(b).highs
      /\ i \in Swings(a).lows <=> i \in Swings(b).lows
  BY <1>2, SwingsStay
<1>4. found = Reached(Swings(b), levels, i)
  BY <1>3 DEF Reached
<1>5. found = [high |-> IF i \in Swings(a).highs THEN i ELSE levels.high,
             low |-> IF i \in Swings(a).lows THEN i ELSE levels.low]
  BY DEF Reached
<1>6. levels.high \in 0..i /\ levels.low \in 0..i
  BY <1>2 DEF LevelsUpTo
<1>7. i \in 0..i
  BY <1>2
<1>8. found.high \in 0..i /\ found.low \in 0..i /\ found = [high |-> found.high, low |-> found.low]
  BY <1>5, <1>6, <1>7
<1>9. found \in LevelsUpTo(i)
  BY <1>8 DEF LevelsUpTo
<1>10. /\ found.high # None => found.high \in 1..n
       /\ found.low # None => found.low \in 1..n
  BY <1>1, <1>2, <1>8 DEF None
<1>11. BreaksUp(b, found, i) <=> BreaksUp(a, found, i)
  BY <1>1, <1>2, <1>10 DEF BreaksUp
<1>12. BreaksDown(b, found, i) <=> BreaksDown(a, found, i)
  BY <1>1, <1>2, <1>10 DEF BreaksDown
<1>13. Consumed(b, found, i) = Consumed(a, found, i)
  BY <1>11, <1>12 DEF Consumed
<1>14. Consumed(a, found, i) \in LevelsUpTo(i)
  <2>1. None \in 0..i
    BY <1>2 DEF None
  <2> QED BY <1>8, <2>1 DEF Consumed, LevelsUpTo
<1> QED BY <1>4, <1>9, <1>11, <1>12, <1>13, <1>14

LEMMA BreakStepStays ==
  ASSUME NEW a, NEW b, OneLonger(a, b), NEW i \in 1..(Len(a) - Lookback),
         NEW before, before.levels \in LevelsUpTo(i - 1)
  PROVE  /\ BreakStep(b, Swings(b), before, i) = BreakStep(a, Swings(a), before, i)
         /\ BreakStep(a, Swings(a), before, i).levels \in LevelsUpTo(i)
<1>1. PICK levels : levels = before.levels
  OBVIOUS
<1>2. PICK found : found = Reached(Swings(a), levels, i)
  OBVIOUS
<1>3. /\ found = Reached(Swings(b), levels, i)
      /\ BreaksUp(b, found, i) <=> BreaksUp(a, found, i)
      /\ BreaksDown(b, found, i) <=> BreaksDown(a, found, i)
      /\ Consumed(b, found, i) = Consumed(a, found, i)
      /\ Consumed(a, found, i) \in LevelsUpTo(i)
  BY <1>1, <1>2, ReachedStays
<1> QED BY <1>1, <1>2, <1>3 DEF BreakStep

\* The levels of any step are bars.
LEMMA LevelsAreBars ==
  ASSUME NEW series, NEW i \in Nat, NEW levels \in [high : Nat, low : Nat],
         NEW found, found = Reached(Swings(series), levels, i)
  PROVE  found \in [high : Nat, low : Nat] /\ Consumed(series, found, i) \in [high : Nat, low : Nat]
<1>1. found \in [high : Nat, low : Nat]
  BY DEF Reached
<1>2. None \in Nat
  BY DEF None
<1> QED BY <1>1, <1>2 DEF Consumed

EventsAt(i) == {e \in Events : e.bar = i}
EventsAfter(n) == {e \in Events : ~(e.bar <= n)}

LEMMA BreakStepLogs ==
  ASSUME NEW series, NEW i \in Nat, NEW before, before.levels \in [high : Nat, low : Nat],
         before.events \in Seq(Events),
         NEW after, after = BreakStep(series, Swings(series), before, i)
  PROVE  /\ after.levels \in [high : Nat, low : Nat]
         /\ after.events \in Seq(Events)
         /\ AddsTo(before.events, after.events, EventsAt(i))
<1>1. PICK levels : levels = before.levels
  OBVIOUS
<1>2. PICK found : found = Reached(Swings(series), levels, i)
  OBVIOUS
<1>3. found \in [high : Nat, low : Nat] /\ Consumed(series, found, i) \in [high : Nat, low : Nat]
  BY <1>1, <1>2, LevelsAreBars
<1>4. after.levels \in [high : Nat, low : Nat]
  BY <1>1, <1>2, <1>3 DEF BreakStep
<1> DEFINE up == BreaksUp(series, found, i)
           down == BreaksDown(series, found, i)
           trend == IF up THEN "bullish" ELSE before.trend
           upBreak == Break(before.trend, i, "bullish", found.high)
           downBreak == Break(trend, i, "bearish", found.low)
           first == IF up THEN <<upBreak>> ELSE <<>>
           second == IF down THEN <<downBreak>> ELSE <<>>
<1>5. after.events = before.events \o first \o second
  BY <1>1, <1>2 DEF BreakStep
<1>6. upBreak \in EventsAt(i)
  BY <1>3 DEF Break, EventsAt, Events, Directions
<1>7. downBreak \in EventsAt(i)
  <2> HIDE DEF trend
  <2> QED BY <1>3 DEF Break, EventsAt, Events, Directions
<1> HIDE DEF upBreak, downBreak
<1>8. first \in Seq(EventsAt(i)) /\ second \in Seq(EventsAt(i))
  <2> HIDE DEF up, down
  <2>1. <<>> \in Seq(EventsAt(i)) /\ <<upBreak>> \in Seq(EventsAt(i)) /\ <<downBreak>> \in Seq(EventsAt(i))
    BY <1>6, <1>7, EmptySeq
  <2> QED BY <2>1
<1> HIDE DEF first, second
<1>9. AddsTo(before.events, after.events, EventsAt(i)) /\ after.events \in Seq(Events)
  <2>1. EventsAt(i) \in SUBSET Events
    BY DEF EventsAt
  <2>2. PICK old, new : old = before.events /\ new = after.events
    OBVIOUS
  <2>3. old \in Seq(Events) /\ new = (old \o first) \o second
    BY <1>5, <2>2
  <2>4. AddsTo(old, new, EventsAt(i)) /\ new \in Seq(Events)
    BY <1>8, <2>1, <2>3, AddsTwice
  <2> QED BY <2>2, <2>4
<1> QED BY <1>4, <1>9

IsBreaking(series, f) ==
  /\ f[0] = BreakStart
  /\ \A i \in 1..Len(series) : f[i] = BreakStep(series, Swings(series), f[i - 1], i)

LEMMA BreakLog ==
  ASSUME NEW series \in Series, NEW f, IsBreaking(series, f),
         NEW log, log = [i \in 0..Len(series) |-> f[i].events],
         NEW at, at = [i \in 1..Len(series) |-> EventsAt(i)]
  PROVE  IsLog(log, at, Len(series))
<1> DEFINE n == Len(series)
           S == {i \in 0..n : f[i].levels \in [high : Nat, low : Nat] /\ f[i].events \in Seq(Events)}
<1>1. n \in Nat
  BY SeriesType
<1>2. /\ f[0] = BreakStart
      /\ \A i \in 1..n : f[i] = BreakStep(series, Swings(series), f[i - 1], i)
  BY DEF IsBreaking
<1> HIDE DEF n
<1>3. 0 \in S
  <2>1. <<>> \in Seq(Events)
    BY EmptySeq
  <2>2. f[0].levels = NoLevels /\ f[0].events = <<>>
    BY <1>2 DEF BreakStart
  <2>3. NoLevels \in [high : Nat, low : Nat]
    BY DEF NoLevels, None
  <2> QED BY <1>1, <2>1, <2>2, <2>3
<1>4. ASSUME NEW i \in 1..n, i - 1 \in S
      PROVE  i \in S /\ AddsTo(f[i - 1].events, f[i].events, EventsAt(i))
  <2>1. PICK before, after : before = f[i - 1] /\ after = f[i]
    OBVIOUS
  <2>2. /\ before.levels \in [high : Nat, low : Nat] /\ before.events \in Seq(Events)
        /\ after = BreakStep(series, Swings(series), before, i)
    BY <1>2, <1>4, <2>1
  <2>3. i \in Nat /\ i \in 0..n
    BY <1>1
  <2>4. /\ after.levels \in [high : Nat, low : Nat] /\ after.events \in Seq(Events)
    BY <2>2, <2>3, BreakStepLogs
  <2>5. AddsTo(before.events, after.events, EventsAt(i))
    BY <2>2, <2>3, BreakStepLogs
  <2> QED BY <2>1, <2>3, <2>4, <2>5
<1>5. \A i \in 0..n : i \in S
  <2>1. ASSUME NEW i \in 0..(n - 1), i \in S PROVE i + 1 \in S
    <3>1. i + 1 \in 1..n /\ (i + 1) - 1 = i
      BY <1>1
    <3> HIDE DEF S
    <3> QED BY <1>4, <2>1, <3>1
  <2> HIDE DEF S
  <2> QED BY <1>1, <1>3, <2>1, CountingUp
<1>6. log[0] = <<>>
  BY <1>1, <1>2 DEF BreakStart, n
<1>7. ASSUME NEW i \in 1..n PROVE AddsTo(log[i - 1], log[i], at[i])
  <2>1. i - 1 \in 0..n /\ i \in 0..n
    BY <1>1
  <2>2. /\ at[i] = EventsAt(i)
        /\ log[i] = f[i].events /\ log[i - 1] = f[i - 1].events
    BY <2>1 DEF n
  <2>3. AddsTo(f[i - 1].events, f[i].events, EventsAt(i))
    BY <1>4, <1>5, <2>1
  <2> QED BY <2>2, <2>3
<1> QED BY <1>6, <1>7 DEF IsLog, n

\* The last bar that can no longer be a swing.
Settled(a) == Len(a) - Lookback

\* The walks of both series are the same as far as the swings are settled.
LEMMA BreakWalksAgree ==
  ASSUME NEW a, NEW b, OneLonger(a, b), NEW f, IsBreaking(a, f), NEW g, IsBreaking(b, g),
         NEW from \in 0..Len(a), \A i \in 1..from : i <= Settled(a)
  PROVE  f[from] = g[from]
<1> DEFINE S == {i \in 0..from : f[i] = g[i] /\ f[i].levels \in LevelsUpTo(i)}
<1>1. from \in Nat /\ Lookback \in Nat /\ Len(a) \in Nat /\ Len(b) = Len(a) + 1
  BY LookbackAssumption, LongerTypes DEF LookbackAssumption
<1>2. 0 \in S
  <2>1. f[0] = BreakStart /\ g[0] = BreakStart
    BY DEF IsBreaking
  <2>2. BreakStart.levels \in LevelsUpTo(0)
    BY DEF BreakStart, NoLevels, LevelsUpTo, None
  <2>3. 0 \in 0..from
    BY <1>1
  <2> QED BY <2>1, <2>2, <2>3
<1>3. ASSUME NEW i \in 0..(from - 1), i \in S PROVE i + 1 \in S
  <2> DEFINE k == i + 1
  <2>1. k \in 1..from /\ k - 1 = i /\ k \in 0..from
    BY <1>1
  <2> HIDE DEF k
  <2>2. k \in 1..(Len(a) - Lookback) /\ k \in 1..Len(a) /\ k \in 1..Len(b)
    BY <1>1, <2>1 DEF Settled
  <2>3. PICK before : before = f[i]
    OBVIOUS
  <2>4. before.levels \in LevelsUpTo(k - 1) /\ g[i] = before
    BY <1>3, <2>1, <2>3
  <2>5. f[k] = BreakStep(a, Swings(a), before, k) /\ g[k] = BreakStep(b, Swings(b), before, k)
    BY <2>1, <2>2, <2>3, <2>4 DEF IsBreaking
  <2>6. /\ BreakStep(b, Swings(b), before, k) = BreakStep(a, Swings(a), before, k)
        /\ BreakStep(a, Swings(a), before, k).levels \in LevelsUpTo(k)
    BY <2>2, <2>4, BreakStepStays
  <2> QED BY <2>1, <2>5, <2>6 DEF k
<1>4. from \in S
  <2>1. from \in 0..from
    BY <1>1
  <2> HIDE DEF S
  <2> QED BY <1>1, <1>2, <1>3, <2>1, CountingUp
<1> QED BY <1>4

LEMMA SettledBars ==
  ASSUME NEW a, NEW b, OneLonger(a, b)
  PROVE  \E from \in Nat : /\ from \in 0..Len(a) /\ from \in 0..Len(b)
                           /\ \A i \in 1..from : i <= Settled(a)
                           /\ \A i \in Nat : i > from => i > Settled(a)
<1>1. Lookback \in Nat /\ Len(a) \in Nat /\ Len(b) = Len(a) + 1
  BY LookbackAssumption, LongerTypes DEF LookbackAssumption
<1>2. CASE Settled(a) >= 0
  <2> DEFINE from == Settled(a)
  <2>1. from \in Nat /\ from \in 0..Len(a) /\ from \in 0..Len(b)
    BY <1>1, <1>2 DEF Settled
  <2> HIDE DEF from
  <2>2. \A i \in 1..from : i <= from
    BY <2>1
  <2> QED BY <2>1, <2>2 DEF from
<1>3. CASE ~(Settled(a) >= 0)
  <2>1. 0 \in Nat /\ 0 \in 0..Len(a) /\ 0 \in 0..Len(b)
    BY <1>1
  <2>2. \A i \in 1..0 : i <= Settled(a)
    OBVIOUS
  <2>3. \A i \in Nat : i > Settled(a)
    BY <1>1, <1>3 DEF Settled
  <2> QED BY <2>1, <2>2, <2>3
<1> QED BY <1>2, <1>3

LEMMA EventsGrow ==
  ASSUME NEW series \in Series, NEW f, IsBreaking(series, f), NEW n \in Int,
         NEW from \in 0..Len(series), \A i \in Nat : i > from => i > n
  PROVE  GrowsBy(Events, f[from].events, f[Len(series)].events, EventsAfter(n))
<1> DEFINE l == Len(series)
           log == [i \in 0..l |-> f[i].events]
           at == [i \in 1..l |-> EventsAt(i)]
           late == EventsAfter(n)
<1>1. l \in Nat /\ l \in 0..l
  BY SeriesType
<1>2. IsLog(log, at, l)
  <2>1. PICK g : g = log
    OBVIOUS
  <2>2. PICK h : h = at
    OBVIOUS
  <2> HIDE DEF log, at
  <2>3. g = [i \in 0..Len(series) |-> f[i].events]
    BY <2>1 DEF log
  <2>4. h = [i \in 1..Len(series) |-> EventsAt(i)]
    BY <2>2 DEF at
  <2>5. IsLog(g, h, Len(series))
    BY <2>3, <2>4, BreakLog
  <2> QED BY <2>1, <2>2, <2>5
<1>3. log[from] = f[from].events /\ log[l] = f[l].events
  BY <1>1
<1>4. \A i \in 1..l : at[i] \subseteq Events
  BY DEF EventsAt
<1>5. \A i \in (from + 1)..l : at[i] \subseteq late
  <2> SUFFICES ASSUME NEW i \in (from + 1)..l, NEW e \in at[i] PROVE e \in late
    OBVIOUS
  <2>1. i \in Nat /\ i > from /\ i \in 1..l
    BY <1>1
  <2>2. e \in Events /\ e.bar = i
    BY <2>1 DEF EventsAt
  <2>3. i > n
    BY <2>1
  <2>4. ~(e.bar <= n)
    BY <2>1, <2>2, <2>3
  <2> QED BY <2>2, <2>4 DEF EventsAfter
<1>6. late \in SUBSET Events
  BY DEF EventsAfter
<1> HIDE DEF log, at, l, late
<1>7. GrowsBy(Events, log[from], log[l], late)
  <2>1. from \in 0..l
    BY DEF l
  <2> QED BY <1>1, <1>2, <1>4, <1>5, <1>6, <2>1, LogGrows
<1> QED BY <1>3, <1>7 DEF l, late

LEMMA BreaksStay ==
  ASSUME NEW a, NEW b, OneLonger(a, b)
  PROVE  BreaksUpTo(b, Settled(a)) = BreaksUpTo(a, Settled(a))
<1>1. PICK f : IsBreaking(a, f) /\ BosChoch(a) = f[Len(a)].events
  BY LongerTypes, BreakWalk DEF IsBreaking
<1>2. PICK g : IsBreaking(b, g) /\ BosChoch(b) = g[Len(b)].events
  BY LongerTypes, BreakWalk DEF IsBreaking
<1>3. PICK from \in Nat : /\ from \in 0..Len(a) /\ from \in 0..Len(b)
                          /\ \A i \in 1..from : i <= Settled(a)
                          /\ \A i \in Nat : i > from => i > Settled(a)
  BY SettledBars
<1>4. PICK n \in Int : n = Settled(a)
  BY LookbackAssumption, LongerTypes DEF LookbackAssumption, Settled
<1>5. PICK old : old = f[from].events
  OBVIOUS
<1>6. f[from] = g[from]
  BY <1>1, <1>2, <1>3, BreakWalksAgree
<1> DEFINE late == EventsAfter(n)
           early == {e \in Events : e.bar <= n}
<1>7. PICK one, two : one = BosChoch(a) /\ two = BosChoch(b)
  OBVIOUS
<1>8. GrowsBy(Events, old, one, late)
  BY <1>1, <1>3, <1>4, <1>5, <1>7, LongerTypes, EventsGrow
<1>9. GrowsBy(Events, old, two, late)
  BY <1>2, <1>3, <1>4, <1>5, <1>6, <1>7, LongerTypes, EventsGrow
<1> DEFINE p == {k \in DOMAIN one : one[k].bar <= n}
           q == {k \in DOMAIN two : two[k].bar <= n}
<1>10. /\ \A k \in DOMAIN one : one[k] \in Events
       /\ \A k \in DOMAIN two : two[k] \in Events
  <2>1. one \in Seq(Events) /\ two \in Seq(Events)
    BY <1>8, <1>9 DEF GrowsBy
  <2> QED BY <2>1, LenProperties, ElementOfSeq
<1>11. /\ \A k \in DOMAIN one : k \in p <=> one[k] \in early
       /\ \A k \in DOMAIN two : k \in q <=> two[k] \in early
  BY <1>10
<1>12. late \cap early = {}
  BY DEF EventsAfter
<1>13. BreaksUpTo(a, n) = Picked(one, p) /\ BreaksUpTo(b, n) = Picked(two, q)
  BY <1>7 DEF BreaksUpTo
<1> HIDE DEF p, q, late, early
<1>14. Picked(one, p) = Picked(two, q)
  BY <1>8, <1>9, <1>11, <1>12, SamePicks
<1> QED BY <1>4, <1>13, <1>14

BlockZones ==
  [kind : {"order_block", "breaker_block"}, bias : Directions, top : Int, bottom : Int,
   start : Nat, end : Nat, inverse : BOOLEAN]

OpenBlocks == {z \in BlockZones : z.kind = "order_block" /\ z.end = None}

\* What ends or begins at bar i.
ZonesAt(i) ==
  {z \in BlockZones : \/ z.kind = "order_block" /\ z.end = i
                      \/ z.kind = "breaker_block" /\ z.start = i}

ZonesAfter(n) == {z \in BlockZones : ~EndedBy(z, n)}

Against(series, i, bias) ==
  {j \in Max({1, i - SearchWindow})..(i - 1) :
     IF bias = "bullish" THEN Bearish(series[j]) ELSE Bullish(series[j])}

LEMMA CandleIsBar ==
  ASSUME NEW series, NEW i \in Nat, NEW bias, Against(series, i, bias) # {}
  PROVE  Max(Against(series, i, bias)) \in 1..(i - 1)
<1> DEFINE S == Against(series, i, bias)
           first == Max({1, i - SearchWindow})
<1>1. SearchWindow \in Nat
  BY SmcProAssumption DEF SmcProAssumption
<1>2. first \in Nat /\ first >= 1
  <2>1. 1 \in Int /\ i - SearchWindow \in Int
    BY <1>1
  <2>2. PICK x, y : x = 1 /\ y = i - SearchWindow
    OBVIOUS
  <2>3. x \in Int /\ y \in Int
    BY <2>1, <2>2
  <2>4. Max({x, y}) = IF x >= y THEN x ELSE y
    BY <2>3, MaxIsIf
  <2>5. first = Max({x, y})
    BY <2>2
  <2> HIDE DEF first
  <2> QED BY <2>2, <2>3, <2>4, <2>5
<1> HIDE DEF first
<1>3. S \subseteq first..(i - 1)
  BY DEF Against, first
<1>4. IsFiniteSet(S) /\ S \in SUBSET Int
  <2>1. IsFiniteSet(first..(i - 1))
    <3>1. first \in Int /\ i - 1 \in Int
      BY <1>2
    <3> QED BY <3>1, FS_Interval
  <2> QED BY <1>2, <1>3, <2>1, FS_Subset
<1>5. Max(S) \in S
  <2> HIDE DEF S
  <2>1. S # {}
    BY DEF S
  <2> QED BY <1>4, <2>1, MaxOfFinite
<1> DEFINE m == Max(S)
<1>6. m \in first..(i - 1)
  BY <1>3, <1>5
<1> HIDE DEF m
<1>7. m \in 1..(i - 1)
  BY <1>2, <1>6
<1> QED BY <1>7 DEF m

LEMMA BlockOfIsOpen ==
  ASSUME NEW series \in Series, NEW i \in 1..Len(series), NEW bias \in Directions
  PROVE  BlockOf(series, i, bias) \in Seq(OpenBlocks)
<1> DEFINE S == Against(series, i, bias)
           candle == Max(S)
<1>1. i \in Nat /\ Len(series) \in Nat
  BY SeriesType
<1>2. BlockOf(series, i, bias) =
        IF S = {} THEN <<>>
        ELSE <<Zone("order_block", bias, series[candle].high, series[candle].low, candle)>>
  BY DEF BlockOf, Against
<1>3. CASE S = {}
  BY <1>2, <1>3, EmptySeq
<1>4. CASE S # {}
  <2>1. candle \in 1..(i - 1)
    BY <1>1, <1>4, CandleIsBar
  <2> HIDE DEF candle
  <2>2. candle \in 1..Len(series) /\ candle \in Nat
    BY <1>1, <2>1
  <2>3. series[candle].high \in Int /\ series[candle].low \in Int
    BY <2>2, BarEnds
  <2> DEFINE z == Zone("order_block", bias, series[candle].high, series[candle].low, candle)
  <2>4. z \in OpenBlocks
    BY <2>2, <2>3 DEF Zone, OpenBlocks, BlockZones, None
  <2>5. BlockOf(series, i, bias) = <<z>>
    BY <1>2, <1>4 DEF candle
  <2> HIDE DEF z
  <2>6. <<z>> \in Seq(OpenBlocks)
    BY <2>4
  <2> QED BY <2>5, <2>6
<1> QED BY <1>3, <1>4

LEMMA BlockOfStays ==
  ASSUME NEW a, NEW b, OneLonger(a, b), NEW i \in 1..Len(a), NEW bias
  PROVE  BlockOf(b, i, bias) = BlockOf(a, i, bias)
<1> DEFINE S == Against(a, i, bias)
           R == Against(b, i, bias)
           candle == Max(S)
<1>1. /\ i \in Nat /\ Len(a) \in Nat
      /\ \A j \in 1..Len(a) : b[j] = a[j]
  BY LongerTypes
<1> DEFINE first == Max({1, i - SearchWindow})
<1>2. \A j \in first..(i - 1) : j \in 1..Len(a)
  <2>1. SearchWindow \in Nat
    BY SmcProAssumption DEF SmcProAssumption
  <2>2. PICK x, y : x = 1 /\ y = i - SearchWindow
    OBVIOUS
  <2>3. x \in Int /\ y \in Int
    BY <1>1, <2>1, <2>2
  <2>4. Max({x, y}) = IF x >= y THEN x ELSE y
    BY <2>3, MaxIsIf
  <2>5. first = Max({x, y})
    BY <2>2
  <2> HIDE DEF first
  <2>6. first \in Int /\ first >= 1
    BY <2>2, <2>3, <2>4, <2>5
  <2> QED BY <1>1, <2>6
<1>3. R = S
  <2> HIDE DEF first
  <2>1. /\ S = {j \in first..(i - 1) : IF bias = "bullish" THEN Bearish(a[j]) ELSE Bullish(a[j])}
        /\ R = {j \in first..(i - 1) : IF bias = "bullish" THEN Bearish(b[j]) ELSE Bullish(b[j])}
    BY DEF Against, first
  <2> HIDE DEF S, R
  <2>2. \A j \in first..(i - 1) : b[j] = a[j]
    BY <1>1, <1>2
  <2> QED BY <2>1, <2>2
<1>4. S # {} => candle \in 1..Len(a)
  <2>1. S # {} => candle \in 1..(i - 1)
    BY <1>1, CandleIsBar
  <2> HIDE DEF candle, S
  <2> QED BY <1>1, <2>1
<1>5. /\ BlockOf(a, i, bias) =
           IF S = {} THEN <<>>
           ELSE <<Zone("order_block", bias, a[candle].high, a[candle].low, candle)>>
      /\ BlockOf(b, i, bias) =
           IF R = {} THEN <<>>
           ELSE <<Zone("order_block", bias, b[Max(R)].high, b[Max(R)].low, Max(R))>>
  BY DEF BlockOf, Against
<1> HIDE DEF S, R
<1> QED BY <1>1, <1>3, <1>4, <1>5

\* FlattenSeq, member by member.
IsFlattening(seqs, f, n) ==
  f = [k \in 1..n |-> IF k = 1 THEN seqs[k] ELSE f[k - 1] \o seqs[k]]

LEMMA FlatteningExists ==
  ASSUME NEW seqs, NEW n \in Nat
  PROVE  \E f : IsFlattening(seqs, f, n)
<1> DEFINE S == {m \in 0..n : \E f : IsFlattening(seqs, f, m)}
           Step(f, k) == IF k = 1 THEN seqs[k] ELSE f[k - 1] \o seqs[k]
<1>1. 0 \in S
  <2> DEFINE f == [k \in 1..0 |-> seqs[k]]
  <2>1. f = [k \in 1..0 |-> IF k = 1 THEN seqs[k] ELSE f[k - 1] \o seqs[k]]
    OBVIOUS
  <2> HIDE DEF f
  <2>2. IsFlattening(seqs, f, 0)
    BY <2>1 DEF IsFlattening
  <2>3. 0 \in 0..n
    OBVIOUS
  <2> QED BY <2>2, <2>3
<1>2. ASSUME NEW m \in 0..(n - 1), m \in S PROVE m + 1 \in S
  <2>1. PICK f : IsFlattening(seqs, f, m)
    BY <1>2
  <2> DEFINE g == [k \in 1..(m + 1) |-> IF k = m + 1 THEN Step(f, k) ELSE f[k]]
  <2>2. g = [k \in 1..(m + 1) |-> Step(g, k)]
    <3>1. ASSUME NEW k \in 1..(m + 1) PROVE g[k] = Step(g, k)
      <4>1. k = 1 \/ (k - 1 \in 1..(m + 1) /\ k - 1 # m + 1)
        OBVIOUS
      <4>2. k # 1 => g[k - 1] = f[k - 1]
        BY <4>1
      <4>3. g[k] = IF k = m + 1 THEN Step(f, k) ELSE f[k]
        OBVIOUS
      <4>4. k # m + 1 => f[k] = Step(f, k)
        <5>1. k # m + 1 => k \in 1..m
          OBVIOUS
        <5> QED BY <2>1, <5>1 DEF IsFlattening
      <4> HIDE DEF g
      <4> QED BY <4>2, <4>3, <4>4
    <3> HIDE DEF Step
    <3> QED BY <3>1
  <2>3. m + 1 \in 0..n
    OBVIOUS
  <2> HIDE DEF g
  <2> QED BY <2>2, <2>3 DEF IsFlattening
<1>3. \A k \in 0..n : k \in S
  <2> HIDE DEF S
  <2> QED BY <1>1, <1>2, CountingUp
<1> QED BY <1>3

LEMMA FlattenType ==
  ASSUME NEW T, NEW seqs \in Seq(Seq(T))
  PROVE  FlattenSeq(seqs) \in Seq(T)
<1> DEFINE n == Len(seqs)
           f == CHOOSE g : IsFlattening(seqs, g, n)
<1>1. n \in Nat
  BY LenProperties
<1>2. IsFlattening(seqs, f, n)
  <2> HIDE DEF n
  <2> QED BY <1>1, FlatteningExists
<1>3. FlattenSeq(seqs) = IF n = 0 THEN seqs ELSE f[n]
  BY DEF FlattenSeq, IsFlattening
<1> HIDE DEF f
<1>4. \A k \in 1..n : f[k] = IF k = 1 THEN seqs[k] ELSE f[k - 1] \o seqs[k]
  BY <1>2 DEF IsFlattening
<1>5. \A k \in 1..n : seqs[k] \in Seq(T)
  BY ElementOfSeq
<1> DEFINE S == {k \in 0..n : k > 0 => f[k] \in Seq(T)}
<1>6. 0 \in S
  BY <1>1
<1> HIDE DEF n
<1>7. ASSUME NEW k \in 0..(n - 1), k \in S PROVE k + 1 \in S
  <2>1. k + 1 \in 1..n /\ (k + 1) - 1 = k /\ k + 1 \in 0..n /\ (k + 1 = 1 \/ k > 0)
    BY <1>1
  <2>2. f[k + 1] \in Seq(T)
    <3>1. CASE k + 1 = 1
      BY <1>4, <1>5, <2>1, <3>1
    <3>2. CASE k + 1 # 1
      <4>1. f[k] \in Seq(T) /\ seqs[k + 1] \in Seq(T)
        BY <1>5, <1>7, <2>1, <3>2
      <4>2. f[k + 1] = f[k] \o seqs[k + 1]
        BY <1>4, <2>1, <3>2
      <4> QED BY <4>1, <4>2, ConcatProperties
    <3> QED BY <3>1, <3>2
  <2> QED BY <2>1, <2>2
<1>8. \A k \in 0..n : k \in S
  <2> HIDE DEF S
  <2> QED BY <1>1, <1>6, <1>7, CountingUp
<1>9. CASE n = 0
  <2>1. seqs = <<>>
    BY <1>9, EmptySeq DEF n
  <2> QED BY <1>3, <1>9, <2>1, EmptySeq
<1>10. CASE n # 0
  <2>1. n \in 0..n /\ n > 0
    BY <1>1, <1>10
  <2> QED BY <1>3, <1>8, <1>10, <2>1
<1> QED BY <1>9, <1>10

LEMMA RemainsAt ==
  ASSUME NEW blocks \in Seq(OpenBlocks), NEW i \in Nat
  PROVE  Remains(blocks, i) \in Seq(ZonesAt(i))
<1> DEFINE pairs == [k \in DOMAIN blocks |-> <<EndedAt(blocks[k], i), BreakerOf(blocks[k], i)>>]
<1>1. DOMAIN blocks = 1..Len(blocks) /\ Len(blocks) \in Nat
  BY LenProperties
<1>2. ASSUME NEW z \in OpenBlocks
      PROVE  EndedAt(z, i) \in ZonesAt(i) /\ BreakerOf(z, i) \in ZonesAt(i)
  <2>1. z \in BlockZones /\ z.kind = "order_block"
    BY DEF OpenBlocks
  <2>2. z = [kind |-> z.kind, bias |-> z.bias, top |-> z.top, bottom |-> z.bottom,
             start |-> z.start, end |-> z.end, inverse |-> z.inverse]
    BY <2>1 DEF BlockZones
  <2>3. EndedAt(z, i) = [kind |-> z.kind, bias |-> z.bias, top |-> z.top, bottom |-> z.bottom,
                         start |-> z.start, end |-> i, inverse |-> z.inverse]
    BY <2>2 DEF EndedAt
  <2>4. EndedAt(z, i) \in ZonesAt(i)
    BY <2>1, <2>3 DEF ZonesAt, BlockZones
  <2>5. BreakerOf(z, i) \in ZonesAt(i)
    <3>1. Flipped(z.bias) \in Directions
      BY DEF Flipped, Directions
    <3>2. z.top \in Int /\ z.bottom \in Int
      BY <2>1 DEF BlockZones
    <3> QED BY <3>1, <3>2 DEF BreakerOf, Zone, ZonesAt, BlockZones, None
  <2> QED BY <2>4, <2>5
<1>3. ASSUME NEW k \in 1..Len(blocks)
      PROVE  <<EndedAt(blocks[k], i), BreakerOf(blocks[k], i)>> \in Seq(ZonesAt(i))
  <2>1. PICK x, y : x = EndedAt(blocks[k], i) /\ y = BreakerOf(blocks[k], i)
    OBVIOUS
  <2>2. blocks[k] \in OpenBlocks
    BY ElementOfSeq
  <2>3. x \in ZonesAt(i) /\ y \in ZonesAt(i)
    BY <1>2, <2>1, <2>2
  <2>4. <<x, y>> \in Seq(ZonesAt(i))
    BY <2>3
  <2> QED BY <2>1, <2>4
<1>4. pairs \in Seq(Seq(ZonesAt(i)))
  <2>1. pairs = [k \in 1..Len(blocks) |-> <<EndedAt(blocks[k], i), BreakerOf(blocks[k], i)>>]
    BY <1>1
  <2> QED BY <1>1, <1>3, <2>1
<1>5. Remains(blocks, i) = FlattenSeq(pairs)
  BY DEF Remains
<1> HIDE DEF pairs
<1> QED BY <1>4, <1>5, FlattenType

LEMMA NewestType ==
  ASSUME NEW T, NEW seq \in Seq(T), NEW n \in Nat
  PROVE  Newest(seq, n) \in Seq(T)
<1> DEFINE l == Len(seq)
           m == Min({l, n})
<1>1. l \in Nat
  BY LenProperties
<1>2. m \in 0..l
  <2> HIDE DEF l
  <2>1. Min({l, n}) = IF l <= n THEN l ELSE n
    BY <1>1, MinIsIf
  <2> HIDE DEF m
  <2>2. m = IF l <= n THEN l ELSE n
    BY <2>1 DEF m
  <2> QED BY <1>1, <2>2
<1>3. Newest(seq, n) = SubSeq(seq, 1, m)
  BY DEF Newest
<1> HIDE DEF m
<1> QED BY <1>2, <1>3, SubSeqProperties

IsBlocking(series, f) ==
  /\ f[0] = BlockStart
  /\ \A i \in 1..Len(series) : f[i] = BlockStep(series, Swings(series), f[i - 1], i)

\* A settled bar does the same to the blocks.
LEMMA BlockStepStays ==
  ASSUME NEW a, NEW b, OneLonger(a, b), NEW i \in 1..(Len(a) - Lookback),
         NEW before, before.levels \in LevelsUpTo(i - 1)
  PROVE  /\ BlockStep(b, Swings(b), before, i) = BlockStep(a, Swings(a), before, i)
         /\ BlockStep(a, Swings(a), before, i).levels \in LevelsUpTo(i)
<1>1. PICK levels : levels = before.levels
  OBVIOUS
<1>2. PICK found : found = Reached(Swings(a), levels, i)
  OBVIOUS
<1>3. /\ found = Reached(Swings(b), levels, i)
      /\ BreaksUp(b, found, i) <=> BreaksUp(a, found, i)
      /\ BreaksDown(b, found, i) <=> BreaksDown(a, found, i)
      /\ Consumed(b, found, i) = Consumed(a, found, i)
      /\ Consumed(a, found, i) \in LevelsUpTo(i)
  BY <1>1, <1>2, ReachedStays
<1>4. i \in 1..Len(a) /\ b[i] = a[i]
  <2>1. Lookback \in Nat /\ Len(a) \in Nat
    BY LookbackAssumption, LongerTypes DEF LookbackAssumption
  <2>2. i \in 1..Len(a)
    BY <2>1
  <2> QED BY <2>2, LongerTypes
<1>5. /\ BlockOf(b, i, "bullish") = BlockOf(a, i, "bullish")
      /\ BlockOf(b, i, "bearish") = BlockOf(a, i, "bearish")
  BY <1>4, BlockOfStays
<1>6. /\ found = Reached(Swings(a), before.levels, i)
      /\ found = Reached(Swings(b), before.levels, i)
  BY <1>1, <1>2, <1>3
<1>7. BlockStep(a, Swings(a), before, i).levels = Consumed(a, found, i)
  BY <1>6 DEF BlockStep
<1>8. BlockStep(b, Swings(b), before, i) = BlockStep(a, Swings(a), before, i)
  BY <1>3, <1>4, <1>5, <1>6 DEF BlockStep
<1> QED BY <1>3, <1>7, <1>8

\* The state of the walk over the blocks.
BlocksOK(w) ==
  /\ w.levels \in [high : Nat, low : Nat]
  /\ w.zones \in Seq(BlockZones)
  /\ w.bulls \in Seq(OpenBlocks)
  /\ w.bears \in Seq(OpenBlocks)

LEMMA BlockStepLogs ==
  ASSUME NEW series \in Series, NEW i \in 1..Len(series), NEW before, BlocksOK(before),
         NEW after, after = BlockStep(series, Swings(series), before, i)
  PROVE  BlocksOK(after) /\ AddsTo(before.zones, after.zones, ZonesAt(i))
<1>1. i \in Nat
  BY SeriesType
<1>2. PICK levels : levels = before.levels
  OBVIOUS
<1>3. PICK found : found = Reached(Swings(series), levels, i)
  OBVIOUS
<1>4. Consumed(series, found, i) \in [high : Nat, low : Nat]
  BY <1>1, <1>2, <1>3, LevelsAreBars DEF BlocksOK
<1> DEFINE Gone(blocks) == {k \in DOMAIN blocks : ClosedThrough(blocks[k], series[i].close)}
           Stay(blocks) == (DOMAIN blocks) \ Gone(blocks)
           bulls == before.bulls
           bears == before.bears
           up == BreaksUp(series, found, i)
           down == BreaksDown(series, found, i)
           endedBulls == Picked(bulls, Gone(bulls))
           endedBears == Picked(bears, Gone(bears))
           oldBulls == Picked(bulls, Stay(bulls))
           oldBears == Picked(bears, Stay(bears))
           newBulls == IF up THEN BlockOf(series, i, "bullish") ELSE <<>>
           newBears == IF down THEN BlockOf(series, i, "bearish") ELSE <<>>
           first == Remains(endedBulls, i)
           second == Remains(endedBears, i)
<1>5. /\ after.levels = Consumed(series, found, i)
      /\ after.zones = before.zones \o first \o second
      /\ after.bulls = Newest(newBulls \o oldBulls, MaxBlocks)
      /\ after.bears = Newest(newBears \o oldBears, MaxBlocks)
  BY <1>2, <1>3 DEF BlockStep
<1>6. bulls \in Seq(OpenBlocks) /\ bears \in Seq(OpenBlocks) /\ before.zones \in Seq(BlockZones)
  BY DEF BlocksOK
<1> HIDE DEF bulls, bears, Gone, Stay
<1>7. /\ endedBulls \in Seq(OpenBlocks) /\ oldBulls \in Seq(OpenBlocks)
      /\ endedBears \in Seq(OpenBlocks) /\ oldBears \in Seq(OpenBlocks)
  BY <1>6, PickedMembers
<1>8. newBulls \in Seq(OpenBlocks) /\ newBears \in Seq(OpenBlocks)
  <2>1. <<>> \in Seq(OpenBlocks)
    BY EmptySeq
  <2>2. BlockOf(series, i, "bullish") \in Seq(OpenBlocks) /\ BlockOf(series, i, "bearish") \in Seq(OpenBlocks)
    <3>1. "bullish" \in Directions /\ "bearish" \in Directions
      BY DEF Directions
    <3> QED BY <3>1, BlockOfIsOpen
  <2> HIDE DEF up, down
  <2> QED BY <2>1, <2>2
<1> HIDE DEF endedBulls, endedBears, oldBulls, oldBears, newBulls, newBears
<1>9. first \in Seq(ZonesAt(i)) /\ second \in Seq(ZonesAt(i))
  BY <1>1, <1>7, RemainsAt
<1> HIDE DEF first, second
<1>10. ZonesAt(i) \in SUBSET BlockZones
  BY DEF ZonesAt
<1>11. AddsTo(before.zones, after.zones, ZonesAt(i)) /\ after.zones \in Seq(BlockZones)
  <2>1. PICK old, new : old = before.zones /\ new = after.zones
    OBVIOUS
  <2>2. old \in Seq(BlockZones) /\ new = (old \o first) \o second
    BY <1>5, <1>6, <2>1
  <2>3. AddsTo(old, new, ZonesAt(i)) /\ new \in Seq(BlockZones)
    BY <1>9, <1>10, <2>2, AddsTwice
  <2> QED BY <2>1, <2>3
<1>12. MaxBlocks \in Nat
  BY SmcProAssumption DEF SmcProAssumption
<1>13. after.bulls \in Seq(OpenBlocks)
  <2>1. newBulls \o oldBulls \in Seq(OpenBlocks)
    BY <1>7, <1>8, ConcatProperties
  <2> QED BY <1>5, <1>12, <2>1, NewestType
<1>14. after.bears \in Seq(OpenBlocks)
  <2>1. newBears \o oldBears \in Seq(OpenBlocks)
    BY <1>7, <1>8, ConcatProperties
  <2> QED BY <1>5, <1>12, <2>1, NewestType
<1>15. BlocksOK(after)
  BY <1>4, <1>5, <1>11, <1>13, <1>14 DEF BlocksOK
<1> QED BY <1>11, <1>15

LEMMA BlockLog ==
  ASSUME NEW series \in Series, NEW f, IsBlocking(series, f),
         NEW log, log = [i \in 0..Len(series) |-> f[i].zones],
         NEW at, at = [i \in 1..Len(series) |-> ZonesAt(i)]
  PROVE  IsLog(log, at, Len(series)) /\ BlocksOK(f[Len(series)])
<1> DEFINE n == Len(series)
           S == {i \in 0..n : BlocksOK(f[i])}
<1>1. n \in Nat
  BY SeriesType
<1>2. /\ f[0] = BlockStart
      /\ \A i \in 1..n : f[i] = BlockStep(series, Swings(series), f[i - 1], i)
  BY DEF IsBlocking
<1> HIDE DEF n
<1>3. 0 \in S
  <2>1. PICK w : w = f[0]
    OBVIOUS
  <2>2. w.levels = NoLevels /\ w.zones = <<>> /\ w.bulls = <<>> /\ w.bears = <<>>
    BY <1>2, <2>1 DEF BlockStart
  <2>3. NoLevels \in [high : Nat, low : Nat]
    BY DEF NoLevels, None
  <2>4. <<>> \in Seq(BlockZones) /\ <<>> \in Seq(OpenBlocks)
    BY EmptySeq
  <2>5. BlocksOK(w)
    BY <2>2, <2>3, <2>4 DEF BlocksOK
  <2>6. 0 \in 0..n
    BY <1>1
  <2> QED BY <2>1, <2>5, <2>6
<1>4. ASSUME NEW i \in 1..n, i - 1 \in S
      PROVE  i \in S /\ AddsTo(f[i - 1].zones, f[i].zones, ZonesAt(i))
  <2>1. PICK before, after : before = f[i - 1] /\ after = f[i]
    OBVIOUS
  <2>2. BlocksOK(before) /\ after = BlockStep(series, Swings(series), before, i)
    BY <1>2, <1>4, <2>1
  <2>3. i \in 1..Len(series) /\ i \in 0..n
    BY <1>1 DEF n
  <2>4. BlocksOK(after) /\ AddsTo(before.zones, after.zones, ZonesAt(i))
    BY <2>2, <2>3, BlockStepLogs
  <2> QED BY <2>1, <2>3, <2>4
<1>5. \A i \in 0..n : i \in S
  <2>1. ASSUME NEW i \in 0..(n - 1), i \in S PROVE i + 1 \in S
    <3>1. i + 1 \in 1..n /\ (i + 1) - 1 = i
      BY <1>1
    <3> HIDE DEF S
    <3> QED BY <1>4, <2>1, <3>1
  <2> HIDE DEF S
  <2> QED BY <1>1, <1>3, <2>1, CountingUp
<1>6. log[0] = <<>>
  BY <1>1, <1>2 DEF BlockStart, n
<1>7. ASSUME NEW i \in 1..n PROVE AddsTo(log[i - 1], log[i], at[i])
  <2>1. i - 1 \in 0..n /\ i \in 0..n
    BY <1>1
  <2>2. /\ at[i] = ZonesAt(i)
        /\ log[i] = f[i].zones /\ log[i - 1] = f[i - 1].zones
    BY <2>1 DEF n
  <2>3. AddsTo(f[i - 1].zones, f[i].zones, ZonesAt(i))
    BY <1>4, <1>5, <2>1
  <2> QED BY <2>2, <2>3
<1>8. BlocksOK(f[n])
  <2>1. n \in 0..n
    BY <1>1
  <2> QED BY <1>5, <2>1
<1> QED BY <1>6, <1>7, <1>8 DEF IsLog, n

LEMMA BlockWalksAgree ==
  ASSUME NEW a, NEW b, OneLonger(a, b), NEW f, IsBlocking(a, f), NEW g, IsBlocking(b, g),
         NEW from \in 0..Len(a), \A i \in 1..from : i <= Settled(a)
  PROVE  f[from] = g[from]
<1> DEFINE S == {i \in 0..from : f[i] = g[i] /\ f[i].levels \in LevelsUpTo(i)}
<1>1. from \in Nat /\ Lookback \in Nat /\ Len(a) \in Nat /\ Len(b) = Len(a) + 1
  BY LookbackAssumption, LongerTypes DEF LookbackAssumption
<1>2. 0 \in S
  <2>1. f[0] = BlockStart /\ g[0] = BlockStart
    BY DEF IsBlocking
  <2>2. BlockStart.levels \in LevelsUpTo(0)
    BY DEF BlockStart, NoLevels, LevelsUpTo, None
  <2>3. 0 \in 0..from
    BY <1>1
  <2> QED BY <2>1, <2>2, <2>3
<1>3. ASSUME NEW i \in 0..(from - 1), i \in S PROVE i + 1 \in S
  <2> DEFINE k == i + 1
  <2>1. k \in 1..from /\ k - 1 = i /\ k \in 0..from
    BY <1>1
  <2> HIDE DEF k
  <2>2. k \in 1..(Len(a) - Lookback) /\ k \in 1..Len(a) /\ k \in 1..Len(b)
    BY <1>1, <2>1 DEF Settled
  <2>3. PICK before : before = f[i]
    OBVIOUS
  <2>4. before.levels \in LevelsUpTo(k - 1) /\ g[i] = before
    BY <1>3, <2>1, <2>3
  <2>5. f[k] = BlockStep(a, Swings(a), before, k) /\ g[k] = BlockStep(b, Swings(b), before, k)
    BY <2>1, <2>2, <2>3, <2>4 DEF IsBlocking
  <2>6. /\ BlockStep(b, Swings(b), before, k) = BlockStep(a, Swings(a), before, k)
        /\ BlockStep(a, Swings(a), before, k).levels \in LevelsUpTo(k)
    BY <2>2, <2>4, BlockStepStays
  <2> QED BY <2>1, <2>5, <2>6 DEF k
<1>4. from \in S
  <2>1. from \in 0..from
    BY <1>1
  <2> HIDE DEF S
  <2> QED BY <1>1, <1>2, <1>3, <2>1, CountingUp
<1> QED BY <1>4

LEMMA ZonesGrow ==
  ASSUME NEW series \in Series, NEW f, IsBlocking(series, f), NEW n \in Int,
         NEW from \in 0..Len(series), \A i \in Nat : i > from => i > n,
         NEW w, w = f[Len(series)]
  PROVE  GrowsBy(BlockZones, f[from].zones, w.zones \o w.bulls \o w.bears, ZonesAfter(n))
<1> DEFINE l == Len(series)
           log == [i \in 0..l |-> f[i].zones]
           at == [i \in 1..l |-> ZonesAt(i)]
           late == ZonesAfter(n)
<1>1. l \in Nat /\ l \in 0..l
  BY SeriesType
<1>2. IsLog(log, at, l) /\ BlocksOK(w)
  <2>1. PICK g : g = log
    OBVIOUS
  <2>2. PICK h : h = at
    OBVIOUS
  <2> HIDE DEF log, at
  <2>3. g = [i \in 0..Len(series) |-> f[i].zones]
    BY <2>1 DEF log
  <2>4. h = [i \in 1..Len(series) |-> ZonesAt(i)]
    BY <2>2 DEF at
  <2>5. IsLog(g, h, Len(series)) /\ BlocksOK(f[Len(series)])
    BY <2>3, <2>4, BlockLog
  <2> QED BY <2>1, <2>2, <2>5
<1>3. log[from] = f[from].zones /\ log[l] = w.zones
  BY <1>1
<1>4. \A i \in 1..l : at[i] \subseteq BlockZones
  BY DEF ZonesAt
<1>5. \A i \in (from + 1)..l : at[i] \subseteq late
  <2> SUFFICES ASSUME NEW i \in (from + 1)..l, NEW z \in at[i] PROVE z \in late
    OBVIOUS
  <2>1. i \in Nat /\ i > from /\ i \in 1..l
    BY <1>1
  <2>2. z \in BlockZones /\ ((z.kind = "order_block" /\ z.end = i) \/ (z.kind = "breaker_block" /\ z.start = i))
    BY <2>1 DEF ZonesAt
  <2>3. ~(i <= n)
    BY <2>1
  <2>4. ~EndedBy(z, n)
    BY <2>2, <2>3 DEF EndedBy
  <2> QED BY <2>2, <2>4 DEF ZonesAfter
<1>6. late \in SUBSET BlockZones
  BY DEF ZonesAfter
<1> HIDE DEF log, at, l, late
<1>7. GrowsBy(BlockZones, log[from], log[l], late)
  <2>1. from \in 0..l
    BY DEF l
  <2> QED BY <1>1, <1>2, <1>4, <1>5, <1>6, <2>1, LogGrows
<1>8. w.bulls \in Seq(late) /\ w.bears \in Seq(late)
  <2>1. OpenBlocks \subseteq late
    BY DEF OpenBlocks, ZonesAfter, EndedBy, late
  <2>2. w.bulls \in Seq(OpenBlocks) /\ w.bears \in Seq(OpenBlocks)
    BY <1>2 DEF BlocksOK
  <2> QED BY <2>1, <2>2, SeqOfMore
<1>9. GrowsBy(BlockZones, f[from].zones, w.zones \o w.bulls \o w.bears, late)
  <2>1. PICK old, new, bulls, bears :
          old = f[from].zones /\ new = w.zones /\ bulls = w.bulls /\ bears = w.bears
    OBVIOUS
  <2>2. GrowsBy(BlockZones, old, new, late) /\ bulls \in Seq(late) /\ bears \in Seq(late)
    BY <1>3, <1>7, <1>8, <2>1
  <2>3. GrowsBy(BlockZones, old, new \o bulls, late)
    BY <1>6, <2>2, GrowsOn
  <2>4. PICK more : more = new \o bulls
    OBVIOUS
  <2>5. GrowsBy(BlockZones, old, more \o bears, late)
    BY <1>6, <2>2, <2>3, <2>4, GrowsOn
  <2> QED BY <2>1, <2>4, <2>5
<1> QED BY <1>9 DEF late

LEMMA EndedStay ==
  ASSUME NEW a, NEW b, OneLonger(a, b)
  PROVE  EndedUpTo(b, Settled(a)) = EndedUpTo(a, Settled(a))
<1>1. PICK f : IsBlocking(a, f) /\ BlockWalk(a) = f[Len(a)]
  BY LongerTypes, BlocksWalk DEF IsBlocking
<1>2. PICK g : IsBlocking(b, g) /\ BlockWalk(b) = g[Len(b)]
  BY LongerTypes, BlocksWalk DEF IsBlocking
<1>3. PICK from \in Nat : /\ from \in 0..Len(a) /\ from \in 0..Len(b)
                          /\ \A i \in 1..from : i <= Settled(a)
                          /\ \A i \in Nat : i > from => i > Settled(a)
  BY SettledBars
<1>4. PICK n \in Int : n = Settled(a)
  BY LookbackAssumption, LongerTypes DEF LookbackAssumption, Settled
<1>5. PICK old : old = f[from].zones
  OBVIOUS
<1>6. f[from] = g[from]
  BY <1>1, <1>2, <1>3, BlockWalksAgree
<1> DEFINE late == ZonesAfter(n)
           early == {z \in BlockZones : EndedBy(z, n)}
<1>7. PICK one, two : one = OrderBlocks(a) /\ two = OrderBlocks(b)
  OBVIOUS
<1>8. GrowsBy(BlockZones, old, one, late)
  <2>1. PICK w : w = f[Len(a)]
    OBVIOUS
  <2>2. one = w.zones \o w.bulls \o w.bears
    BY <1>1, <1>7, <2>1 DEF OrderBlocks
  <2>3. GrowsBy(BlockZones, f[from].zones, w.zones \o w.bulls \o w.bears, ZonesAfter(n))
    BY <1>1, <1>3, <1>4, <2>1, LongerTypes, ZonesGrow
  <2> QED BY <1>5, <2>2, <2>3
<1>9. GrowsBy(BlockZones, old, two, late)
  <2>1. PICK w : w = g[Len(b)]
    OBVIOUS
  <2>2. two = w.zones \o w.bulls \o w.bears
    BY <1>2, <1>7, <2>1 DEF OrderBlocks
  <2>3. GrowsBy(BlockZones, g[from].zones, w.zones \o w.bulls \o w.bears, ZonesAfter(n))
    BY <1>2, <1>3, <1>4, <2>1, LongerTypes, ZonesGrow
  <2> QED BY <1>5, <1>6, <2>2, <2>3
<1> DEFINE p == {k \in DOMAIN one : EndedBy(one[k], n)}
           q == {k \in DOMAIN two : EndedBy(two[k], n)}
<1>10. /\ \A k \in DOMAIN one : one[k] \in BlockZones
       /\ \A k \in DOMAIN two : two[k] \in BlockZones
  <2>1. one \in Seq(BlockZones) /\ two \in Seq(BlockZones)
    BY <1>8, <1>9 DEF GrowsBy
  <2> QED BY <2>1, LenProperties, ElementOfSeq
<1>11. /\ \A k \in DOMAIN one : k \in p <=> one[k] \in early
       /\ \A k \in DOMAIN two : k \in q <=> two[k] \in early
  BY <1>10
<1>12. late \cap early = {}
  BY DEF ZonesAfter
<1>13. EndedUpTo(a, n) = Picked(one, p) /\ EndedUpTo(b, n) = Picked(two, q)
  BY <1>7 DEF EndedUpTo
<1> HIDE DEF p, q, late, early
<1>14. Picked(one, p) = Picked(two, q)
  BY <1>8, <1>9, <1>11, <1>12, SamePicks
<1> QED BY <1>4, <1>13, <1>14

\* For any bars and settings, the breaks of the settled bars and the blocks that
\* ended by then are the same in every longer series
\* (patterns_common.py:61, smc.py:17-76, smc_pro.py:86-193).
THEOREM SettledIsFinal == Growth => SettledStructureFinal
<1> DEFINE A == /\ BreaksUpTo(bars', Len(bars) - Lookback) = BreaksUpTo(bars, Len(bars) - Lookback)
                /\ EndedUpTo(bars', Len(bars) - Lookback) = EndedUpTo(bars, Len(bars) - Lookback)
<1>1. SeriesInv /\ SeriesInv' /\ [AnotherBar]_bars => [A]_bars
  <2> SUFFICES ASSUME SeriesInv, SeriesInv', AnotherBar PROVE A
    OBVIOUS
  <2>1. PICK a, b : a = bars /\ b = bars' /\ OneLonger(a, b)
    BY StepIsLonger
  <2>2. /\ BreaksUpTo(b, Settled(a)) = BreaksUpTo(a, Settled(a))
        /\ EndedUpTo(b, Settled(a)) = EndedUpTo(a, Settled(a))
    BY <2>1, BreaksStay, EndedStay
  <2> QED BY <2>1, <2>2 DEF Settled
<1> QED BY <1>1, GrowthSeriesInv, PTL DEF Growth, SettledStructureFinal

-----------------------------------------------------------------------------
(* The invariants.                                                         *)

\* The candle table and the bars in progress are of whole minutes.
FeedShape ==
  /\ IsFiniteSet(DOMAIN rows)
  /\ \A row \in DOMAIN rows : row[2] \in Nat /\ rows[row] \in BOOLEAN
  /\ \A i \in DOMAIN forming : forming[i] \in Minutes
  /\ reopened \in BOOLEAN

AlertType == [key : Monitor!Keys, bar : Int]

ClientShape ==
  /\ chatIds \in [1..Chats -> Nat]
  /\ serverIds \in [1..Chats -> Nat]
  /\ failed \in Seq(1..Chats)
  /\ alerts \in Seq(AlertType)
  /\ cutShort \subseteq 1..Len(alerts)

\* The message on its way is about the last alert, and no process that ended was
\* sending it.
NewestIsSent ==
  outbox # Monitor!Telegram!Nothing =>
    /\ outbox \in [message : {Len(alerts)}, chat : 1..Chats, retried : BOOLEAN]
    /\ Len(alerts) >= 1
    /\ Len(alerts) \notin cutShort

\* The client knows no id that the chat has not had, and after a retry it knows one
\* that the chat was given.
IdsAreKnown ==
  /\ \A chat \in 1..Chats : chatIds[chat] <= serverIds[chat]
  /\ outbox # Monitor!Telegram!Nothing /\ outbox.retried => chatIds[outbox.chat] >= 1

\* No failure of the chat's own and no second migration: the alert has arrived.
Served(a, chat) ==
  serverIds[chat] <= 1 /\ (\A k \in DOMAIN failed : failed[k] # chat)
    => <<a, chat>> \in delivered

\* The client is past the chat with this alert.
Past(a, chat) == outbox.message = a => chat < outbox.chat

ServedSoFar ==
  \A a \in 1..Len(alerts) \ cutShort : \A chat \in 1..Chats : Past(a, chat) => Served(a, chat)

ServedIInv == ClientShape /\ NewestIsSent /\ IdsAreKnown /\ ServedSoFar

\* While no closed row is opened again, a closed bar stays closed: what an alert was
\* about, and what was seen last, are among the key's bars, and nothing was alerted
\* on beyond what was seen.
AlertedWereClosed ==
  \A key \in Monitor!Keys : \A k \in DOMAIN alerts :
    alerts[k].key = key => alerts[k].bar \in Monitor!BarsOf(key)

SeenWereClosed ==
  \A key \in DOMAIN lastSeen : key \in Monitor!Keys /\ lastSeen[key] \in Monitor!BarsOf(key)

AlertedWereSeen ==
  \A key \in DOMAIN lastSeen : \A k \in DOMAIN alerts :
    alerts[k].key = key => alerts[k].bar <= lastSeen[key]

Forward == AlertedWereClosed /\ SeenWereClosed /\ AlertedWereSeen /\ AlertsGoForward

ForwardIInv == ~reopened => Forward

IInv == FeedShape /\ ServedIInv /\ ForwardIInv

-----------------------------------------------------------------------------
(* The bars of a key.                                                      *)

LEMMA BucketEndIsInt ==
  ASSUME PipelineAssumption, NEW m \in Nat, NEW n \in Nat \ {0}
  PROVE  Monitor!Resample!BucketEnd(m, n) \in Int
<1>1. DayMinutes \in Nat \ {0} /\ SessionOpen \in Int /\ SessionClose \in Int
  BY DEF PipelineAssumption, Monitor!Resample!ResamplingAssumption
<1>2. Monitor!Resample!Day(m) \in Int
  BY <1>1, DivMod DEF Monitor!Resample!Day
<1>3. PICK open \in Int : open = Monitor!Resample!Opening(m)
  BY <1>1, <1>2 DEF Monitor!Resample!Opening
<1>4. PICK close \in Int : close = Monitor!Resample!Closing(m)
  BY <1>1, <1>2 DEF Monitor!Resample!Closing
<1>5. PICK q \in Int : q = (m - open) \div n
  BY <1>3, DivMod
<1>6. Monitor!Resample!BucketStart(m, n) + n \in Int
  BY <1>3, <1>5 DEF Monitor!Resample!BucketStart
<1> QED BY <1>4, <1>6, MinOfTwo DEF Monitor!Resample!BucketEnd, Monitor!Resample!Min, Min

LEMMA KeyMinutes ==
  ASSUME PipelineAssumption, NEW key \in Monitor!Keys
  PROVE  key[2] \in Nat \ {0}
BY DEF PipelineAssumption, Monitor!AlertsAssumption, Monitor!Keys

\* The closed minutes of an instrument.
ClosedMinutes(i) == {row[2] : row \in {r \in DOMAIN rows : r[1] = i /\ rows[r]}}

LEMMA ClosedMinutesFinite ==
  ASSUME FeedShape, NEW i
  PROVE  ClosedMinutes(i) \in SUBSET Nat /\ IsFiniteSet(ClosedMinutes(i))
<1> DEFINE closed == {r \in DOMAIN rows : r[1] = i /\ rows[r]}
<1>1. IsFiniteSet(closed)
  BY FS_Subset DEF FeedShape
<1>2. IsFiniteSet({row[2] : row \in closed})
  <2> DEFINE minute == [row \in closed |-> row[2]]
  <2>1. IsFiniteSet({minute[row] : row \in closed})
    <3> HIDE DEF closed
    <3> QED BY <1>1, ImageIsFinite
  <2> QED BY <2>1
<1> QED BY <1>2 DEF ClosedMinutes, FeedShape

\* A key's bars are finitely many whole numbers, so there is a newest.
LEMMA BarsAreInts ==
  ASSUME PipelineAssumption, FeedShape, NEW key \in Monitor!Keys
  PROVE  Monitor!BarsOf(key) \in SUBSET Int /\ IsFiniteSet(Monitor!BarsOf(key))
<1> DEFINE closed == ClosedMinutes(key[1])
<1>1. closed \in SUBSET Nat /\ IsFiniteSet(closed)
  BY ClosedMinutesFinite
<1>2. key[2] \in Nat \ {0}
  BY KeyMinutes
<1>3. Monitor!BarsOf(key) = Monitor!Resample!ClosedBarTimes(closed, key[2])
  BY DEF Monitor!BarsOf, ClosedMinutes
<1> HIDE DEF closed
<1>4. IsFiniteSet({m + 1 : m \in closed}) /\ {m + 1 : m \in closed} \in SUBSET Int
  <2> DEFINE end == [m \in closed |-> m + 1]
  <2>1. IsFiniteSet({end[m] : m \in closed})
    BY <1>1, ImageIsFinite
  <2>2. {end[m] : m \in closed} = {m + 1 : m \in closed}
    OBVIOUS
  <2> QED BY <1>1, <2>1, <2>2
<1> DEFINE completing == Monitor!Resample!Completing(closed, key[2])
<1>5. completing \in SUBSET closed
  BY DEF Monitor!Resample!Completing, Monitor!Resample!OnTradingDays
<1> HIDE DEF completing
<1>6. IsFiniteSet(completing) /\ completing \in SUBSET Nat
  BY <1>1, <1>5, FS_Subset
<1> DEFINE ends == {Monitor!Resample!BucketEnd(m, key[2]) : m \in completing}
<1>7. IsFiniteSet(ends)
  <2> DEFINE end == [m \in completing |-> Monitor!Resample!BucketEnd(m, key[2])]
  <2>1. IsFiniteSet({end[m] : m \in completing})
    BY <1>6, ImageIsFinite
  <2>2. {end[m] : m \in completing} = ends
    OBVIOUS
  <2> QED BY <2>1, <2>2
<1>8. ends \in SUBSET Int
  BY <1>2, <1>6, BucketEndIsInt
<1> QED BY <1>3, <1>4, <1>7, <1>8 DEF Monitor!Resample!ClosedBarTimes, completing

\* As long as no closed row is opened again, a bar that is closed stays closed.
LEMMA BarsStay ==
  ASSUME NEW key, \A row \in DOMAIN rows : rows[row] => row \in DOMAIN rows' /\ rows'[row]
  PROVE  Monitor!BarsOf(key) \subseteq Monitor!BarsOf(key)'
<1> DEFINE before == ClosedMinutes(key[1])
           after == ClosedMinutes(key[1])'
<1>1. before \subseteq after
  BY DEF ClosedMinutes
<1>2. /\ Monitor!BarsOf(key) = Monitor!Resample!ClosedBarTimes(before, key[2])
      /\ Monitor!BarsOf(key)' = Monitor!Resample!ClosedBarTimes(after, key[2])
  BY DEF Monitor!BarsOf, ClosedMinutes
<1> HIDE DEF before, after
<1>3. Monitor!Resample!ClosedBarTimes(before, key[2])
        \subseteq Monitor!Resample!ClosedBarTimes(after, key[2])
  BY <1>1 DEF Monitor!Resample!ClosedBarTimes, Monitor!Resample!Completing,
              Monitor!Resample!OnTradingDays
<1> QED BY <1>2, <1>3

LEMMA NewestIsLast ==
  ASSUME PipelineAssumption, FeedShape, NEW key \in Monitor!Keys, Monitor!EnoughBars(key)
  PROVE  /\ Monitor!Newest(key) \in Monitor!BarsOf(key)
         /\ Monitor!Newest(key) \in Int
         /\ \A bar \in Monitor!BarsOf(key) : bar <= Monitor!Newest(key)
<1> DEFINE closed == Monitor!BarsOf(key)
<1>1. closed \in SUBSET Int /\ IsFiniteSet(closed)
  BY BarsAreInts
<1>2. closed # {}
  <2>1. MinBars \in Nat \ {0} /\ Cardinality(closed) >= MinBars
    BY DEF PipelineAssumption, Monitor!AlertsAssumption, Monitor!EnoughBars,
           Monitor!Cardinality, Cardinality
  <2>2. Cardinality(closed) # 0
    BY <1>1, <2>1, FS_CardinalityType
  <2> QED BY <2>2, FS_EmptySet
<1> HIDE DEF closed
<1>3. Max(closed) \in closed /\ \A bar \in closed : Max(closed) >= bar
  BY <1>1, <1>2, MaxOfFinite
<1>4. \A bar \in closed : bar <= Max(closed)
  BY <1>1, <1>3
<1>5. Monitor!Newest(key) = Max(closed)
  BY DEF Monitor!Newest, closed, Max, Monitor!Max
<1> QED BY <1>1, <1>3, <1>4, <1>5 DEF closed

-----------------------------------------------------------------------------
(* The writers' steps.                                                     *)

RowsShape ==
  /\ IsFiniteSet(DOMAIN rows)
  /\ \A row \in DOMAIN rows : row[2] \in Nat /\ rows[row] \in BOOLEAN

LEMMA WriteRow ==
  ASSUME PipelineAssumption, FeedShape, NEW i, NEW m \in Minutes, NEW closed \in BOOLEAN,
         rows' = Feed!WithRow(<<i, m>>, closed)
  PROVE  RowsShape' /\ DOMAIN rows \subseteq DOMAIN rows'
<1>1. DOMAIN rows' = DOMAIN rows \cup {<<i, m>>}
  BY DEF Feed!WithRow
<1>2. IsFiniteSet(DOMAIN rows')
  BY <1>1, FS_AddElement DEF FeedShape
<1>3. ASSUME NEW row \in DOMAIN rows' PROVE row[2] \in Nat /\ rows'[row] \in BOOLEAN
  <2>1. CASE row = <<i, m>>
    BY <2>1, <1>3 DEF Feed!WithRow, PipelineAssumption
  <2>2. CASE row # <<i, m>>
    BY <2>2, <1>1, <1>3 DEF Feed!WithRow, FeedShape
  <2> QED BY <2>1, <2>2
<1> QED BY <1>1, <1>2, <1>3 DEF RowsShape

\* No row goes away, and a step that opens no closed row leaves them all closed.
LEMMA FeedingStep ==
  ASSUME PipelineAssumption, FeedShape, Feeding
  PROVE  /\ FeedShape'
         /\ ~reopened' =>
              /\ ~reopened
              /\ \A row \in DOMAIN rows : rows[row] => row \in DOMAIN rows' /\ rows'[row]
<1>1. RowsShape /\ \A i \in DOMAIN forming : forming[i] \in Minutes
  BY DEF FeedShape, RowsShape
<1> DEFINE Wrote == RowsShape' /\ DOMAIN rows \subseteq DOMAIN rows'
           Forms == \A i \in DOMAIN forming' : forming'[i] \in Minutes
<1>3. Write => Wrote /\ Forms
  <2>1. ASSUME NEW i \in Instruments, Feed!Begin(i) PROVE Wrote /\ Forms
    BY <1>1, <2>1 DEF Feed!Begin, RowsShape
  <2>2. ASSUME NEW i \in Instruments, Feed!Advance(i) PROVE Wrote /\ Forms
    <3>1. Wrote
      BY <1>1, <2>2, WriteRow DEF Feed!Advance
    <3>2. Forms
      BY <1>1, <2>2 DEF Feed!Advance
    <3> QED BY <3>1, <3>2
  <2>3. ASSUME NEW i \in Instruments, Feed!Progress(i) \/ Feed!Flush(i) PROVE Wrote /\ Forms
    <3>1. Wrote
      BY <1>1, <2>3, WriteRow DEF Feed!Progress, Feed!Flush
    <3> QED BY <1>1, <2>3, <3>1 DEF Feed!Progress, Feed!Flush
  <2>4. ASSUME NEW i \in Instruments, Feed!Fill(i) PROVE Wrote /\ Forms
    <3>1. PICK m \in Minutes : rows' = Feed!WithRow(<<i, m>>, TRUE)
      BY <2>4 DEF Feed!Fill
    <3>2. Wrote
      BY <3>1, WriteRow
    <3> QED BY <1>1, <2>4, <3>2 DEF Feed!Fill
  <2>5. ASSUME Feed!Stop PROVE Wrote /\ Forms
    BY <1>1, <2>5 DEF Feed!Stop, RowsShape
  <2> HIDE DEF Wrote, Forms
  <2> QED BY <2>1, <2>2, <2>3, <2>4, <2>5 DEF Write, TickOf
<1>4. Wrote /\ Forms
  BY <1>3 DEF Feeding
<1>5. /\ reopened' \in BOOLEAN
      /\ ~reopened' => ~reopened /\ \A row \in DOMAIN rows : ~(rows[row] /\ ~rows'[row])
  BY DEF Feeding
<1>6. ASSUME ~reopened', NEW row \in DOMAIN rows, rows[row]
      PROVE  row \in DOMAIN rows' /\ rows'[row]
  BY <1>4, <1>5, <1>6 DEF RowsShape
<1>7. FeedShape'
  BY <1>4, <1>5 DEF FeedShape, RowsShape
<1> HIDE DEF Wrote, Forms
<1> QED BY <1>5, <1>6, <1>7

-----------------------------------------------------------------------------
(* Every chat is served.                                                   *)

LEMMA OutboxCases ==
  ASSUME ClientShape, NewestIsSent, outbox # Monitor!Telegram!Nothing
  PROVE  \E c \in 1..Chats, r \in BOOLEAN :
           /\ outbox = Monitor!Telegram!Sending(Len(alerts), c, r)
           /\ Len(alerts) \in Nat \ {0}
           /\ Len(alerts) \notin cutShort
<1>1. outbox \in [message : {Len(alerts)}, chat : 1..Chats, retried : BOOLEAN]
  BY DEF NewestIsSent
<1>2. Len(alerts) \in Nat
  BY LenProperties DEF ClientShape
<1> QED BY <1>1, <1>2 DEF NewestIsSent, Monitor!Telegram!Sending

\* What was served stays so: failures and migrations are not undone.
LEMMA ServedStays ==
  ASSUME ClientShape, NEW a, NEW chat \in 1..Chats, Served(a, chat),
         serverIds'[chat] \in Nat, serverIds[chat] <= serverIds'[chat],
         \A k \in DOMAIN failed : k \in DOMAIN failed' /\ failed'[k] = failed[k],
         delivered \subseteq delivered'
  PROVE  Served(a, chat)'
<1>1. serverIds[chat] \in Nat
  BY DEF ClientShape
<1>2. serverIds'[chat] <= 1 => serverIds[chat] <= 1
  BY <1>1
<1> QED BY <1>2 DEF Served

\* The client goes on to the next chat, or is done, when this one is served.
LEMMA MovesOn ==
  ASSUME ServedIInv, NEW c \in 1..Chats, NEW r \in BOOLEAN, NEW n \in Nat \ {0},
         n = Len(alerts), n \notin cutShort,
         outbox = Monitor!Telegram!Sending(n, c, r), outbox' = Monitor!Telegram!NextChat,
         alerts' = alerts, cutShort' = cutShort, ClientShape',
         \A chat \in 1..Chats : chatIds'[chat] <= serverIds'[chat],
         \A a \in Nat, chat \in 1..Chats : Served(a, chat) => Served(a, chat)',
         Served(n, c)'
  PROVE  ServedIInv'
<1>1. outbox' = IF c = Chats THEN [message |-> 0]
                             ELSE [message |-> n, chat |-> c + 1, retried |-> FALSE]
  BY DEF Monitor!Telegram!NextChat, Monitor!Telegram!Sending, Monitor!Telegram!Nothing
<1>2. c # Chats => c + 1 \in 1..Chats
  BY PipelineAssumption DEF PipelineAssumption, Monitor!Telegram!TelegramAssumption
<1>3. NewestIsSent'
  BY <1>1, <1>2 DEF NewestIsSent, Monitor!Telegram!Nothing
<1>4. IdsAreKnown'
  BY <1>1 DEF IdsAreKnown, Monitor!Telegram!Nothing
<1>5. ASSUME NEW a \in 1..n, a \notin cutShort, NEW chat \in 1..Chats, Past(a, chat)'
      PROVE  Served(a, chat)'
  <2>1. CASE a # n \/ chat < c
    <3>1. Past(a, chat)
      BY <2>1 DEF Past, Monitor!Telegram!Sending
    <3>2. Served(a, chat)
      BY <1>5, <3>1 DEF ServedIInv, ServedSoFar
    <3> QED BY <3>2
  <2>2. CASE a = n /\ chat = c
    BY <2>2
  <2>3. CASE a = n /\ c < chat
    <3>1. c # Chats
      BY <2>3
    <3>2. chat < c + 1
      BY <1>1, <1>5, <2>3, <3>1 DEF Past
    <3> QED BY <2>3, <3>2
  <2> QED BY <2>1, <2>2, <2>3
<1>6. ServedSoFar'
  BY <1>5 DEF ServedSoFar
<1> QED BY <1>3, <1>4, <1>6 DEF ServedIInv

LEMMA PostStep ==
  ASSUME ServedIInv, Monitor!Telegram!Post, alerts' = alerts, cutShort' = cutShort
  PROVE  ServedIInv'
<1>1. ClientShape /\ NewestIsSent /\ IdsAreKnown /\ outbox # Monitor!Telegram!Nothing
  BY DEF ServedIInv, Monitor!Telegram!Post, Monitor!Telegram!PostSucceeds,
         Monitor!Telegram!PostFails, Monitor!Telegram!PostMigrates, Monitor!Telegram!Posting
<1>2. PICK c \in 1..Chats, r \in BOOLEAN :
        /\ outbox = Monitor!Telegram!Sending(Len(alerts), c, r)
        /\ Len(alerts) \in Nat \ {0}
        /\ Len(alerts) \notin cutShort
  BY <1>1, OutboxCases
<1>3. PICK n \in Nat \ {0} : n = Len(alerts)
  BY <1>2
<1>4. /\ outbox = Monitor!Telegram!Sending(n, c, r) /\ n \notin cutShort
      /\ outbox.message = n /\ outbox.chat = c /\ outbox.retried = r
  BY <1>2, <1>3 DEF Monitor!Telegram!Sending
<1>5. /\ chatIds \in [1..Chats -> Nat] /\ serverIds \in [1..Chats -> Nat]
      /\ failed \in Seq(1..Chats)
      /\ \A chat \in 1..Chats : chatIds[chat] <= serverIds[chat]
  BY <1>1 DEF ClientShape, IdsAreKnown
<1>6. CASE Monitor!Telegram!PostSucceeds
  <2>1. /\ delivered' = delivered \cup {<<n, c>>}
        /\ outbox' = Monitor!Telegram!NextChat
        /\ UNCHANGED <<chatIds, serverIds, failed>>
    BY <1>4, <1>6 DEF Monitor!Telegram!PostSucceeds, Monitor!Telegram!Arrives
  <2>2. ClientShape'
    BY <1>1, <2>1 DEF ClientShape
  <2>3. \A a \in Nat, chat \in 1..Chats : Served(a, chat) => Served(a, chat)'
    BY <2>1 DEF Served
  <2>4. Served(n, c)'
    BY <2>1 DEF Served
  <2> QED BY <1>3, <1>4, <1>5, <2>1, <2>2, <2>3, <2>4, MovesOn
<1>7. CASE Monitor!Telegram!PostFails
  <2>1. /\ failed' = Append(failed, c)
        /\ delivered \subseteq delivered'
        /\ outbox' = Monitor!Telegram!NextChat
        /\ UNCHANGED <<chatIds, serverIds>>
    BY <1>4, <1>7 DEF Monitor!Telegram!PostFails, Monitor!Telegram!Arrives
  <2>2. /\ failed' \in Seq(1..Chats)
        /\ \A k \in DOMAIN failed : k \in DOMAIN failed' /\ failed'[k] = failed[k]
        /\ Len(failed) + 1 \in DOMAIN failed' /\ failed'[Len(failed) + 1] = c
    BY <1>5, <2>1, AppendProperties, LenProperties
  <2>3. ClientShape'
    BY <1>1, <2>1, <2>2 DEF ClientShape
  <2>4. \A a \in Nat, chat \in 1..Chats : Served(a, chat) => Served(a, chat)'
    BY <2>1, <2>2 DEF Served
  <2>5. Served(n, c)'
    BY <2>2 DEF Served
  <2> QED BY <1>3, <1>4, <1>5, <2>1, <2>3, <2>4, <2>5, MovesOn
<1>8. CASE Monitor!Telegram!PostMigrates
  <2>1. /\ chatIds' = [chatIds EXCEPT ![c] = serverIds[c]]
        /\ chatIds[c] # serverIds[c]
        /\ outbox' = IF r THEN Monitor!Telegram!NextChat ELSE [outbox EXCEPT !.retried = TRUE]
        /\ UNCHANGED <<serverIds, delivered, failed>>
    BY <1>4, <1>8 DEF Monitor!Telegram!PostMigrates, Monitor!Telegram!ToCurrentId
  <2>2. /\ chatIds' \in [1..Chats -> Nat]
        /\ \A chat \in 1..Chats : chatIds'[chat] <= serverIds'[chat]
    BY <1>5, <2>1
  <2>3. ClientShape'
    BY <1>1, <2>1, <2>2 DEF ClientShape
  <2>4. \A a \in Nat, chat \in 1..Chats : Served(a, chat) => Served(a, chat)'
    BY <2>1 DEF Served
  <2>5. CASE r
    <3>1. chatIds[c] >= 1
      BY <1>1, <1>4, <2>5 DEF IdsAreKnown
    <3>2. ~(serverIds[c] <= 1)
      BY <1>5, <2>1, <3>1
    <3>3. Served(n, c)'
      BY <2>1, <3>2 DEF Served
    <3> QED BY <1>3, <1>4, <2>1, <2>2, <2>3, <2>4, <2>5, <3>3, MovesOn
  <2>6. CASE ~r
    <3>1. outbox' = Monitor!Telegram!Sending(n, c, TRUE)
      BY <1>4, <2>1, <2>6 DEF Monitor!Telegram!Sending
    <3>2. outbox'.message = n /\ outbox'.chat = c /\ outbox'.retried = TRUE
      BY <3>1 DEF Monitor!Telegram!Sending
    <3>3. NewestIsSent'
      BY <1>3, <1>4, <3>1 DEF NewestIsSent, Monitor!Telegram!Sending
    <3>4. chatIds'[c] >= 1
      BY <1>5, <2>1
    <3>5. IdsAreKnown'
      BY <2>2, <3>2, <3>4 DEF IdsAreKnown
    <3>6. \A a, chat : Past(a, chat)' => Past(a, chat)
      BY <1>4, <3>2 DEF Past
    <3>7. ServedSoFar'
      BY <1>3, <2>4, <3>6 DEF ServedIInv, ServedSoFar
    <3> QED BY <2>3, <3>3, <3>5, <3>7 DEF ServedIInv
  <2> QED BY <2>5, <2>6
<1> QED BY <1>6, <1>7, <1>8 DEF Monitor!Telegram!Post

\* An alert is handed to an idle client, whose first chat is next.
LEMMA AlertServes ==
  ASSUME PipelineAssumption, FeedShape, ServedIInv, NEW key \in Monitor!Keys,
         Monitor!CheckAlerts(key)
  PROVE  ServedIInv'
<1>1. PICK n \in Nat : n = Len(alerts)
  BY LenProperties DEF ServedIInv, ClientShape
<1>2. PICK new \in AlertType : alerts' = Append(alerts, new)
  <2>1. [key |-> key, bar |-> Monitor!Newest(key)] \in AlertType
    BY NewestIsLast DEF Monitor!CheckAlerts, Monitor!HasNewBar, AlertType
  <2> QED BY <2>1 DEF Monitor!CheckAlerts
<1>3. alerts' \in Seq(AlertType) /\ Len(alerts') = n + 1
  BY <1>1, <1>2, AppendProperties DEF ServedIInv, ClientShape
<1>4. /\ outbox = Monitor!Telegram!Nothing
      /\ outbox' = IF Chats = 0 THEN Monitor!Telegram!Nothing
                                ELSE Monitor!Telegram!Sending(n + 1, 1, FALSE)
      /\ UNCHANGED <<chatIds, serverIds, delivered, failed, cutShort>>
  BY <1>3 DEF Monitor!CheckAlerts, Monitor!Telegram!Send
<1>5. ClientShape'
  BY <1>1, <1>3, <1>4 DEF ServedIInv, ClientShape
<1>6. n + 1 \notin cutShort
  BY <1>1 DEF ServedIInv, ClientShape
<1>7. Chats # 0 => 1 \in 1..Chats
  BY DEF PipelineAssumption, Monitor!Telegram!TelegramAssumption
<1>8. NewestIsSent'
  BY <1>1, <1>3, <1>4, <1>6, <1>7 DEF NewestIsSent, Monitor!Telegram!Sending
<1>9. IdsAreKnown'
  BY <1>4 DEF ServedIInv, IdsAreKnown, Monitor!Telegram!Sending, Monitor!Telegram!Nothing
<1>10. ASSUME NEW a \in 1..(n + 1), a \notin cutShort, NEW chat \in 1..Chats, Past(a, chat)'
       PROVE  Served(a, chat)'
  <2>1. a # n + 1
    <3>1. SUFFICES ASSUME a = n + 1 PROVE FALSE
      OBVIOUS
    <3>2. Chats # 0
      OBVIOUS
    <3>3. outbox'.message = n + 1 /\ outbox'.chat = 1
      BY <1>4, <3>2 DEF Monitor!Telegram!Sending
    <3> QED BY <1>10, <3>1, <3>3 DEF Past
  <2>2. a \in 1..n /\ Past(a, chat)
    BY <1>1, <1>4, <2>1 DEF Past, Monitor!Telegram!Nothing
  <2>3. Served(a, chat)
    BY <1>1, <1>10, <2>2 DEF ServedIInv, ServedSoFar
  <2> QED BY <1>4, <2>3 DEF Served
<1>11. ServedSoFar'
  BY <1>3, <1>4, <1>10 DEF ServedSoFar
<1> QED BY <1>5, <1>8, <1>9, <1>11 DEF ServedIInv

\* A message that its process did not finish is cut short; the others are out.
LEMMA RestartServes ==
  ASSUME ServedIInv, Monitor!Restart
  PROVE  ServedIInv'
<1>1. /\ chatIds' = [chat \in 1..Chats |-> 0]
      /\ outbox' = Monitor!Telegram!Nothing
      /\ UNCHANGED <<serverIds, delivered, failed, alerts>>
      /\ cutShort' = IF outbox = Monitor!Telegram!Nothing THEN cutShort
                     ELSE cutShort \cup {outbox.message}
  BY DEF Monitor!Restart, Monitor!Telegram!ConfiguredIds
<1>2. outbox # Monitor!Telegram!Nothing => outbox.message \in 1..Len(alerts)
  BY LenProperties DEF ServedIInv, NewestIsSent, ClientShape
<1>3. ClientShape'
  BY <1>1, <1>2 DEF ServedIInv, ClientShape
<1>4. NewestIsSent'
  BY <1>1 DEF NewestIsSent
<1>5. IdsAreKnown'
  BY <1>1 DEF ServedIInv, ClientShape, IdsAreKnown
<1>6. ASSUME NEW a \in 1..Len(alerts), a \notin cutShort', NEW chat \in 1..Chats
      PROVE  Served(a, chat)'
  <2>1. a \notin cutShort /\ Past(a, chat)
    BY <1>1, <1>6 DEF Past, Monitor!Telegram!Nothing
  <2>2. Served(a, chat)
    BY <1>6, <2>1 DEF ServedIInv, ServedSoFar
  <2> QED BY <1>1, <2>2 DEF Served
<1>7. ServedSoFar'
  BY <1>1, <1>6 DEF ServedSoFar
<1> QED BY <1>3, <1>4, <1>5, <1>7 DEF ServedIInv

LEMMA MigrateServes ==
  ASSUME ServedIInv, NEW chat \in 1..Chats, Monitor!Migrate(chat)
  PROVE  ServedIInv'
<1>1. /\ serverIds' = [serverIds EXCEPT ![chat] = @ + 1]
      /\ UNCHANGED <<chatIds, outbox, delivered, failed, alerts, cutShort>>
  BY DEF Monitor!Migrate, Monitor!Telegram!Migrate, Monitor!history
<1>2. /\ serverIds' \in [1..Chats -> Nat]
      /\ \A c \in 1..Chats : serverIds[c] <= serverIds'[c]
  BY <1>1 DEF ServedIInv, ClientShape
<1>3. ClientShape'
  BY <1>1, <1>2 DEF ServedIInv, ClientShape
<1>4. NewestIsSent'
  BY <1>1 DEF ServedIInv, NewestIsSent
<1>5. IdsAreKnown'
  BY <1>1, <1>2 DEF ServedIInv, ClientShape, IdsAreKnown
<1>6. ASSUME NEW a \in 1..Len(alerts) \ cutShort, NEW c \in 1..Chats, Past(a, c)'
      PROVE  Served(a, c)'
  <2>1. Served(a, c)
    BY <1>1, <1>6 DEF ServedIInv, ServedSoFar, Past
  <2> QED BY <1>1, <1>2, <2>1, ServedStays DEF ServedIInv
<1>7. ServedSoFar'
  BY <1>1, <1>6 DEF ServedSoFar
<1> QED BY <1>3, <1>4, <1>5, <1>7 DEF ServedIInv

LEMMA ServedUnchanged ==
  ASSUME ServedIInv,
         UNCHANGED <<chatIds, outbox, serverIds, delivered, failed, alerts, cutShort>>
  PROVE  ServedIInv'
BY DEF ServedIInv, ClientShape, NewestIsSent, IdsAreKnown, ServedSoFar, Past, Served

-----------------------------------------------------------------------------
(* Alerts go forward.                                                      *)

\* The table grows under what was seen.
LEMMA FeedingForward ==
  ASSUME PipelineAssumption, FeedShape, Feeding, ForwardIInv
  PROVE  ForwardIInv'
<1> SUFFICES ASSUME ~reopened' PROVE Forward'
  BY DEF ForwardIInv
<1>1. /\ ~reopened
      /\ \A row \in DOMAIN rows : rows[row] => row \in DOMAIN rows' /\ rows'[row]
  BY FeedingStep
<1>2. Forward
  BY <1>1 DEF ForwardIInv
<1>3. \A key : Monitor!BarsOf(key) \subseteq Monitor!BarsOf(key)'
  BY <1>1, BarsStay
<1>4. alerts' = alerts /\ lastSeen' = lastSeen
  BY DEF Feeding, monitorVars
<1>5. AlertedWereClosed' /\ SeenWereClosed'
  BY <1>2, <1>3, <1>4 DEF Forward, AlertedWereClosed, SeenWereClosed
<1>6. AlertedWereSeen' /\ AlertsGoForward'
  BY <1>2, <1>4 DEF Forward, AlertedWereSeen, AlertsGoForward
<1> QED BY <1>5, <1>6 DEF Forward

\* The newest bar is seen: all that was alerted on of its key was closed then.
LEMMA SeeNewestForward ==
  ASSUME PipelineAssumption, FeedShape, ClientShape, Forward, NEW key \in Monitor!Keys,
         Monitor!HasNewBar(key), Monitor!SeeNewest(key), rows' = rows
  PROVE  /\ SeenWereClosed'
         /\ \A other \in DOMAIN lastSeen' : \A k \in DOMAIN alerts :
              alerts[k].key = other => alerts[k].bar <= lastSeen'[other]
         /\ lastSeen'[key] = Monitor!Newest(key)
<1>1. /\ Monitor!Newest(key) \in Monitor!BarsOf(key)
      /\ \A bar \in Monitor!BarsOf(key) : bar <= Monitor!Newest(key)
  BY NewestIsLast DEF Monitor!HasNewBar
<1>2. /\ DOMAIN lastSeen' = DOMAIN lastSeen \cup {key}
      /\ lastSeen'[key] = Monitor!Newest(key)
      /\ \A other \in DOMAIN lastSeen \ {key} : lastSeen'[other] = lastSeen[other]
  BY DEF Monitor!SeeNewest
<1>3. \A other : Monitor!BarsOf(other)' = Monitor!BarsOf(other)
  BY DEF Monitor!BarsOf
<1>4. SeenWereClosed'
  BY <1>1, <1>2, <1>3 DEF Forward, SeenWereClosed
<1>5. ASSUME NEW other \in DOMAIN lastSeen', NEW k \in DOMAIN alerts, alerts[k].key = other
      PROVE  alerts[k].bar <= lastSeen'[other]
  <2>1. CASE other = key
    <3>1. alerts[k].bar \in Monitor!BarsOf(key)
      BY <1>5, <2>1 DEF Forward, AlertedWereClosed
    <3> QED BY <1>1, <1>2, <2>1, <3>1
  <2>2. CASE other # key
    BY <1>2, <1>5, <2>2 DEF Forward, AlertedWereSeen
  <2> QED BY <2>1, <2>2
<1> QED BY <1>2, <1>4, <1>5

\* A step that raises no alert and sees the newest bar or nothing.
LEMMA QuietForward ==
  ASSUME PipelineAssumption, FeedShape, ClientShape, ForwardIInv,
         UNCHANGED <<rows, reopened, alerts>>,
         UNCHANGED lastSeen
           \/ \E key \in Monitor!Keys : Monitor!HasNewBar(key) /\ Monitor!SeeNewest(key)
  PROVE  ForwardIInv'
<1> SUFFICES ASSUME Forward PROVE Forward'
  BY DEF ForwardIInv
<1>1. \A key : Monitor!BarsOf(key)' = Monitor!BarsOf(key)
  BY DEF Monitor!BarsOf
<1>2. AlertedWereClosed' /\ AlertsGoForward'
  BY <1>1 DEF Forward, AlertedWereClosed, AlertsGoForward
<1>3. CASE UNCHANGED lastSeen
  BY <1>1, <1>2, <1>3 DEF Forward, SeenWereClosed, AlertedWereSeen
<1>4. ASSUME NEW key \in Monitor!Keys, Monitor!HasNewBar(key), Monitor!SeeNewest(key)
      PROVE  Forward'
  BY <1>2, <1>4, SeeNewestForward DEF Forward, AlertedWereSeen
<1> QED BY <1>3, <1>4

\* An alert is about a bar beyond the one seen last, and so beyond those alerted on.
LEMMA AlertForward ==
  ASSUME PipelineAssumption, FeedShape, ClientShape, ForwardIInv, NEW key \in Monitor!Keys,
         Monitor!CheckAlerts(key), UNCHANGED <<rows, reopened>>
  PROVE  ForwardIInv'
<1> SUFFICES ASSUME Forward PROVE Forward'
  BY DEF ForwardIInv
<1>1. PICK n \in Nat : n = Len(alerts) /\ DOMAIN alerts = 1..n
  BY LenProperties DEF ClientShape
<1>2. PICK bar \in Int : bar = Monitor!Newest(key)
  BY NewestIsLast DEF Monitor!CheckAlerts, Monitor!HasNewBar
<1>3. /\ Monitor!HasNewBar(key) /\ Monitor!SeeNewest(key)
      /\ key \in DOMAIN lastSeen
      /\ lastSeen[key] # bar
      /\ alerts' = Append(alerts, [key |-> key, bar |-> bar])
  BY <1>2 DEF Monitor!CheckAlerts, Monitor!HasNewBar, Monitor!Tracked
<1>4. [key |-> key, bar |-> bar] \in AlertType
  BY DEF AlertType
<1>5. /\ DOMAIN alerts' = 1..(n + 1) /\ Len(alerts') = n + 1
      /\ alerts'[n + 1] = [key |-> key, bar |-> bar]
      /\ \A k \in 1..n : alerts'[k] = alerts[k]
  BY <1>1, <1>3, <1>4, AppendProperties DEF ClientShape
<1>6. /\ bar \in Monitor!BarsOf(key)
      /\ \A b \in Monitor!BarsOf(key) : b <= bar
  BY <1>2, <1>3, NewestIsLast DEF Monitor!HasNewBar
<1>7. lastSeen[key] \in Int /\ lastSeen[key] < bar
  <2>1. lastSeen[key] \in Monitor!BarsOf(key)
    BY <1>3 DEF Forward, SeenWereClosed
  <2>2. lastSeen[key] \in Int
    BY <2>1, BarsAreInts
  <2> QED BY <1>3, <1>6, <2>1, <2>2
<1>8. \A k \in 1..n : alerts[k].key = key => alerts[k].bar < bar
  <2> TAKE k \in 1..n
  <2> HAVE alerts[k].key = key
  <2>1. alerts[k].bar <= lastSeen[key]
    BY <1>1, <1>3 DEF Forward, AlertedWereSeen
  <2>2. alerts[k] \in AlertType
    BY <1>1, ElementOfSeq DEF ClientShape
  <2>3. alerts[k].bar \in Int
    BY <2>2 DEF AlertType
  <2> QED BY <1>7, <2>1, <2>3
<1>9. \A other : Monitor!BarsOf(other)' = Monitor!BarsOf(other)
  BY DEF Monitor!BarsOf
<1>10. AlertedWereClosed'
  BY <1>1, <1>5, <1>6, <1>9 DEF Forward, AlertedWereClosed
<1>11. /\ SeenWereClosed'
       /\ \A other \in DOMAIN lastSeen' : \A k \in DOMAIN alerts :
            alerts[k].key = other => alerts[k].bar <= lastSeen'[other]
       /\ lastSeen'[key] = bar
  BY <1>2, <1>3, SeeNewestForward
<1>12. AlertedWereSeen'
  <2> SUFFICES ASSUME NEW other \in DOMAIN lastSeen', NEW k \in 1..(n + 1), alerts'[k].key = other
               PROVE  alerts'[k].bar <= lastSeen'[other]
    BY <1>5 DEF AlertedWereSeen
  <2>1. CASE k \in 1..n
    BY <1>1, <1>5, <1>11, <2>1
  <2>2. CASE k = n + 1
    BY <1>5, <1>11, <2>2
  <2> QED BY <1>1, <2>1, <2>2
<1>13. AlertsGoForward'
  <2> SUFFICES ASSUME NEW j \in 1..(n + 1), NEW k \in 1..(n + 1), j < k,
                      alerts'[j].key = alerts'[k].key
               PROVE  alerts'[j].bar < alerts'[k].bar
    BY <1>5 DEF AlertsGoForward
  <2>1. CASE k \in 1..n
    BY <1>1, <1>5, <2>1 DEF Forward, AlertsGoForward
  <2>2. CASE k = n + 1
    BY <1>1, <1>5, <1>8, <2>2
  <2> QED BY <1>1, <2>1, <2>2
<1> QED BY <1>10, <1>11, <1>12, <1>13 DEF Forward

LEMMA RestartForward ==
  ASSUME ForwardIInv, Monitor!Restart, UNCHANGED <<rows, reopened>>
  PROVE  ForwardIInv'
<1>1. lastSeen' = <<>> /\ alerts' = alerts
  BY DEF Monitor!Restart
<1>2. \A key : Monitor!BarsOf(key)' = Monitor!BarsOf(key)
  BY DEF Monitor!BarsOf
<1> QED BY <1>1, <1>2 DEF ForwardIInv, Forward, AlertedWereClosed, SeenWereClosed,
                          AlertedWereSeen, AlertsGoForward

-----------------------------------------------------------------------------
(* Every step.                                                             *)

LEMMA InitIInv ==
  ASSUME PipelineAssumption, Init
  PROVE  IInv
<1>1. FeedShape
  <2>1. DOMAIN rows = {} /\ DOMAIN forming = {} /\ reopened = FALSE
    BY DEF Init, Feed!Init
  <2> QED BY <2>1, FS_EmptySet DEF FeedShape
<1>2. /\ alerts = <<>> /\ lastSeen = <<>> /\ failed = <<>> /\ cutShort = {}
      /\ outbox = Monitor!Telegram!Nothing
      /\ chatIds = [chat \in 1..Chats |-> 0] /\ serverIds = [chat \in 1..Chats |-> 0]
  BY DEF Init, Monitor!Init, Monitor!Telegram!Init, Monitor!Telegram!ConfiguredIds
<1>3. ServedIInv
  BY <1>2 DEF ServedIInv, ClientShape, NewestIsSent, IdsAreKnown, ServedSoFar
<1>4. Forward
  BY <1>2 DEF Forward, AlertedWereClosed, SeenWereClosed, AlertedWereSeen, AlertsGoForward
<1> QED BY <1>1, <1>3, <1>4 DEF IInv, ForwardIInv

\* A check that raises no alert leaves the client alone, and sees the newest bar
\* or nothing.
LEMMA QuietCheck ==
  ASSUME NEW key \in Monitor!Keys,
         Monitor!CheckNothingNew(key) \/ Monitor!CheckQuietly(key) \/ Monitor!CheckRaises(key)
  PROVE  /\ UNCHANGED <<chatIds, outbox, serverIds, delivered, failed, alerts, cutShort>>
         /\ UNCHANGED lastSeen \/ (Monitor!HasNewBar(key) /\ Monitor!SeeNewest(key))
BY DEF Monitor!CheckNothingNew, Monitor!CheckQuietly, Monitor!CheckRaises,
       Monitor!telegramVars, Monitor!history

LEMMA WatchingStep ==
  ASSUME PipelineAssumption, IInv, Watching
  PROVE  IInv'
<1>1. /\ Monitor!Next
      /\ UNCHANGED <<rows, forming, now, reopened>>
      /\ FeedShape /\ ServedIInv /\ ForwardIInv /\ ClientShape
  BY DEF Watching, feedVars, IInv, ServedIInv
<1>2. FeedShape'
  BY <1>1 DEF FeedShape
<1>3. ASSUME Monitor!StartCycle PROVE ServedIInv' /\ ForwardIInv'
  <2>1. UNCHANGED <<lastSeen, chatIds, outbox, serverIds, delivered, failed, alerts, cutShort>>
    BY <1>3 DEF Monitor!StartCycle, Monitor!telegramVars, Monitor!history
  <2> QED BY <1>1, <2>1, ServedUnchanged, QuietForward
<1>4. ASSUME Monitor!SendMessage PROVE ServedIInv' /\ ForwardIInv'
  <2>1. Monitor!Telegram!Post /\ UNCHANGED <<lastSeen, alerts, cutShort>>
    BY <1>4 DEF Monitor!SendMessage, Monitor!history
  <2> QED BY <1>1, <2>1, PostStep, QuietForward
<1>5. ASSUME NEW key \in Monitor!Keys, Monitor!Check(key) PROVE ServedIInv' /\ ForwardIInv'
  <2>1. CASE Monitor!CheckAlerts(key)
    BY <1>1, <2>1, AlertServes, AlertForward
  <2>2. CASE Monitor!CheckNothingNew(key) \/ Monitor!CheckQuietly(key) \/ Monitor!CheckRaises(key)
    <3>1. /\ UNCHANGED <<chatIds, outbox, serverIds, delivered, failed, alerts, cutShort>>
          /\ UNCHANGED lastSeen \/ (Monitor!HasNewBar(key) /\ Monitor!SeeNewest(key))
      BY <2>2, QuietCheck
    <3> QED BY <1>1, <3>1, ServedUnchanged, QuietForward
  <2> QED BY <1>5, <2>1, <2>2 DEF Monitor!Check
<1>6. ASSUME Monitor!Restart PROVE ServedIInv' /\ ForwardIInv'
  BY <1>1, <1>6, RestartServes, RestartForward
<1>7. ASSUME NEW chat \in 1..Chats, Monitor!Migrate(chat) PROVE ServedIInv' /\ ForwardIInv'
  <2>1. UNCHANGED <<lastSeen, alerts>>
    BY <1>7 DEF Monitor!Migrate, Monitor!history
  <2> QED BY <1>1, <1>7, <2>1, MigrateServes, QuietForward
<1>8. ServedIInv' /\ ForwardIInv'
  BY <1>1, <1>3, <1>4, <1>5, <1>6, <1>7 DEF Monitor!Next, Monitor!Poll
<1> QED BY <1>2, <1>8 DEF IInv

LEMMA NextIInv ==
  ASSUME PipelineAssumption, IInv, [Next]_vars
  PROVE  IInv'
<1>1. CASE Feeding
  <2>1. UNCHANGED <<chatIds, outbox, serverIds, delivered, failed, alerts, cutShort>>
    BY <1>1 DEF Feeding, monitorVars
  <2>2. FeedShape' /\ ForwardIInv'
    BY <1>1, FeedingStep, FeedingForward DEF IInv
  <2> QED BY <2>1, <2>2, ServedUnchanged DEF IInv
<1>2. CASE Watching
  BY <1>2, WatchingStep
<1>3. CASE UNCHANGED vars
  <2>1. /\ UNCHANGED <<chatIds, outbox, serverIds, delivered, failed, alerts, cutShort>>
        /\ UNCHANGED <<rows, forming, reopened, lastSeen>>
    BY <1>3 DEF vars
  <2>2. FeedShape'
    BY <2>1 DEF IInv, FeedShape
  <2> QED BY <2>1, <2>2, ServedUnchanged, QuietForward DEF IInv, ServedIInv
<1> QED BY <1>1, <1>2, <1>3 DEF Next

LEMMA SpecIInv == Spec => []IInv
<1>1. Init => IInv
  BY PipelineAssumption, InitIInv
<1>2. IInv /\ [Next]_vars => IInv'
  BY PipelineAssumption, NextIInv
<1> QED BY <1>1, <1>2, PTL DEF Spec

-----------------------------------------------------------------------------
(* The theorems.                                                           *)

\* Of one symbol and timeframe each alert is about a later bar than the one before
\* it, across restarts of the monitor, whatever bars are late or missing and
\* whatever checks raise, as long as no closed row of the table is opened again.
THEOREM AlertsAreInOrder == Spec => []AlertsGoForwardUnlessReopened
<1>1. IInv => AlertsGoForwardUnlessReopened
  BY DEF IInv, ForwardIInv, Forward, AlertsGoForwardUnlessReopened
<1> QED BY <1>1, SpecIInv, PTL

\* An alert whose sending is over, and was not cut short, has arrived in every chat
\* none of whose own posts failed and that migrated at most once, for any number of
\* chats and whatever the other chats do.
THEOREM ChatsAreServed == Spec => []EveryChatServed
<1>1. ASSUME IInv PROVE EveryChatServed
  <2>1. \A a \in 1..Len(alerts) \ cutShort : \A chat \in 1..Chats : Past(a, chat) => Served(a, chat)
    BY <1>1 DEF IInv, ServedIInv, ServedSoFar
  <2> QED BY <2>1 DEF EveryChatServed, Past, Served
<1> QED BY <1>1, SpecIInv, PTL

=============================================================================
