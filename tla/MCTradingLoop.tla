---------------------------- MODULE MCTradingLoop ----------------------------
(* Values of the constants of TradingLoop for TLC.                          *)
EXTENDS TradingLoop, TLC

MCTradingDays == {0, 1}
MCFewPrices == {20, 30}

\* Four factors, two of which reach the threshold alone.
MCWeights == [trend |-> 4, smc |-> 4, indicators |-> 3, candles |-> 1]
MCTargets == <<1, 2, 3>>

\* Every combination of strong, weak and missing scores for a trade, with or
\* without one against it: a buy at 30 and a sell at 20, with the stop one lot
\* of the budget away, or at the entry, which the risk manager rejects.
Scored(a, b, c, d) ==
  (IF a = 0 THEN <<>> ELSE "trend" :> a) @@ ("smc" :> b) @@ ("indicators" :> c) @@ ("candles" :> d)

MCInputs ==
  {[scores |-> Scored(a, b, c, d), entry |-> e, atr |-> 5] :
     a \in {0, 2, 7, 12}, b \in {7, 10}, c \in {-10, 2, 3, 10}, d \in {-10, 3}, e \in {30}}
  \cup
  {[scores |-> Scored(a, b, c, d), entry |-> e, atr |-> 5] :
     a \in {0, -2, -7, -12}, b \in {-7, -10}, c \in {10, -2, -3, -10}, d \in {10, -3}, e \in {20}}
  \cup
  {[scores |-> Scored(10, 10, 10, 10), entry |-> 30, atr |-> 0]}

MCSignals == {SignalFor(inputs) : inputs \in MCInputs}

=============================================================================
