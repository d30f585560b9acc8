---------------------------- MODULE MCMarketData -----------------------------
(* Values of the constants of MarketData for TLC: minutes of two timestamps *)
(* and one timestamp after the session.                                    *)
EXTENDS MarketData

\* The history's price is none of the ticks' prices.
MCHistoryBar == [open |-> 5, high |-> 5, low |-> 5, close |-> 5]

MCSymmetry == Permutations(Instruments)

=============================================================================
