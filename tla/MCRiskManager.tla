---------------------------- MODULE MCRiskManager ----------------------------
(* Values of the constants of RiskManager for TLC.  The clocks are in the   *)
(* .cfg files: a day of a few minutes, IST ahead of UTC, a session window   *)
(* inside it, two trading days.                                            *)
EXTENDS RiskManager

MCTradingDays == {0, 1}
MCPnls == {-2, 2}

\* A buy of which the budget fits two lots with a remainder, a sell whose stop is
\* just too far for one lot, a stop at the entry, a missing stop, and no trade.
MCSignals ==
  { [direction |-> "BUY", entry |-> 20, stop_loss |-> 17],
    [direction |-> "SELL", entry |-> 20, stop_loss |-> 27],
    [direction |-> "BUY", entry |-> 20, stop_loss |-> 20],
    [direction |-> "BUY", entry |-> 20, stop_loss |-> Missing],
    [direction |-> "NO_TRADE", entry |-> 20, stop_loss |-> 17] }

=============================================================================
