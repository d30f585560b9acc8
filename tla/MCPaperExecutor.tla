--------------------------- MODULE MCPaperExecutor ---------------------------
(* Values of the constants of PaperExecutor for TLC.                        *)
EXTENDS PaperExecutor

\* The instruments are interchangeable.
MCSymmetry == Permutations(Instruments)

MCPrices == {10, 20, 30}

\* A buy whose stop and target the feed meets exactly, a sell whose stop a price
\* jumps over, and three signals submit_order refuses.
MCSignals ==
  { [direction |-> "BUY", stop_loss |-> 10, target |-> 30],
    [direction |-> "SELL", stop_loss |-> 25, target |-> 10],
    [direction |-> "BUY", stop_loss |-> Missing, target |-> 30],
    [direction |-> "BUY", stop_loss |-> 20, target |-> Missing],
    [direction |-> "NO_TRADE", stop_loss |-> 20, target |-> 30] }

=============================================================================
