SPECIFICATION Spec
CONSTANTS
  RateUnit = 100
  BrokerageFlat = 6
  BrokeragePct = 1
  SttPct = 1
  TxnPct = 0
  SebiPct = 0
  StampPct = 0
  GstPct = 18
  Instruments = {i1}
  Prices <- MCPrices
  Signals <- MCSignals
  Quantities = {1}
  SlippageBps = 1
  SlippageUnit = 20
  StoreMayFail = TRUE
  MaxOrders = 2
  MaxBars = 1
INVARIANT ClosedTradesJournaled
SYMMETRY MCSymmetry
