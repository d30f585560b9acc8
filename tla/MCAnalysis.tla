----------------------------- MODULE MCAnalysis -----------------------------
EXTENDS Analysis

Bar(open, high, low, close, long, short) ==
  [open |-> open, high |-> high, low |-> low, close |-> close,
   points |-> [long |-> long, short |-> short]]

\* Rising, falling and overlapping bars, some with equal highs or lows: in seven
\* of them every event, zone and trade of the detectors occurs.
MCShapes == {Bar(4, 4, 1, 1, 0, 30), Bar(5, 5, 1, 2, 25, 25), Bar(6, 7, 2, 6, 10, 40),
             Bar(4, 8, 4, 6, 40, 10), Bar(9, 9, 8, 9, 30, 0), Bar(8, 9, 3, 7, 40, 10)}

\* A candle's direction, with a stop at its other end and a target one beyond.
MCStrategy(view) ==
  LET bar == view[Len(view)]
  IN IF Bullish(bar) THEN <<[direction |-> "LONG", stop |-> bar.low, target |-> bar.high + 1]>>
     ELSE IF Bearish(bar) THEN <<[direction |-> "SHORT", stop |-> bar.high, target |-> bar.low - 1]>>
     ELSE <<>>

\* Days of twelve minutes with a session of minutes 2 to 6, the second a holiday:
\* one pre-open minute and a full session, and a session with holes that ends
\* with a tick at its close.
MCClocks == { <<1, 2, 3, 4, 5, 6, 26>>, <<2, 4, 6, 7, 15, 26, 27>> }

MCTopTolerance == <<1, 10>>
MCShoulderTolerance == <<1, 5>>
=============================================================================
