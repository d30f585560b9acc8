---------------------------- MODULE ChartPatterns ----------------------------
(***************************************************************************)
(* strategies/chart_patterns.py: double tops and bottoms, head and         *)
(* shoulders and their inverse, each reported at the close that confirms   *)
(* it.  A tolerance is a fraction <<p, q>>.                                *)
(***************************************************************************)
EXTENDS SwingPoints

CONSTANTS
  TopTolerance,       \* price_tolerance_pct
  ShoulderTolerance   \* shoulder_tolerance_pct

ASSUME ToleranceAssumption ==
  /\ TopTolerance \in Nat \X (Nat \ {0})
  /\ ShoulderTolerance \in Nat \X (Nat \ {0})

\* _pct_diff within a tolerance; prices are positive.
Similar(a, b, tolerance) ==
  (Max({a, b}) - Min({a, b})) * tolerance[2] <= tolerance[1] * Max({a, b})

InARow(points) ==
  {p \in points \X points : p[1] < p[2] /\ ~\E q \in points : p[1] < q /\ q < p[2]}

ThreeInARow(points) ==
  {p \in points \X points \X points :
     <<p[1], p[2]>> \in InARow(points) /\ <<p[2], p[3]>> \in InARow(points)}

\* Mutant of Within: the swings after the last one count as well.
WithinOpen(points, first, last) == {p \in points : first < p}

Within(points, first, last) == {p \in points : first < p /\ p < last}

Highs(bars, points) == {bars[p].high : p \in points}
Lows(bars, points) == {bars[p].low : p \in points}

\* The first close beyond the neckline after the last swing of a pattern.
FirstBelow(bars, after, neckline) ==
  Earliest({j \in (after + 1)..Len(bars) : bars[j].close < neckline})

FirstAbove(bars, after, neckline) ==
  Earliest({j \in (after + 1)..Len(bars) : bars[j].close > neckline})

Confirmed(pattern, swings, closes) ==
  {[pattern |-> pattern, swings |-> swings, bar |-> j] : j \in closes}

DoubleTops(bars) ==
  LET swings == Swings(bars)
      Between(p) == Within(swings.lows, p[1], p[2])
      tops == {p \in InARow(swings.highs) :
                 /\ Similar(bars[p[1]].high, bars[p[2]].high, TopTolerance)
                 /\ Between(p) # {}}
  IN UNION {Confirmed("double_top", p, FirstBelow(bars, p[2], Min(Lows(bars, Between(p))))) :
              p \in tops}

DoubleBottoms(bars) ==
  LET swings == Swings(bars)
      Between(p) == Within(swings.highs, p[1], p[2])
      bottoms == {p \in InARow(swings.lows) :
                    /\ Similar(bars[p[1]].low, bars[p[2]].low, TopTolerance)
                    /\ Between(p) # {}}
  IN UNION {Confirmed("double_bottom", p, FirstAbove(bars, p[2], Max(Highs(bars, Between(p))))) :
              p \in bottoms}

\* The neckline is at the higher of the troughs.
HeadAndShoulders(bars) ==
  LET swings == Swings(bars)
      Between(p) == Within(swings.lows, p[1], p[3])
      heads == {p \in ThreeInARow(swings.highs) :
                  /\ bars[p[2]].high > Max({bars[p[1]].high, bars[p[3]].high})
                  /\ Similar(bars[p[1]].high, bars[p[3]].high, ShoulderTolerance)
                  /\ Cardinality(Between(p)) >= 2}
  IN UNION {Confirmed("head_and_shoulders", p, FirstBelow(bars, p[3], Max(Lows(bars, Between(p))))) :
              p \in heads}

InverseHeadAndShoulders(bars) ==
  LET swings == Swings(bars)
      Between(p) == Within(swings.highs, p[1], p[3])
      heads == {p \in ThreeInARow(swings.lows) :
                  /\ bars[p[2]].low < Min({bars[p[1]].low, bars[p[3]].low})
                  /\ Similar(bars[p[1]].low, bars[p[3]].low, ShoulderTolerance)
                  /\ Cardinality(Between(p)) >= 2}
  IN UNION {Confirmed("inverse_head_and_shoulders", p,
                      FirstAbove(bars, p[3], Min(Highs(bars, Between(p))))) :
              p \in heads}

\* All chart patterns of the series.
Patterns(bars) ==
  DoubleTops(bars) \cup DoubleBottoms(bars)
    \cup HeadAndShoulders(bars) \cup InverseHeadAndShoulders(bars)

=============================================================================
