---------------------------- MODULE SignalEngine ----------------------------
(***************************************************************************)
(* engine/signal_engine.py: generate_signal, from one score per factor to  *)
(* BUY, SELL or NO_TRADE.  The score of a factor is a number of parts of   *)
(* ScoreUnit, which stands for 1.0, and may be missing; the ATR is in the  *)
(* unit that makes StopMultiple whole.                                     *)
(***************************************************************************)
EXTENDS Integers, Sequences, FiniteSets, FiniteSetsExt

CONSTANTS
  Weights,         \* FACTOR_WEIGHTS: factor -> points
  ScoreUnit,       \* the parts of a score of one
  ScoreThreshold,  \* total_score_threshold, in points
  MinFactors,      \* min_confluence_factors
  MinStrength,     \* factor_min_strength, in parts of a score
  StopMultiple,    \* STOP_ATR_MULTIPLE
  TargetMultiples  \* TARGET_R_MULTIPLES

SignalAssumption ==
  /\ IsFiniteSet(DOMAIN Weights)
  /\ \A f \in DOMAIN Weights : Weights[f] \in Nat
  /\ ScoreUnit \in Nat \ {0}
  /\ ScoreThreshold \in Nat
  /\ MinFactors \in Nat
  /\ MinStrength \in 1..ScoreUnit
  /\ StopMultiple \in Nat
  /\ TargetMultiples \in Seq(Nat) /\ TargetMultiples # <<>>

Factors == DOMAIN Weights

None == -1   \* a price that is None

Sign(x) == IF x > 0 THEN 1 ELSE IF x < 0 THEN -1 ELSE 0

Magnitude(x) == Max({x, -x})

\* _clamp
Clamp(x) == Max({-ScoreUnit, Min({ScoreUnit, x})})

\* A factor without a score says nothing.
Raw(scores, f) == IF f \in DOMAIN scores THEN Clamp(scores[f]) ELSE 0

\* The weighted sum, in parts of a point.
Total(scores) == SumFunction([f \in Factors |-> Raw(scores, f) * Weights[f]])

\* Mutant of Agreeing: a factor counts for its strength, whatever its direction.
AgreeingInStrength(scores) ==
  {f \in Factors : Magnitude(Raw(scores, f)) >= MinStrength}

Agreeing(scores) ==
  {f \in Factors : /\ Sign(Raw(scores, f)) = Sign(Total(scores))
                   /\ Magnitude(Raw(scores, f)) >= MinStrength}

MeetsConfluence(scores) ==
  /\ Total(scores) # 0
  /\ Magnitude(Total(scores)) >= ScoreThreshold * ScoreUnit
  /\ Cardinality(Agreeing(scores)) >= MinFactors

NoTrade == [direction |-> "NO_TRADE", entry |-> None, stop_loss |-> None, targets |-> <<>>]

Trade(sign, entry, distance) ==
  [direction |-> IF sign > 0 THEN "BUY" ELSE "SELL",
   entry |-> entry,
   stop_loss |-> entry - sign * distance,
   targets |-> [k \in DOMAIN TargetMultiples |-> entry + sign * TargetMultiples[k] * distance]]

\* inputs: the scores, the entry price and the ATR of SignalInputs.
GenerateSignal(inputs) ==
  IF MeetsConfluence(inputs.scores)
  THEN Trade(Sign(Total(inputs.scores)), inputs.entry, StopMultiple * inputs.atr)
  ELSE NoTrade

-----------------------------------------------------------------------------
(* What generate_signal promises of a trade, by what the inputs would have *)
(* given with other scores.                                                *)

Direction(scores) == GenerateSignal([scores |-> scores, entry |-> 0, atr |-> 0]).direction

Reversed(direction) == IF direction = "BUY" THEN "SELL" ELSE "BUY"

\* The scores without those of all factors but some.
Only(scores, factors) == [f \in DOMAIN scores \cap factors |-> scores[f]]

\* Fewer than MinFactors factors never make a trade, however strong.
FewFactorsNeverTrade(scores) ==
  \A factors \in SUBSET Factors :
    Cardinality(factors) < MinFactors => Direction(Only(scores, factors)) = "NO_TRADE"

\* A factor that speaks up for the trade, or no longer against it, never calls
\* it off.
MoreEvidenceNeverCancels(scores) ==
  LET direction == Direction(scores)
      Towards(x) == IF direction = "BUY" THEN x ELSE -x
      Moved(f, x) == [g \in DOMAIN scores \cup {f} |-> IF g = f THEN x ELSE scores[g]]
  IN \A f \in Factors, x \in {0, Towards(ScoreUnit)} :
       Towards(x) >= Towards(Raw(scores, f)) => Direction(Moved(f, x)) = direction

\* The mirrored evidence makes the mirrored trade.
MirroredEvidenceReverses(scores) ==
  Direction([f \in DOMAIN scores |-> -scores[f]]) = Reversed(Direction(scores))

RestsOnConfluence(scores) ==
  /\ FewFactorsNeverTrade(scores)
  /\ MoreEvidenceNeverCancels(scores)
  /\ MirroredEvidenceReverses(scores)

=============================================================================
