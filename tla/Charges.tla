------------------------------- MODULE Charges -------------------------------
(***************************************************************************)
(* config/charges_config.py: what the two legs of a trade cost.  All rates *)
(* are whole multiples of 1/RateUnit.  GST is a rate on charges that are   *)
(* rates themselves, so a charge is a whole multiple of 1/RateUnit^2 of    *)
(* the unit the turnover is in: no rounding happens, as with Decimal.      *)
(***************************************************************************)
EXTENDS Integers

CONSTANTS
  RateUnit,
  BrokerageFlat,   \* brokerage_flat_per_order, in the unit of the turnover
  BrokeragePct, SttPct, TxnPct, SebiPct, StampPct, GstPct

ASSUME RatesAssumption ==
  /\ RateUnit \in Nat \ {0}
  /\ BrokerageFlat \in Nat
  /\ BrokeragePct \in Nat
  /\ SttPct \in Nat
  /\ TxnPct \in Nat
  /\ SebiPct \in Nat
  /\ StampPct \in Nat
  /\ GstPct \in Nat

\* min(brokerage_flat_per_order, brokerage_pct * turnover)
Brokerage(turnover) ==
  IF BrokerageFlat * RateUnit <= BrokeragePct * turnover
  THEN BrokerageFlat * RateUnit
  ELSE BrokeragePct * turnover

\* What GST applies to; it does not apply to STT or to stamp duty.
Taxable(turnover) == Brokerage(turnover) + TxnPct * turnover + SebiPct * turnover

\* compute_leg_charges: STT on a sale, stamp duty on a purchase.
LegCharges(turnover, isBuy) ==
  LET stt == IF isBuy THEN 0 ELSE SttPct * turnover
      stampDuty == IF isBuy THEN StampPct * turnover ELSE 0
  IN (Taxable(turnover) + stt + stampDuty) * RateUnit
       + GstPct * Taxable(turnover)

\* compute_round_trip_charges(...).total: the entry buys when the trade is long,
\* the exit buys when it is short.
RoundTripCharges(entryTurnover, exitTurnover, isLong) ==
  LegCharges(entryTurnover, isLong) + LegCharges(exitTurnover, ~isLong)

=============================================================================
