----------------------------- MODULE CandleStore -----------------------------
(***************************************************************************)
(* data/database.py: the candle table, as its two writers and the gap      *)
(* search see it.  A table is a function from <<instrument, minute>> to a  *)
(* row; a minute stands for a bar's open time, and its close time is the   *)
(* next minute.  One timeframe, the 1-minute base, is stored.              *)
(***************************************************************************)
EXTENDS Integers, Sequences, FiniteSets, FiniteSetsExt, TLC

\* A table with a value at a key, new or not.
Put(table, key, value) ==
  [k \in DOMAIN table \cup {key} |-> IF k = key THEN value ELSE table[k]]

Row(bar, backfilled, closed) ==
  [open |-> bar.open, high |-> bar.high, low |-> bar.low, close |-> bar.close,
   backfilled |-> backfilled, closed |-> closed]

\* Mutant of Upserted: the first row written for a key is never replaced.
UpsertedOnce(table, key, row) ==
  IF key \in DOMAIN table THEN table ELSE Put(table, key, row)

\* upsert_candle: a new row is inserted whole; where the key exists, everything
\* but the open is replaced.
Upserted(table, key, row) ==
  Put(table, key,
      IF key \in DOMAIN table THEN [row EXCEPT !.open = table[key].open] ELSE row)

\* History: the writers of each row.  The backfill is one of them, each life of
\* the ingestion process another.
Backfiller == -1

Signed(writers, key, who) ==
  Put(writers, key, {who} \cup (IF key \in DOMAIN writers THEN writers[key] ELSE {}))

MinutesOf(table, i) == {key[2] : key \in {k \in DOMAIN table : k[1] = i}}

\* Two stored bars with none between them, as get_candles lists them.
Neighbours(table, i) ==
  {pair \in MinutesOf(table, i) \X MinutesOf(table, i) :
     /\ pair[1] < pair[2]
     /\ \A m \in MinutesOf(table, i) : m <= pair[1] \/ m >= pair[2]}

\* Mutant of FindGaps: a gap begins at the open of the bar before it.
FindGapsFromOpen(table, i) ==
  {pair \in Neighbours(table, i) : pair[2] - (pair[1] + 1) > 1}

\* find_gaps with a step of one minute: the close of a bar and the open of the
\* next one are further apart than the step.
FindGaps(table, i) ==
  {<<pair[1] + 1, pair[2]>> :
     pair \in {p \in Neighbours(table, i) : p[2] - (p[1] + 1) > 1}}

\* The minutes without a bar between the first and the last bar of an instrument.
MissingMinutes(table, i) ==
  {m \in Min(MinutesOf(table, i))..Max(MinutesOf(table, i)) :
     m \notin MinutesOf(table, i)}

WellFormed(row) ==
  /\ row.low <= row.open /\ row.open <= row.high
  /\ row.low <= row.close /\ row.close <= row.high

=============================================================================
