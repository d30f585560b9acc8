------------------------------ MODULE CandleFeed ------------------------------
(***************************************************************************)
(* What a reader of the candle table may rely on, whoever writes it: which *)
(* minutes have a row, and which rows are closed.  Only one bar of an      *)
(* instrument is being formed at a time, and it goes forward; a process    *)
(* that starts again in a minute whose bar was flushed opens it again.     *)
(* MarketData, the two writers at the grain of their store calls,          *)
(* implements this module.                                                 *)
(***************************************************************************)
EXTENDS Integers, FiniteSets

CONSTANTS Instruments, Minutes

VARIABLES
  rows,      \* <<instrument, minute>> -> is the row closed
  forming    \* instrument -> the minute of the bar the ingestion is building

vars == <<rows, forming>>

\* The table with a row closed or not.
WithRow(row, closed) ==
  [r \in DOMAIN rows \cup {row} |-> IF r = row THEN closed ELSE rows[r]]

Init == rows = <<>> /\ forming = <<>>

\* The first tick of an instrument in a process.
Begin(i) ==
  /\ i \notin DOMAIN forming
  /\ \E m \in Minutes :
       forming' = [k \in DOMAIN forming \cup {i} |-> IF k = i THEN m ELSE forming[k]]
  /\ UNCHANGED rows

\* The first tick of a later minute: the bar before it is closed.
Advance(i) ==
  /\ i \in DOMAIN forming
  /\ rows' = WithRow(<<i, forming[i]>>, TRUE)
  /\ \E m \in Minutes : m > forming[i] /\ forming' = [forming EXCEPT ![i] = m]

\* The bar in progress is written as one in progress, whatever its row was.
Progress(i) ==
  /\ i \in DOMAIN forming
  /\ rows' = WithRow(<<i, forming[i]>>, FALSE)
  /\ UNCHANGED forming

\* The bar in progress is closed as it is, before the process ends.
Flush(i) ==
  /\ i \in DOMAIN forming
  /\ rows' = WithRow(<<i, forming[i]>>, TRUE)
  /\ UNCHANGED forming

\* The process ends, and another one knows nothing of its bars.
Stop == forming' = <<>> /\ UNCHANGED rows

\* A backfill closes a minute between two that have a row, or the later of the
\* two: that bar may be the one in progress.
Fill(i) ==
  /\ UNCHANGED forming
  /\ LET stored == {key[2] : key \in {k \in DOMAIN rows : k[1] = i}}
     IN \E m \in Minutes :
          /\ \E before, after \in stored : before < m /\ m <= after
          /\ rows' = WithRow(<<i, m>>, TRUE)

Next ==
  \/ \E i \in Instruments : Begin(i) \/ Advance(i) \/ Progress(i) \/ Flush(i) \/ Fill(i)
  \/ Stop

Spec == Init /\ [][Next]_vars

=============================================================================
