----------------------------- MODULE GapBackfill -----------------------------
(***************************************************************************)
(* ingestion/backfill.py, backfill_gaps: a process of its own that looks   *)
(* for gaps in the candle table once and then fills them one by one from   *)
(* the broker's history, each bar in a transaction of its own, while the   *)
(* ingestion goes on writing the same table.                               *)
(***************************************************************************)
EXTENDS CandleStore

CONSTANTS
  Instruments,
  HistoryBar,      \* the bar the broker's history holds for a minute
  StoreMayFail,    \* may a store call raise
  MaxBackfills     \* bound on the calls of backfill_gaps

\* What the module takes for granted of its constants; MarketData assumes it.
BackfillAssumption ==
  /\ HistoryBar \in [open : Nat, high : Nat, low : Nat, close : Nat]
  /\ WellFormed(HistoryBar)
  /\ StoreMayFail \in BOOLEAN
  /\ MaxBackfills \in Nat

VARIABLES
  candles,     \* the candle table
  events,      \* number of data_health_events of each type
  writers,     \* history: who wrote each row of the candle table
  job,         \* the call of backfill_gaps in progress
  backfills    \* history: how many calls were made

vars == <<candles, events, writers, job, backfills>>

NoJob == [step |-> "idle"]

\* The gaps still to do, and the bars still to write for the one being filled.
Looking(i, gaps) == [step |-> "gaps", instrument |-> i, gaps |-> gaps]
Filling(i, gaps, bars) ==
  [step |-> "bars", instrument |-> i, gaps |-> gaps, bars |-> bars]

Init ==
  /\ job = NoJob
  /\ backfills = 0

\* A store call raises: nobody catches it in backfill_gaps, and the rest of the
\* bars and gaps is not done.
StoreRaises ==
  /\ StoreMayFail
  /\ job' = NoJob
  /\ UNCHANGED <<candles, events, writers>>

\* find_gaps, once, at the start.
StartBackfill(i) ==
  /\ job = NoJob
  /\ backfills < MaxBackfills
  /\ backfills' = backfills + 1
  /\ job' = Looking(i, FindGaps(candles, i))
  /\ UNCHANGED <<candles, events, writers>>

\* Gaps are filled oldest first.
NextGap == CHOOSE gap \in job.gaps : \A other \in job.gaps : gap[1] <= other[1]

\* Any exception of the fetch is logged and the next gap is tried.
FetchFails ==
  /\ job.step = "gaps"
  /\ job.gaps # {}
  /\ job' = Looking(job.instrument, job.gaps \ {NextGap})
  /\ UNCHANGED <<candles, events, writers, backfills>>

\* The minutes a gap's request spans: its todate is the gap's end, a stored bar's
\* minute, and whatever is answered is written, that bar too.
InGap(gap) == gap[1]..gap[2]

\* External: the broker answers with any of the request's minutes, both ends
\* included.
FetchGap(minutes) ==
  /\ job.step = "gaps"
  /\ job.gaps # {}
  /\ minutes \subseteq InGap(NextGap)
  /\ job' = Filling(job.instrument, job.gaps \ {NextGap}, minutes)
  /\ UNCHANGED <<candles, events, writers, backfills>>

WriteBar ==
  /\ job.step = "bars"
  /\ job.bars # {}
  /\ LET key == <<job.instrument, Min(job.bars)>>
     IN \/ /\ candles' = Upserted(candles, key, Row(HistoryBar, TRUE, TRUE))
           /\ writers' = Signed(writers, key, Backfiller)
           /\ job' = [job EXCEPT !.bars = @ \ {Min(@)}]
           /\ UNCHANGED events
        \/ StoreRaises
  /\ UNCHANGED backfills

\* The gap is done when its health event is in the store.
FinishGap ==
  /\ job.step = "bars"
  /\ job.bars = {}
  /\ \/ /\ events' = [events EXCEPT !["backfill"] = @ + 1]
        /\ job' = Looking(job.instrument, job.gaps)
        /\ UNCHANGED <<candles, writers>>
     \/ StoreRaises
  /\ UNCHANGED backfills

FinishBackfill ==
  /\ job.step = "gaps"
  /\ job.gaps = {}
  /\ job' = NoJob
  /\ UNCHANGED <<candles, events, writers, backfills>>

Next ==
  \/ \E i \in Instruments : StartBackfill(i)
  \/ FetchFails
  \/ job.step = "gaps" /\ \E gap \in job.gaps : \E minutes \in SUBSET InGap(gap) : FetchGap(minutes)
  \/ WriteBar
  \/ FinishGap
  \/ FinishBackfill

=============================================================================
