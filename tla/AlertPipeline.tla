---------------------------- MODULE AlertPipeline -----------------------------
(***************************************************************************)
(* The candle table and the alert monitor, two processes that share only   *)
(* the store: from the ticks of a minute to the messages about its bar.    *)
(* The writers of the table are those CandleFeed allows, with ticks that   *)
(* come in the order of time across restarts of the ingestion.             *)
(***************************************************************************)
EXTENDS TradingHours, Integers, Sequences, FiniteSets, Functions

CONSTANTS
  Instruments, Minutes,
  Universe, MinBars, MaxErrors, MaxLives, MaxAlerts,
  Chats, MaxMigrations, MaxOutages,
  MaxFaults    \* bound on the failures, migrations and restarts together

VARIABLES
  rows, forming,                                          \* CandleFeed
  lastSeen, todo, chatIds, outbox, serverIds, delivered, failed,
  alerts, cutShort, errors, lives,                        \* PatternAlerts
  now,        \* the minute of the newest tick
  reopened    \* history: a closed row was opened again

feedVars == <<rows, forming>>
monitorVars == <<lastSeen, todo, chatIds, outbox, serverIds, delivered, failed,
                 alerts, cutShort, errors, lives>>
vars == <<rows, forming, lastSeen, todo, chatIds, outbox, serverIds, delivered,
          failed, alerts, cutShort, errors, lives, now, reopened>>

Feed == INSTANCE CandleFeed
Monitor == INSTANCE PatternAlerts

ASSUME PipelineAssumption ==
  /\ Minutes \subseteq Nat
  /\ MaxFaults \in Nat
  /\ Monitor!AlertsAssumption
  /\ Monitor!Telegram!TelegramAssumption
  /\ Monitor!Resample!ResamplingAssumption

Init == Feed!Init /\ Monitor!Init /\ now = 0 /\ reopened = FALSE

\* A tick of the current minute or a later one.
TickOf(i) ==
  /\ Feed!Begin(i) \/ Feed!Advance(i)
  /\ now <= forming'[i]
  /\ now' = forming'[i]

Write ==
  \/ \E i \in Instruments : TickOf(i)
  \/ /\ Feed!Stop \/ \E i \in Instruments : Feed!Progress(i) \/ Feed!Flush(i) \/ Feed!Fill(i)
     /\ UNCHANGED now

Feeding ==
  /\ Write
  /\ reopened' = (reopened \/ \E row \in DOMAIN rows : rows[row] /\ ~rows'[row])
  /\ UNCHANGED monitorVars

Faults == errors + lives + Len(failed) + SumFunction(serverIds)

Watching ==
  /\ Monitor!Next
  /\ Faults' <= MaxFaults
  /\ UNCHANGED <<feedVars, now, reopened>>

Next == Feeding \/ Watching

Polling ==
  /\ Monitor!Poll
  /\ Faults' <= MaxFaults
  /\ UNCHANGED <<feedVars, now, reopened>>

Spec == Init /\ [][Next]_vars

\* The monitor keeps polling while its process runs.
FairSpec == Spec /\ WF_vars(Polling)

-----------------------------------------------------------------------------
(* Properties.                                                             *)

\* pattern_alerts.py:5-7, "not stale re-detections of already-alerted events":
\* of one symbol and timeframe, every alert is about a later bar than the one
\* before it, across restarts of the monitor too.
AlertsGoForward ==
  \A j, k \in 1..Len(alerts) :
    j < k /\ alerts[j].key = alerts[k].key => alerts[j].bar < alerts[k].bar

\* The monitor keeps that as long as no closed row of the table is opened again
\* (pattern_alerts.py:140-146).
AlertsGoForwardUnlessReopened == ~reopened => AlertsGoForward

\* telegram_client.py:47-59: an alert goes to every chat; one chat's failures
\* take it from nobody else, and a migration of the chat takes it from nobody.
EveryChatServed ==
  \A a \in 1..Len(alerts) \ cutShort : \A chat \in 1..Chats :
    /\ outbox.message # a
    /\ serverIds[chat] <= 1
    /\ \A k \in DOMAIN failed : failed[k] # chat
    => <<a, chat>> \in delivered

\* pattern_alerts.py:1-7, "whenever one appears for a tracked (token, timeframe)":
\* a bar that closes on a tracked symbol is looked at, whatever fails and however
\* the writers go on, unless the process ends.
NewBarsAreSeen ==
  \A key \in Monitor!Keys :
    Monitor!Tracked(key) /\ Monitor!HasNewBar(key)
      ~> ~(Monitor!Tracked(key) /\ Monitor!HasNewBar(key))

=============================================================================
