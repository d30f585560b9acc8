---------------------------- MODULE PatternAlerts -----------------------------
(***************************************************************************)
(* ingestion/pattern_alerts.py: a process that polls the candle table.  A  *)
(* cycle looks at every symbol and timeframe in turn; where a bar has      *)
(* closed since the last look, the detectors run, and a signal at that     *)
(* newest bar is sent as an alert.  Which bars carry a signal is left to   *)
(* the detectors: any of them may.  By default only smc_pro's signals are  *)
(* sent, at most one for a bar.                                            *)
(***************************************************************************)
EXTENDS TradingHours, Integers, Sequences, FiniteSets, FiniteSetsExt

CONSTANTS
  Universe,      \* the <<instrument, minutes>> a cycle looks at, in its order
  MinBars,       \* bars it takes for a detection
  MaxErrors,     \* bound on the checks that raise
  MaxLives,      \* bound on the restarts of the process
  MaxAlerts,     \* bound on the alerts
  Chats, MaxMigrations, MaxOutages   \* TelegramClient

Resample == INSTANCE Resampling

AlertsAssumption ==
  /\ \A k \in DOMAIN Universe : Universe[k][2] \in Nat \ {0}
  /\ MinBars \in Nat \ {0}
  /\ MaxErrors \in Nat
  /\ MaxLives \in Nat
  /\ MaxAlerts \in Nat

VARIABLES
  rows,       \* the candle table: <<instrument, minute>> -> is the row closed
  lastSeen,   \* MonitorState.last_seen_close: key -> the newest closed bar seen
  todo,       \* what is left of the cycle
  chatIds, outbox, serverIds, delivered, failed,   \* TelegramClient
  alerts,     \* history: the alerts raised, oldest first
  cutShort,   \* history: alerts whose sending ended with the process
  errors,     \* history: how many checks raised
  lives       \* history: how many times the process was started again

history == <<alerts, cutShort, errors, lives>>
telegramVars == <<chatIds, outbox, serverIds, delivered, failed>>
vars == <<lastSeen, todo, telegramVars, history>>

Telegram == INSTANCE TelegramClient

Keys == {Universe[k] : k \in DOMAIN Universe}

\* _load_dataframe: the key's closed bars.
BarsOf(key) ==
  Resample!ClosedBarTimes(
    {row[2] : row \in {r \in DOMAIN rows : r[1] = key[1] /\ rows[r]}}, key[2])

Newest(key) == Max(BarsOf(key))

Init ==
  /\ lastSeen = <<>>
  /\ todo = <<>>
  /\ Telegram!Init
  /\ alerts = <<>>
  /\ cutShort = {}
  /\ errors = 0
  /\ lives = 0

\* The poll: the process looks at the universe again.
StartCycle ==
  /\ todo = <<>>
  /\ outbox = Telegram!Nothing
  /\ todo' = Universe
  /\ UNCHANGED <<lastSeen, telegramVars, history>>

\* The next key is looked at when the messages of the last one are out.
Checking(key) ==
  /\ todo # <<>>
  /\ key = Head(todo)
  /\ outbox = Telegram!Nothing
  /\ todo' = Tail(todo)

EnoughBars(key) == Cardinality(BarsOf(key)) >= MinBars
Tracked(key) == key \in DOMAIN lastSeen

\* Mutant of HasNewBar: a bar that was seen is looked at again.
HasNewBarAlways(key) == EnoughBars(key)

HasNewBar(key) ==
  /\ EnoughBars(key)
  /\ Tracked(key) => lastSeen[key] # Newest(key)

\* The bar is taken as seen before anything is detected or sent.
SeeNewest(key) ==
  lastSeen' = [k \in DOMAIN lastSeen \cup {key} |-> IF k = key THEN Newest(key) ELSE lastSeen[k]]

CheckNothingNew(key) ==
  /\ Checking(key)
  /\ ~HasNewBar(key)
  /\ UNCHANGED <<lastSeen, telegramVars, history>>

\* Mutant of CheckQuietly: a bar without a signal is not taken as seen.
CheckQuietlyUnseen(key) ==
  /\ Checking(key)
  /\ HasNewBar(key)
  /\ IF Tracked(key) THEN UNCHANGED lastSeen ELSE SeeNewest(key)
  /\ UNCHANGED <<telegramVars, history>>

\* The first look at a key is a baseline: nothing is detected.  A later one may
\* find no signal at its newest bar.
CheckQuietly(key) ==
  /\ Checking(key)
  /\ HasNewBar(key)
  /\ SeeNewest(key)
  /\ UNCHANGED <<telegramVars, history>>

\* Mutant of CheckAlerts: there is no baseline.
CheckAlertsAtOnce(key) ==
  /\ Checking(key)
  /\ HasNewBar(key)
  /\ SeeNewest(key)
  /\ Len(alerts) < MaxAlerts
  /\ alerts' = Append(alerts, [key |-> key, bar |-> Newest(key)])
  /\ Telegram!Send(Len(alerts'))
  /\ UNCHANGED <<cutShort, errors, lives>>

CheckAlerts(key) ==
  /\ Checking(key)
  /\ HasNewBar(key)
  /\ Tracked(key)
  /\ SeeNewest(key)
  /\ Len(alerts) < MaxAlerts
  /\ alerts' = Append(alerts, [key |-> key, bar |-> Newest(key)])
  /\ Telegram!Send(Len(alerts'))
  /\ UNCHANGED <<cutShort, errors, lives>>

\* run_once swallows what a check raises: the store before the bar is taken as
\* seen, a detector after it.
CheckRaises(key) ==
  /\ Checking(key)
  /\ errors < MaxErrors
  /\ errors' = errors + 1
  /\ (Tracked(key) /\ HasNewBar(key) /\ SeeNewest(key)) \/ UNCHANGED lastSeen
  /\ UNCHANGED <<telegramVars, alerts, cutShort, lives>>

Check(key) == CheckNothingNew(key) \/ CheckQuietly(key) \/ CheckAlerts(key) \/ CheckRaises(key)

SendMessage == Telegram!Post /\ UNCHANGED <<lastSeen, todo, history>>

\* The process ends at any point and is started again, with the configured ids.
Restart ==
  /\ lives < MaxLives
  /\ lives' = lives + 1
  /\ lastSeen' = <<>>
  /\ todo' = <<>>
  /\ chatIds' = Telegram!ConfiguredIds
  /\ outbox' = Telegram!Nothing
  /\ cutShort' = IF outbox = Telegram!Nothing THEN cutShort ELSE cutShort \cup {outbox.message}
  /\ UNCHANGED <<serverIds, delivered, failed, alerts, errors>>

Migrate(chat) == Telegram!Migrate(chat) /\ UNCHANGED <<lastSeen, todo, history>>

Poll == StartCycle \/ SendMessage \/ \E key \in Keys : Check(key)

Next == Poll \/ Restart \/ \E chat \in 1..Chats : Migrate(chat)

=============================================================================
