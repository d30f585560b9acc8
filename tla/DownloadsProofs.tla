---------------------------- MODULE DownloadsProofs ---------------------------
(***************************************************************************)
(* What the downloads guarantee for any number of symbols, workers and     *)
(* windows, any range and any session hours: no bar of a finished symbol   *)
(* is missing but those of the windows given up, and the requests of all   *)
(* threads are let through a gap apart.                                    *)
(*                                                                         *)
(* Neither is inductive.  JobsOnTrack says of every symbol in work that    *)
(* nothing before its cursor is missing, and of an answer that it holds    *)
(* what is missing of its window.  ThrottleKept says that whoever is in    *)
(* the throttle has its lock and will not leave it before the gap is over. *)
(***************************************************************************)
EXTENDS Downloads, ArithmeticLemmas, TLAPS

\* A job has left nothing out so far.
OnTrack(j) ==
  j.step # "idle" =>
    /\ DoneBefore(j.symbol, j.cursor)
    /\ j.step = "finish" => To <= j.cursor
    /\ j.step = "store" =>
         \A m \in j.cursor..(WindowEnd(j.cursor) - 1) :
           HasBar(m) => <<j.symbol, m>> \in candles \/ m \in j.bars

JobsOnTrack == \A w \in Workers : OnTrack(job[w])

ThrottleKept ==
  /\ quiet = elapsed
  /\ \A w \in Workers :
       job[w].step = "throttle" => lock = w /\ RequestGap <= elapsed + job[w].wait

IInv ==
  /\ TypeOK
  /\ JobsOnTrack
  /\ FinishedRangesCovered
  /\ ThrottleKept
  /\ RequestsSpaced

-----------------------------------------------------------------------------
(* Days and windows.                                                       *)

\* The sessions of one day lie before those of a later one.
LEMMA SessionsInOrder ==
  ASSUME DownloadsAssumption, NEW a \in Nat, NEW b \in Nat, a <= b
  PROVE  /\ Opening(a) \in Nat /\ Closing(a) \in Nat
         /\ Opening(a) <= Opening(b)
         /\ Closing(a) <= Closing(b)
<1> DEFINE d == DayMinutes
           p == d * (a \div d)
           q == d * (b \div d)
<1>1. d \in Nat \ {0} /\ SessionOpen \in Nat /\ SessionClose \in Nat
  BY DEF DownloadsAssumption
<1>2. a \div d <= b \div d /\ a \div d \in Int /\ b \div d \in Int
  BY <1>1, DivMonotone, DivMod
<1>3. p <= q /\ p \in Int /\ q \in Int
  BY <1>1, <1>2, TimesMonotone
<1>4. p \in Nat
  <2>1. a \div d \in Nat
    BY <1>1
  <2> QED BY <1>1, <2>1
<1>5. p = Day(a) * DayMinutes /\ q = Day(b) * DayMinutes
  BY <1>1, <1>2 DEF Day
<1> HIDE DEF p, q
<1> QED BY <1>1, <1>3, <1>4, <1>5 DEF Opening, Closing

\* Opening and closing are moments of their own session.
LEMMA EndsInSession ==
  ASSUME DownloadsAssumption, NEW a \in Nat
  PROVE  InSession(Opening(a)) /\ InSession(Closing(a))
<1> DEFINE d == DayMinutes
           n == a \div d
           p == d * n
<1>1. d \in Nat \ {0} /\ SessionOpen \in 0..(d - 1) /\ SessionClose \in SessionOpen..(d - 1)
  BY DEF DownloadsAssumption
<1>2. n \in Int
  BY <1>1, DivMod
<1>3. p \in Int
  BY <1>1, <1>2, TimesMonotone
<1>4. p = Day(a) * DayMinutes
  BY <1>1, <1>2 DEF Day
<1>5. ASSUME NEW x \in 0..(d - 1)
      PROVE  (p + x) \div d = n
  <2>1. p + x \in Int /\ d * n <= p + x /\ p + x < d * n + d
    <3> HIDE DEF d
    <3> QED BY <1>1, <1>3
  <2> HIDE DEF p, n
  <2> QED BY <1>1, <1>2, <2>1, DivUnique
<1>6. Opening(a) = p + SessionOpen /\ Closing(a) = p + SessionClose
  BY <1>4 DEF Opening, Closing
<1>7. Day(Opening(a)) = Day(a) /\ Day(Closing(a)) = Day(a)
  <2>1. (p + SessionOpen) \div d = n /\ (p + SessionClose) \div d = n
    BY <1>1, <1>5
  <2> QED BY <2>1, <1>6 DEF Day
<1>8. /\ Opening(Opening(a)) = Opening(a) /\ Closing(Opening(a)) = Closing(a)
      /\ Opening(Closing(a)) = Opening(a) /\ Closing(Closing(a)) = Closing(a)
  BY <1>7 DEF Opening, Closing
<1>9. Opening(a) \in Int /\ Closing(a) \in Int /\ Opening(a) <= Closing(a)
  <2> HIDE DEF p
  <2> QED BY <1>1, <1>3, <1>6
<1> QED BY <1>8, <1>9 DEF InSession

\* A window ends behind the moment it starts at, or at the end of the range.
LEMMA WindowEndType ==
  ASSUME DownloadsAssumption, NEW c \in Nat
  PROVE  WindowEnd(c) \in Nat /\ WindowEnd(c) <= To
<1> DEFINE far == c + WindowLength
<1>1. far \in Nat /\ To \in Nat
  BY DEF DownloadsAssumption
<1> HIDE DEF far
<1>2. Min({far, To}) \in {far, To} /\ Min({far, To}) <= To
  BY <1>1, MinOfTwo
<1> QED BY <1>1, <1>2 DEF WindowEnd, far

\* What a source answers has every bar of the window, wherever the window's ends
\* fall in the day (backfill.py:137-143, dhan_historical.py:168).
LEMMA WindowBarsComplete ==
  ASSUME DownloadsAssumption, source \in {"smartapi", "dhan"},
         NEW c \in Nat, NEW m \in c..(WindowEnd(c) - 1), HasBar(m)
  PROVE  m \in WindowBars(c)
<1> DEFINE e == WindowEnd(c)
<1>1. e \in Nat /\ m \in Nat /\ c <= m /\ m <= e
  BY WindowEndType
<1>2. CASE source = "dhan"
  BY <1>1, <1>2 DEF WindowBars, HistoryIn
<1>3. CASE source = "smartapi"
  <2>1. /\ Opening(c) \in Nat /\ Closing(e) \in Nat
        /\ Opening(c) <= Opening(m) /\ Closing(m) <= Closing(e)
        /\ Opening(m) \in Nat /\ Closing(m) \in Nat
    BY <1>1, SessionsInOrder
  <2>2. m \in Opening(c)..Closing(e)
    BY <1>1, <2>1 DEF HasBar
  <2>3. InSession(Opening(c)) /\ InSession(Closing(e))
    BY <1>1, EndsInSession
  <2> QED BY <1>3, <2>2, <2>3 DEF WindowBars, SmartApiBars, HistoryIn
<1> QED BY <1>2, <1>3

\* The bars asked for are minutes.
LEMMA WindowBarsType ==
  ASSUME DownloadsAssumption, NEW c \in Nat
  PROVE  WindowBars(c) \in SUBSET Nat
<1>1. WindowEnd(c) \in Nat
  BY WindowEndType
<1>2. Opening(c) \in Nat /\ Closing(WindowEnd(c)) \in Nat
  BY <1>1, SessionsInOrder
<1>3. HistoryIn(c, WindowEnd(c)) \subseteq Nat
  BY <1>1 DEF HistoryIn
<1>4. SmartApiBars(Opening(c), Closing(WindowEnd(c))) \subseteq Nat
  BY <1>2 DEF SmartApiBars, HistoryIn
<1> QED BY <1>3, <1>4 DEF WindowBars

-----------------------------------------------------------------------------
(* What every step leaves.                                                 *)

\* The table and the windows given up only grow.
Grown ==
  /\ candles \subseteq candles'
  /\ abandoned \subseteq abandoned'
  /\ from' = from

\* What is not missing before a minute stays so.
LEMMA DoneStays ==
  ASSUME Grown, NEW s, NEW c, DoneBefore(s, c)
  PROVE  DoneBefore(s, c)'
BY DEF Grown, DoneBefore, HasBar, Opening, Closing, Day, WindowEnd

\* A job that stays where it is stays on its track.
LEMMA TrackKept ==
  ASSUME Grown, NEW j, OnTrack(j)
  PROVE  OnTrack(j)'
BY DEF Grown, OnTrack, DoneBefore, HasBar, Opening, Closing, Day, WindowEnd

\* Only one worker's job changes, to one that is on its track.
LEMMA OneJobMoves ==
  ASSUME TypeOK, JobsOnTrack, Grown,
         NEW w \in Workers, NEW j, job' = [job EXCEPT ![w] = j], OnTrack(j)'
  PROVE  JobsOnTrack'
<1> SUFFICES ASSUME NEW v \in Workers PROVE OnTrack(job[v])'
  BY DEF JobsOnTrack
<1>1. PICK k : k = job[v]
  OBVIOUS
<1>2. OnTrack(k)
  BY <1>1 DEF JobsOnTrack
<1>3. OnTrack(k)'
  BY <1>2, TrackKept
<1>4. job'[v] = IF v = w THEN j ELSE k
  BY <1>1 DEF TypeOK
<1>5. CASE v = w
  BY <1>4, <1>5 DEF OnTrack
<1>6. CASE v # w
  BY <1>3, <1>4, <1>6 DEF OnTrack
<1> QED BY <1>5, <1>6

\* A symbol that is finished stays covered.
LEMMA FinishedKept ==
  ASSUME Grown, FinishedRangesCovered, finished' = finished
  PROVE  FinishedRangesCovered'
BY DoneStays DEF FinishedRangesCovered

\* A job at the start of its next window is on its track when nothing is
\* missing before it.
LEMMA AtIsOnTrack ==
  ASSUME DownloadsAssumption, NEW s, NEW c \in Nat, DoneBefore(s, c)'
  PROVE  OnTrack(At(s, c))'
<1>1. ~(c < To) => To <= c
  BY DEF DownloadsAssumption
<1> QED BY <1>1 DEF OnTrack, At

LEMMA AtType ==
  ASSUME DownloadsAssumption, NEW s \in Symbols, NEW c \in Nat
  PROVE  At(s, c) \in JobType
BY DEF At, JobType, Attempts, DownloadsAssumption

\* A worker's job changes to one on its track, outside the throttle.
Moved(w) ==
  \E j \in JobType : /\ job' = [job EXCEPT ![w] = j]
                     /\ j.step # "throttle"
                     /\ OnTrack(j)'

\* What a walk's step may do to the other variables.
Kept ==
  /\ UNCHANGED <<script, throttleVars>>
  /\ queue' \subseteq Symbols
  /\ candles' \subseteq Symbols \X Nat
  /\ finished' \subseteq Symbols
  /\ session' \in {"none", "valid", "invalid"}
  /\ accepted' \in BOOLEAN
  /\ refusals' \in 0..MaxRefusals
  /\ abandoned' \subseteq Symbols \X Nat

LEMMA WalkStep ==
  ASSUME IInv, Grown, Kept, NEW w \in Workers, Moved(w), FinishedRangesCovered'
  PROVE  IInv'
<1>1. PICK j \in JobType : /\ job' = [job EXCEPT ![w] = j]
                           /\ j.step # "throttle"
                           /\ OnTrack(j)'
  BY DEF Moved
<1>2. JobsOnTrack'
  BY <1>1, OneJobMoves DEF IInv
<1>3. TypeOK'
  BY <1>1 DEF IInv, TypeOK, Kept, script, throttleVars
<1>4. ThrottleKept' /\ RequestsSpaced'
  <2>1. /\ lock' = lock /\ elapsed' = elapsed /\ quiet' = quiet /\ closest' = closest
    BY DEF Kept, throttleVars
  <2>2. \A v \in Workers : job'[v].step = "throttle" => job'[v] = job[v]
    BY <1>1 DEF IInv, TypeOK
  <2> QED BY <2>1, <2>2 DEF IInv, ThrottleKept, RequestsSpaced
<1> QED BY <1>2, <1>3, <1>4 DEF IInv

\* What the record of a job at work holds.
LEMMA JobFields ==
  ASSUME TypeOK, NEW w \in Workers, job[w].step # "idle"
  PROVE  /\ job[w].symbol \in Symbols
         /\ job[w].cursor \in Nat
         /\ job[w].step = "store" => job[w].bars \in SUBSET Nat
         /\ job[w].step \notin {"store"} => job[w].attempt \in Attempts
<1>1. job[w] \in JobType
  BY DEF TypeOK
<1> QED BY <1>1 DEF JobType

\* A window given up leaves nothing else out.
LEMMA GivesUp ==
  ASSUME DownloadsAssumption, IInv, NEW w \in Workers, job[w].step # "idle",
         GiveUpWindow(w), from' = from
  PROVE  Moved(w) /\ Grown /\ abandoned' \subseteq Symbols \X Nat
<1>1. PICK s \in Symbols, c \in Nat : s = job[w].symbol /\ c = job[w].cursor
  BY JobFields DEF IInv
<1> DEFINE e == WindowEnd(c)
<1>2. e \in Nat
  BY WindowEndType
<1>3. /\ job' = [job EXCEPT ![w] = At(s, e)]
      /\ abandoned' = abandoned \cup {<<s, c>>}
      /\ candles' = candles
  BY <1>1 DEF GiveUpWindow
<1>4. Grown
  BY <1>3 DEF Grown
<1>5. abandoned' \subseteq Symbols \X Nat
  BY <1>3 DEF IInv, TypeOK
<1>6. DoneBefore(s, c)
  BY <1>1 DEF IInv, JobsOnTrack, OnTrack
<1>7. DoneBefore(s, e)'
  <2> SUFFICES ASSUME NEW m \in from..(e - 1), HasBar(m)
               PROVE  \/ <<s, m>> \in candles'
                      \/ \E window \in abandoned' :
                           window[1] = s /\ window[2] <= m /\ m < WindowEnd(window[2])
    BY <1>4 DEF DoneBefore, Grown, HasBar, Opening, Closing, Day, WindowEnd
  <2>0. from \in Nat
    BY DEF IInv, TypeOK, DownloadsAssumption
  <2>1. CASE m < c
    <3>1. m \in from..(c - 1)
      BY <2>0, <2>1
    <3> QED BY <1>4, <1>6, <3>1 DEF DoneBefore, Grown
  <2>2. CASE c <= m
    <3>1. <<s, c>> \in abandoned' /\ m < WindowEnd(c)
      BY <1>2, <1>3, <2>0
    <3> QED BY <2>2, <3>1
  <2> QED BY <2>0, <2>1, <2>2
<1>8. At(s, e) \in JobType /\ OnTrack(At(s, e))'
  BY <1>2, <1>7, AtType, AtIsOnTrack
<1>9. At(s, e).step # "throttle"
  BY DEF At
<1> QED BY <1>3, <1>4, <1>5, <1>8, <1>9 DEF Moved

\* An answer is stored before the walk goes on, and holds what is missing.
LEMMA Answers ==
  ASSUME DownloadsAssumption, IInv, NEW w \in Workers, job[w].step # "idle",
         Answered(w), from' = from
  PROVE  Moved(w) /\ Grown
<1>1. PICK s \in Symbols, c \in Nat, b \in SUBSET Nat :
        s = job[w].symbol /\ c = job[w].cursor /\ b = WindowBars(c)
  BY JobFields, WindowBarsType DEF IInv
<1> DEFINE j == [step |-> "store", symbol |-> s, cursor |-> c, bars |-> b]
<1>2. job' = [job EXCEPT ![w] = j]
  BY <1>1 DEF Answered
<1>3. Grown
  BY DEF Answered, walkVars, Grown
<1>4. j \in JobType
  BY DEF JobType
<1>5. OnTrack(j)
  <2>1. DoneBefore(s, c)
    BY <1>1 DEF IInv, JobsOnTrack, OnTrack
  <2>2. \A m \in c..(WindowEnd(c) - 1) : HasBar(m) => m \in b
    BY <1>1, WindowBarsComplete DEF IInv, TypeOK
  <2> QED BY <2>1, <2>2 DEF OnTrack
<1>6. OnTrack(j)'
  BY <1>3, <1>5, TrackKept
<1>7. j.step # "throttle"
  OBVIOUS
<1> HIDE DEF j
<1> QED BY <1>2, <1>3, <1>4, <1>6, <1>7 DEF Moved

\* A job that goes on with the same window stays on its track.
LEMMA StaysOnTrack ==
  ASSUME TypeOK, JobsOnTrack, Grown, NEW w \in Workers, job[w].step # "idle",
         NEW j, j.symbol = job[w].symbol, j.cursor = job[w].cursor,
         j.step \notin {"finish", "store"}
  PROVE  OnTrack(j)'
<1>1. OnTrack(j)
  BY DEF JobsOnTrack, OnTrack
<1> QED BY <1>1, TrackKept

\* A throttled request is made again or its window is given up.
LEMMA Throttles ==
  ASSUME DownloadsAssumption, IInv, NEW w \in Workers, job[w].step # "idle", NEW then,
         Throttled(w, then), from' = from,
         job[w].attempt + 1 # MaxAttempts => then \in JobType,
         then.step \notin {"finish", "store", "throttle"},
         then.symbol = job[w].symbol, then.cursor = job[w].cursor
  PROVE  Moved(w) /\ Grown /\ abandoned' \subseteq Symbols \X Nat
<1>1. CASE job[w].attempt + 1 = MaxAttempts
  BY <1>1, GivesUp DEF Throttled
<1>2. CASE job[w].attempt + 1 # MaxAttempts
  <2>1. job' = [job EXCEPT ![w] = then] /\ UNCHANGED walkVars
    BY <1>2 DEF Throttled
  <2>2. Grown
    BY <2>1 DEF walkVars, Grown
  <2>3. OnTrack(then)'
    BY <2>2, StaysOnTrack DEF IInv
  <2>4. abandoned' \subseteq Symbols \X Nat
    BY <2>1 DEF walkVars, IInv, TypeOK
  <2> QED BY <1>2, <2>1, <2>2, <2>3, <2>4 DEF Moved
<1> QED BY <1>1, <1>2

LEMMA RefusedType ==
  ASSUME DownloadsAssumption, TypeOK, Refused
  PROVE  refusals' \in 0..MaxRefusals
BY DEF Refused, TypeOK, DownloadsAssumption

-----------------------------------------------------------------------------
(* The initial states and the steps.                                       *)

LEMMA InitIInv ==
  ASSUME DownloadsAssumption, Init
  PROVE  IInv
<1>1. TypeOK
  <2>1. NoJob \in JobType
    BY DEF NoJob, JobType
  <2>2. job \in [Workers -> JobType]
    BY <2>1 DEF Init
  <2>3. session = "none" /\ accepted = FALSE
    BY DEF Init, Broker!Init
  <2>4. RequestGap \in 0..RequestGap /\ 0 \in 0..MaxRefusals
    BY DEF DownloadsAssumption
  <2>5. source \in {"smartapi", "dhan"} /\ from \in Starts
    BY DEF Init
  <2> QED BY <2>2, <2>3, <2>4, <2>5 DEF Init, TypeOK
<1>2. JobsOnTrack
  BY DEF Init, NoJob, JobsOnTrack, OnTrack
<1>3. FinishedRangesCovered
  BY DEF Init, FinishedRangesCovered
<1>4. ThrottleKept /\ RequestsSpaced
  BY DEF Init, NoJob, ThrottleKept, RequestsSpaced
<1> QED BY <1>1, <1>2, <1>3, <1>4 DEF IInv

LEMMA TakeStep ==
  ASSUME DownloadsAssumption, IInv, NEW w \in Workers, NEW s \in Symbols, Take(w, s)
  PROVE  IInv'
<1>1. PICK c \in Nat : c = from
  BY DEF IInv, TypeOK, DownloadsAssumption
<1>2. job' = [job EXCEPT ![w] = At(s, c)]
  BY <1>1 DEF Take
<1>3. Grown /\ from' = from
  BY DEF Take, Grown, script
<1>4. DoneBefore(s, c)'
  BY <1>1, <1>3 DEF DoneBefore
<1>5. At(s, c) \in JobType /\ OnTrack(At(s, c))'
  BY <1>4, AtType, AtIsOnTrack
<1>6. At(s, c).step # "throttle"
  BY DEF At
<1>7. Moved(w)
  BY <1>2, <1>5, <1>6 DEF Moved
<1>8. Kept
  BY DEF Take, IInv, TypeOK, Kept, sessionVars
<1>9. FinishedRangesCovered'
  BY <1>3, FinishedKept DEF Take, IInv
<1> QED BY <1>3, <1>7, <1>8, <1>9, WalkStep

LEMMA CallStep ==
  ASSUME DownloadsAssumption, IInv, NEW w \in Workers, Call(w)
  PROVE  IInv'
<1>1. job[w].step = "request" /\ UNCHANGED <<script, throttleVars>>
  BY DEF Call, Step
<1>2. from' = from
  BY <1>1 DEF script
<1>3. /\ Moved(w) /\ Grown
      /\ abandoned' \subseteq Symbols \X Nat
      /\ queue' = queue /\ candles' = candles /\ finished' = finished
      /\ session' \in {"none", "valid", "invalid"} /\ accepted' \in BOOLEAN
      /\ refusals' \in 0..MaxRefusals
  <2>0. /\ session \in {"none", "valid", "invalid"} /\ accepted \in BOOLEAN
        /\ refusals \in 0..MaxRefusals
    BY DEF IInv, TypeOK
  <2>1. CASE GiveUpWindow(w) /\ UNCHANGED <<sessionVars, refusals>>
    BY <1>1, <1>2, <2>0, <2>1, GivesUp DEF GiveUpWindow, sessionVars
  <2>2. CASE GiveUpWindow(w) /\ Broker!OnSessionExpired /\ UNCHANGED refusals
    BY <1>1, <1>2, <2>0, <2>2, GivesUp DEF GiveUpWindow, Broker!OnSessionExpired
  <2>3. CASE Answered(w) /\ UNCHANGED refusals /\ UNCHANGED sessionVars
    BY <1>1, <1>2, <2>0, <2>3, Answers DEF Answered, walkVars, sessionVars, IInv, TypeOK
  <2>4. CASE GiveUpWindow(w) /\ Refused /\ UNCHANGED sessionVars
    BY <1>1, <1>2, <2>0, <2>4, GivesUp, RefusedType DEF GiveUpWindow, sessionVars, IInv
  <2>5. CASE Throttled(w, [job[w] EXCEPT !.attempt = @ + 1]) /\ UNCHANGED sessionVars
    <3>1. PICK t : t = [job[w] EXCEPT !.attempt = @ + 1]
      OBVIOUS
    <3>2. Throttled(w, t)
      BY <2>5, <3>1
    <3>3. /\ t.step = "request" /\ t.symbol = job[w].symbol /\ t.cursor = job[w].cursor
          /\ job[w].attempt + 1 # MaxAttempts => t \in JobType
      <4>1. job[w] \in JobType
        BY DEF IInv, TypeOK
      <4> QED BY <1>1, <3>1, <4>1 DEF JobType, Attempts, DownloadsAssumption
    <3>4. Moved(w) /\ Grown /\ abandoned' \subseteq Symbols \X Nat
      BY <1>1, <1>2, <3>2, <3>3, Throttles
    <3>5. queue' = queue /\ candles' = candles /\ finished' = finished /\ refusals' = refusals
      BY <3>2 DEF Throttled, GiveUpWindow, walkVars
    <3> QED BY <2>0, <2>5, <3>4, <3>5 DEF sessionVars, IInv, TypeOK
  <2> QED BY <2>1, <2>2, <2>3, <2>4, <2>5 DEF Call
<1>4. Kept
  BY <1>1, <1>3 DEF Kept, IInv, TypeOK
<1>5. FinishedRangesCovered'
  BY <1>3, FinishedKept DEF IInv
<1> QED BY <1>3, <1>4, <1>5, WalkStep

LEMMA PostStep ==
  ASSUME DownloadsAssumption, IInv, NEW w \in Workers, Post(w)
  PROVE  IInv'
<1>1. job[w].step = "post" /\ UNCHANGED <<script, sessionVars, throttleVars>>
  BY DEF Post, Step
<1>2. from' = from
  BY <1>1 DEF script
<1>3. /\ Moved(w) /\ Grown
      /\ abandoned' \subseteq Symbols \X Nat
      /\ queue' = queue /\ candles' = candles /\ finished' = finished
      /\ refusals' \in 0..MaxRefusals
  <2>1. CASE Answered(w) /\ UNCHANGED refusals
    BY <1>1, <1>2, <2>1, Answers DEF Answered, walkVars, IInv, TypeOK
  <2>2. CASE GiveUpWindow(w) /\ Refused
    BY <1>1, <1>2, <2>2, GivesUp, RefusedType DEF GiveUpWindow, IInv
  <2>3. CASE Throttled(w, Waiting(w, "backoff", job[w].attempt + 1, 2 ^ job[w].attempt))
    <3>1. PICK s \in Symbols, c \in Nat, a \in Attempts :
            s = job[w].symbol /\ c = job[w].cursor /\ a = job[w].attempt
      BY <1>1, JobFields DEF IInv
    <3> DEFINE t == [step |-> "backoff", symbol |-> s, cursor |-> c,
                     attempt |-> a + 1, wait |-> 2 ^ a]
    <3>2. Throttled(w, t)
      BY <2>3, <3>1 DEF Waiting
    <3>3. a + 1 # MaxAttempts => t \in JobType
      <4>1. a + 1 # MaxAttempts => a + 1 \in Attempts
        BY DEF Attempts, DownloadsAssumption
      <4>2. 2 ^ a \in Int
        BY DEF Attempts, DownloadsAssumption
      <4> QED BY <4>1, <4>2 DEF JobType
    <3>4. t.step = "backoff" /\ t.symbol = s /\ t.cursor = c
      OBVIOUS
    <3> HIDE DEF t
    <3>5. Moved(w) /\ Grown /\ abandoned' \subseteq Symbols \X Nat
      BY <1>1, <1>2, <3>1, <3>2, <3>3, <3>4, Throttles
    <3>6. queue' = queue /\ candles' = candles /\ finished' = finished /\ refusals' = refusals
      BY <3>2 DEF Throttled, GiveUpWindow, walkVars
    <3> QED BY <3>5, <3>6 DEF IInv, TypeOK
  <2> QED BY <2>1, <2>2, <2>3 DEF Post
<1>4. Kept
  BY <1>1, <1>3 DEF Kept, IInv, TypeOK, sessionVars
<1>5. FinishedRangesCovered'
  BY <1>3, FinishedKept DEF IInv
<1> QED BY <1>3, <1>4, <1>5, WalkStep

LEMMA RetryStep ==
  ASSUME DownloadsAssumption, IInv, NEW w \in Workers, Retry(w)
  PROVE  IInv'
<1>1. job[w].step = "backoff" /\ job[w].wait = 0
  BY DEF Retry, Step
<1>2. PICK s \in Symbols, c \in Nat, a \in Attempts :
        job[w] = [step |-> "backoff", symbol |-> s, cursor |-> c, attempt |-> a, wait |-> 0]
  <2>1. job[w] \in JobType
    BY DEF IInv, TypeOK
  <2> QED BY <1>1, <2>1 DEF JobType
<1> DEFINE j == [step |-> "request", symbol |-> s, cursor |-> c, attempt |-> a, wait |-> 0]
<1>3. job' = [job EXCEPT ![w] = j]
  <2>1. [job[w] EXCEPT !.step = "request"] = j
    BY <1>2
  <2>2. job' = [job EXCEPT ![w] = [job[w] EXCEPT !.step = "request"]]
    BY DEF Retry
  <2> QED BY <2>1, <2>2
<1>4. j \in JobType
  BY DEF JobType
<1>5. Grown /\ Kept
  BY DEF Retry, Grown, Kept, script, walkVars, sessionVars, throttleVars, IInv, TypeOK
<1>6. OnTrack(j)'
  BY <1>1, <1>2, <1>5, StaysOnTrack DEF IInv
<1>7. Moved(w)
  BY <1>3, <1>4, <1>6 DEF Moved
<1>8. FinishedRangesCovered'
  BY <1>5, FinishedKept DEF Retry, walkVars, IInv
<1> QED BY <1>5, <1>7, <1>8, WalkStep

\* A job whose answer is stored goes on behind its window.
LEMMA GoesOn ==
  ASSUME DownloadsAssumption, IInv, Grown, NEW w \in Workers, job[w].step = "store",
         {job[w].symbol} \X job[w].bars \subseteq candles',
         job' = [job EXCEPT ![w] = At(@.symbol, WindowEnd(@.cursor))]
  PROVE  Moved(w)
<1>1. PICK s \in Symbols, c \in Nat, b \in SUBSET Nat :
        s = job[w].symbol /\ c = job[w].cursor /\ b = job[w].bars
  BY JobFields DEF IInv
<1> DEFINE e == WindowEnd(c)
<1>2. e \in Nat
  BY WindowEndType
<1>3. job' = [job EXCEPT ![w] = At(s, e)]
  BY <1>1
<1>4. /\ DoneBefore(s, c)
      /\ \A m \in c..(e - 1) : HasBar(m) => <<s, m>> \in candles \/ m \in b
  BY <1>1 DEF IInv, JobsOnTrack, OnTrack
<1>5. DoneBefore(s, e)'
  <2> SUFFICES ASSUME NEW m \in from..(e - 1), HasBar(m)
               PROVE  \/ <<s, m>> \in candles'
                      \/ \E window \in abandoned' :
                           window[1] = s /\ window[2] <= m /\ m < WindowEnd(window[2])
    BY DEF DoneBefore, Grown, HasBar, Opening, Closing, Day, WindowEnd
  <2>0. from \in Nat
    BY DEF IInv, TypeOK, DownloadsAssumption
  <2>1. CASE m < c
    <3>1. m \in from..(c - 1)
      BY <2>0, <2>1
    <3> QED BY <1>4, <3>1 DEF DoneBefore, Grown
  <2>2. CASE c <= m
    <3>1. m \in c..(e - 1)
      BY <1>2, <2>0, <2>2
    <3>2. <<s, m>> \in candles \/ m \in b
      BY <1>4, <3>1
    <3> QED BY <1>1, <3>2 DEF Grown
  <2> QED BY <2>0, <2>1, <2>2
<1>6. At(s, e) \in JobType /\ OnTrack(At(s, e))'
  BY <1>2, <1>5, AtType, AtIsOnTrack
<1>7. At(s, e).step # "throttle"
  BY DEF At
<1> QED BY <1>3, <1>6, <1>7 DEF Moved

LEMMA StoreWindowStep ==
  ASSUME DownloadsAssumption, IInv, NEW w \in Workers, StoreWindow(w)
  PROVE  IInv'
<1>1. Grown
  BY DEF StoreWindow, Grown, script
<1>2. Moved(w)
  BY <1>1, GoesOn DEF StoreWindow, Step
<1>3. Kept
  <2>1. job[w].symbol \in Symbols /\ job[w].bars \in SUBSET Nat
    BY JobFields DEF IInv, StoreWindow, Step
  <2>2. candles' \subseteq Symbols \X Nat
    BY <2>1 DEF StoreWindow, IInv, TypeOK
  <2> QED BY <2>2 DEF StoreWindow, Kept, IInv, TypeOK, sessionVars
<1>4. FinishedRangesCovered'
  BY <1>1, FinishedKept DEF StoreWindow, IInv
<1> QED BY <1>1, <1>2, <1>3, <1>4, WalkStep

LEMMA StoreRaisesStep ==
  ASSUME DownloadsAssumption, IInv, NEW w \in Workers, StoreRaises(w)
  PROVE  IInv'
<1>1. Grown
  BY DEF StoreRaises, Grown, script
<1>2. Moved(w)
  <2>1. NoJob \in JobType /\ NoJob.step # "throttle" /\ OnTrack(NoJob)'
    BY DEF NoJob, JobType, OnTrack
  <2> QED BY <2>1 DEF StoreRaises, Moved
<1>3. Kept
  <2>1. refusals' \in 0..MaxRefusals
    BY RefusedType DEF StoreRaises, IInv
  <2> QED BY <2>1 DEF StoreRaises, Kept, IInv, TypeOK, sessionVars
<1>4. FinishedRangesCovered'
  BY <1>1, FinishedKept DEF StoreRaises, IInv
<1> QED BY <1>1, <1>2, <1>3, <1>4, WalkStep

\* The symbol is finished: its cursor is at the end of the range, so that what is
\* missing before its cursor is all that is missing.
LEMMA FinishStep ==
  ASSUME DownloadsAssumption, IInv, NEW w \in Workers, Finish(w)
  PROVE  IInv'
<1>1. Grown
  BY DEF Finish, Grown, script
<1>2. Moved(w)
  <2>1. NoJob \in JobType /\ NoJob.step # "throttle" /\ OnTrack(NoJob)'
    BY DEF NoJob, JobType, OnTrack
  <2> QED BY <2>1 DEF Finish, Moved
<1>3. PICK s \in Symbols, c \in Nat : s = job[w].symbol /\ c = job[w].cursor
  BY JobFields DEF IInv, Finish, Step
<1>4. Kept
  BY <1>3 DEF Finish, Kept, IInv, TypeOK, sessionVars
<1>5. FinishedRangesCovered'
  <2>1. DoneBefore(s, c) /\ To <= c
    BY <1>3 DEF IInv, JobsOnTrack, OnTrack, Finish, Step
  <2>2. DoneBefore(s, To)
    <3>1. from \in Nat /\ To \in Nat
      BY DEF IInv, TypeOK, DownloadsAssumption
    <3>2. \A m \in from..(To - 1) : m \in from..(c - 1)
      BY <2>1, <3>1
    <3> QED BY <2>1, <3>2 DEF DoneBefore
  <2>3. \A x \in finished' : DoneBefore(x, To)
    BY <1>3, <2>2 DEF Finish, IInv, FinishedRangesCovered
  <2> QED BY <1>1, <2>3, DoneStays DEF FinishedRangesCovered
<1> QED BY <1>1, <1>2, <1>4, <1>5, WalkStep

LEMMA StoreBarStep ==
  ASSUME DownloadsAssumption, IInv, NEW w \in Workers, StoreBar(w)
  PROVE  IInv'
<1>1. PICK s \in Symbols, c \in Nat, b \in SUBSET Nat :
        job[w] = [step |-> "store", symbol |-> s, cursor |-> c, bars |-> b]
  <2>1. job[w] \in JobType /\ job[w].step = "store"
    BY DEF IInv, TypeOK, StoreBar, Step
  <2> QED BY <2>1 DEF JobType
<1>2. UNCHANGED <<script, queue, finished, sessionVars, throttleVars, refusals, abandoned>>
  BY DEF StoreBar
<1>3. Moved(w) /\ Grown /\ candles' \subseteq Symbols \X Nat
  <2>1. CASE b = {}
    <3>1. /\ candles' = candles
          /\ job' = [job EXCEPT ![w] = At(@.symbol, WindowEnd(@.cursor))]
      BY <1>1, <2>1 DEF StoreBar
    <3>2. Grown
      BY <1>2, <3>1 DEF Grown, script
    <3>3. {job[w].symbol} \X job[w].bars \subseteq candles'
      BY <1>1, <2>1
    <3>4. job[w].step = "store"
      BY <1>1
    <3>5. Moved(w)
      BY <3>1, <3>2, <3>3, <3>4, GoesOn
    <3> QED BY <3>1, <3>2, <3>5 DEF IInv, TypeOK
  <2>2. CASE b # {}
    <3>1. PICK x \in Nat : x = Min(b)
      BY <2>2, MinOfNaturals
    <3> DEFINE j == [step |-> "store", symbol |-> s, cursor |-> c, bars |-> b \ {x}]
    <3>2. /\ candles' = candles \cup {<<s, x>>}
          /\ job' = [job EXCEPT ![w] = [job[w] EXCEPT !.bars = b \ {x}]]
      BY <1>1, <2>2, <3>1 DEF StoreBar
    <3>3. job' = [job EXCEPT ![w] = j]
      <4>1. [job[w] EXCEPT !.bars = b \ {x}] = j
        BY <1>1
      <4> QED BY <3>2, <4>1
    <3>4. Grown
      BY <1>2, <3>2 DEF Grown, script
    <3>5. OnTrack(j)'
      <4>1. /\ DoneBefore(s, c)
            /\ \A m \in c..(WindowEnd(c) - 1) : HasBar(m) => <<s, m>> \in candles \/ m \in b
        BY <1>1 DEF IInv, JobsOnTrack, OnTrack
      <4>2. DoneBefore(s, c)'
        BY <3>4, <4>1, DoneStays
      <4>3. \A m \in c..(WindowEnd(c) - 1) :
              HasBar(m) => <<s, m>> \in candles' \/ m \in b \ {x}
        BY <3>2, <4>1
      <4> QED BY <4>2, <4>3 DEF OnTrack, HasBar, Opening, Closing, Day, WindowEnd
    <3>6. j \in JobType /\ j.step # "throttle"
      BY DEF JobType
    <3>7. candles' \subseteq Symbols \X Nat
      BY <3>2 DEF IInv, TypeOK
    <3> HIDE DEF j
    <3> QED BY <3>3, <3>4, <3>5, <3>6, <3>7 DEF Moved
  <2> QED BY <2>1, <2>2
<1>4. Kept
  BY <1>2, <1>3 DEF Kept, IInv, TypeOK, sessionVars
<1>5. FinishedRangesCovered'
  BY <1>2, <1>3, FinishedKept DEF IInv
<1> QED BY <1>3, <1>4, <1>5, WalkStep

-----------------------------------------------------------------------------
(* The throttle.                                                           *)

\* Who enters the throttle finds it empty, and has to wait for the rest of the gap.
LEMMA EnterThrottleStep ==
  ASSUME DownloadsAssumption, IInv, NEW w \in Workers, EnterThrottle(w)
  PROVE  IInv'
<1>1. PICK s \in Symbols, c \in Nat, a \in Attempts, t \in Nat :
        /\ s = job[w].symbol /\ c = job[w].cursor /\ a = job[w].attempt
        /\ t = RequestGap - elapsed
  <2>1. job[w].step = "request"
    BY DEF EnterThrottle, Step
  <2>2. RequestGap - elapsed \in Nat
    BY DEF IInv, TypeOK, DownloadsAssumption
  <2> QED BY <2>1, <2>2, JobFields DEF IInv
<1> DEFINE j == [step |-> "throttle", symbol |-> s, cursor |-> c, attempt |-> a, wait |-> t]
<1>2. job' = [job EXCEPT ![w] = j]
  BY <1>1 DEF EnterThrottle, Waiting
<1>3. /\ lock = NoWorker /\ lock' = w /\ job[w].step = "request"
      /\ UNCHANGED <<script, walkVars, sessionVars, elapsed, quiet, closest, refusals>>
  BY DEF EnterThrottle, Step
<1>4. Grown
  BY <1>3 DEF Grown, script, walkVars
<1>5. JobsOnTrack'
  <2>1. OnTrack(j)'
    BY <1>1, <1>3, <1>4, StaysOnTrack DEF IInv
  <2> QED BY <1>2, <1>4, <2>1, OneJobMoves DEF IInv
<1>6. TypeOK'
  <2>1. j \in JobType
    BY DEF JobType
  <2> HIDE DEF j
  <2>2. job' \in [Workers -> JobType]
    BY <1>2, <2>1 DEF IInv, TypeOK
  <2> QED BY <1>3, <2>2 DEF IInv, TypeOK, script, walkVars, sessionVars
<1>7. ThrottleKept' /\ RequestsSpaced'
  <2>1. \A v \in Workers : job[v].step # "throttle"
    BY <1>3 DEF IInv, ThrottleKept, DownloadsAssumption
  <2>2. \A v \in Workers : job'[v] = IF v = w THEN j ELSE job[v]
    BY <1>2 DEF IInv, TypeOK
  <2>3. RequestGap <= elapsed' + t
    BY <1>1, <1>3 DEF IInv, TypeOK, DownloadsAssumption
  <2> QED BY <1>3, <2>1, <2>2, <2>3 DEF IInv, ThrottleKept, RequestsSpaced
<1>8. FinishedRangesCovered'
  BY <1>3, <1>4, FinishedKept DEF walkVars, IInv
<1> QED BY <1>5, <1>6, <1>7, <1>8 DEF IInv

\* Who leaves it has waited until the gap was over.
LEMMA LeaveThrottleStep ==
  ASSUME DownloadsAssumption, IInv, NEW w \in Workers, LeaveThrottle(w)
  PROVE  IInv'
<1>1. job[w].step = "throttle" /\ job[w].wait = 0
  BY DEF LeaveThrottle, Step
<1>2. PICK s \in Symbols, c \in Nat, a \in Attempts :
        job[w] = [step |-> "throttle", symbol |-> s, cursor |-> c, attempt |-> a, wait |-> 0]
  <2>1. job[w] \in JobType
    BY DEF IInv, TypeOK
  <2> QED BY <1>1, <2>1 DEF JobType
<1> DEFINE j == [step |-> "post", symbol |-> s, cursor |-> c, attempt |-> a, wait |-> 0]
<1>3. job' = [job EXCEPT ![w] = j]
  <2>1. [job[w] EXCEPT !.step = "post"] = j
    BY <1>2
  <2>2. job' = [job EXCEPT ![w] = [job[w] EXCEPT !.step = "post"]]
    BY DEF LeaveThrottle
  <2> QED BY <2>1, <2>2
<1>4. /\ lock' = NoWorker /\ elapsed' = 0 /\ quiet' = 0 /\ closest' = Min({closest, quiet})
      /\ UNCHANGED <<script, walkVars, sessionVars, refusals>>
  BY DEF LeaveThrottle
<1>5. Grown
  BY <1>4 DEF Grown, script, walkVars
<1>6. JobsOnTrack'
  <2>1. OnTrack(j)'
    BY <1>1, <1>2, <1>5, StaysOnTrack DEF IInv
  <2> QED BY <1>3, <1>5, <2>1, OneJobMoves DEF IInv
<1>7. closest' = RequestGap /\ RequestGap \in Nat
  <2>1. lock = w /\ RequestGap <= elapsed /\ elapsed \in 0..RequestGap /\ quiet = elapsed
    BY <1>1 DEF IInv, TypeOK, ThrottleKept
  <2>2. RequestGap \in Nat
    BY DEF DownloadsAssumption
  <2>3. quiet = RequestGap /\ closest = RequestGap
    BY <2>1, <2>2 DEF IInv, RequestsSpaced
  <2>4. Min({RequestGap, RequestGap}) \in {RequestGap, RequestGap}
    BY <2>2, MinOfTwo
  <2> QED BY <1>4, <2>2, <2>3, <2>4
<1>8. TypeOK'
  <2>1. j \in JobType
    BY DEF JobType
  <2> HIDE DEF j
  <2>2. job' \in [Workers -> JobType]
    BY <1>3, <2>1 DEF IInv, TypeOK
  <2>3. 0 \in 0..RequestGap /\ closest' \in 0..RequestGap
    BY <1>7
  <2> QED BY <1>4, <2>2, <2>3 DEF IInv, TypeOK, script, walkVars, sessionVars
<1>9. ThrottleKept' /\ RequestsSpaced'
  <2>1. \A v \in Workers : job[v].step = "throttle" => v = w
    BY <1>1 DEF IInv, ThrottleKept
  <2>2. \A v \in Workers : job'[v] = IF v = w THEN j ELSE job[v]
    BY <1>3 DEF IInv, TypeOK
  <2>3. \A v \in Workers : job'[v].step # "throttle"
    BY <2>1, <2>2
  <2> QED BY <1>4, <1>7, <2>3 DEF ThrottleKept, RequestsSpaced
<1>10. FinishedRangesCovered'
  BY <1>4, <1>5, FinishedKept DEF walkVars, IInv
<1> QED BY <1>6, <1>8, <1>9, <1>10 DEF IInv

\* Time goes by for the throttle no faster than for who waits in it.
LEMMA TickStep ==
  ASSUME DownloadsAssumption, IInv, Tick
  PROVE  IInv'
<1>1. UNCHANGED <<script, walkVars, sessionVars, lock, closest, refusals>>
  BY DEF Tick
<1>2. Grown
  BY <1>1 DEF Grown, script, walkVars
<1>3. PICK t \in 0..RequestGap : elapsed' = t /\ quiet' = t /\ t \in {elapsed + 1, RequestGap}
  <2>1. elapsed + 1 \in Nat /\ RequestGap \in Nat /\ quiet = elapsed
    BY DEF IInv, TypeOK, ThrottleKept, DownloadsAssumption
  <2>2. PICK u \in Int : u = elapsed + 1
    BY <2>1
  <2>3. Min({u, RequestGap}) \in {u, RequestGap} /\ Min({u, RequestGap}) <= RequestGap
    <3>1. RequestGap \in Int
      BY <2>1
    <3> QED BY <3>1, MinOfTwo
  <2>4. elapsed' = Min({u, RequestGap}) /\ quiet' = Min({u, RequestGap})
    BY <2>1, <2>2 DEF Tick, Capped
  <2> QED BY <2>1, <2>2, <2>3, <2>4
<1>4. ASSUME NEW v \in Workers
      PROVE  /\ job'[v] \in JobType
             /\ OnTrack(job[v])'
             /\ job'[v].step = "throttle" =>
                  lock' = v /\ RequestGap <= elapsed' + job'[v].wait
  <2>0. job[v] \in JobType /\ OnTrack(job[v])
    BY DEF IInv, TypeOK, JobsOnTrack
  <2>1. CASE job[v].step \in {"throttle", "backoff"} /\ job[v].wait > 0
    <3>1. PICK s \in Symbols, c \in Nat, a \in Attempts, p \in {"throttle", "backoff"}, n \in Nat :
            /\ n > 0
            /\ job[v] = [step |-> p, symbol |-> s, cursor |-> c, attempt |-> a, wait |-> n]
      BY <2>0, <2>1 DEF JobType
    <3> DEFINE j == [step |-> p, symbol |-> s, cursor |-> c, attempt |-> a, wait |-> n - 1]
    <3>2. job'[v] = j
      <4>1. job'[v] = [job[v] EXCEPT !.wait = @ - 1]
        BY <2>1 DEF Tick, Step
      <4> QED BY <3>1, <4>1
    <3>3. j \in JobType
      BY <3>1 DEF JobType
    <3>4. OnTrack(j)'
      BY <1>2, <2>1, <3>1, StaysOnTrack DEF IInv
    <3>5. p = "throttle" => lock = v /\ RequestGap <= elapsed + n
      BY <3>1 DEF IInv, ThrottleKept
    <3>6. p = "throttle" => RequestGap <= t + (n - 1)
      BY <1>3, <3>1, <3>5 DEF IInv, TypeOK, DownloadsAssumption
    <3>7. OnTrack(job[v])'
      BY <3>2, <3>4 DEF OnTrack
    <3> QED BY <1>1, <1>3, <3>2, <3>3, <3>5, <3>6, <3>7
  <2>2. CASE ~(job[v].step \in {"throttle", "backoff"} /\ job[v].wait > 0)
    <3>1. PICK k : k = job[v]
      OBVIOUS
    <3>2. job'[v] = k
      BY <2>2, <3>1 DEF Tick, Step
    <3>3. OnTrack(k)'
      BY <1>2, <2>0, <3>1, TrackKept
    <3>4. k.step = "throttle" => lock = v /\ elapsed = RequestGap /\ k.wait \in Nat
      <4>1. k.step = "throttle" => k.wait = 0 /\ RequestGap <= elapsed + k.wait /\ lock = v
        BY <2>0, <2>2, <3>1 DEF JobType, IInv, ThrottleKept
      <4> QED BY <4>1 DEF IInv, TypeOK, DownloadsAssumption
    <3>5. k.step = "throttle" => RequestGap <= t + k.wait
      BY <1>3, <3>4 DEF DownloadsAssumption
    <3>6. OnTrack(job[v])'
      BY <3>2, <3>3 DEF OnTrack
    <3> QED BY <1>1, <1>3, <2>0, <3>1, <3>2, <3>4, <3>5, <3>6
  <2> QED BY <2>1, <2>2
<1>5. TypeOK'
  <2>1. job' \in [Workers -> JobType]
    <3>1. job' = [v \in Workers |-> job'[v]]
      BY DEF Tick
    <3> QED BY <1>4, <3>1
  <2> QED BY <1>1, <1>3, <2>1 DEF IInv, TypeOK, script, walkVars, sessionVars
<1>6. JobsOnTrack'
  BY <1>4 DEF JobsOnTrack
<1>7. ThrottleKept' /\ RequestsSpaced'
  BY <1>1, <1>3, <1>4 DEF IInv, ThrottleKept, RequestsSpaced
<1>8. FinishedRangesCovered'
  BY <1>1, <1>2, FinishedKept DEF walkVars, IInv
<1> QED BY <1>5, <1>6, <1>7, <1>8 DEF IInv

-----------------------------------------------------------------------------
(* The session, and the theorems.                                          *)

\* A step that moves nobody.
LEMMA NobodyMoves ==
  ASSUME DownloadsAssumption, IInv, Kept, job' = job,
         UNCHANGED <<candles, finished, abandoned>>
  PROVE  IInv'
<1>1. Grown
  BY DEF Kept, Grown, script
<1>2. JobsOnTrack'
  <2> SUFFICES ASSUME NEW v \in Workers PROVE OnTrack(job[v])'
    BY DEF JobsOnTrack
  <2>1. PICK k : k = job[v]
    OBVIOUS
  <2>2. OnTrack(k)'
    BY <1>1, <2>1, TrackKept DEF IInv, JobsOnTrack
  <2> QED BY <2>1, <2>2 DEF OnTrack
<1>3. FinishedRangesCovered'
  BY <1>1, FinishedKept DEF IInv
<1>4. TypeOK' /\ ThrottleKept' /\ RequestsSpaced'
  BY DEF Kept, IInv, TypeOK, ThrottleKept, RequestsSpaced, script, throttleVars
<1> QED BY <1>2, <1>3, <1>4 DEF IInv

LEMMA StartStep ==
  ASSUME DownloadsAssumption, IInv, Start
  PROVE  IInv'
<1>1. Kept
  BY DEF Start, Kept, IInv, TypeOK, Broker!LoginSucceeds, Broker!LoginFails, Broker!vars
<1> QED BY <1>1, NobodyMoves DEF Start

LEMMA SessionEventStep ==
  ASSUME DownloadsAssumption, IInv, SessionEvent
  PROVE  IInv'
<1>1. session' \in {"none", "valid", "invalid"} /\ accepted' \in BOOLEAN
  <2>1. session \in {"none", "valid", "invalid"} /\ accepted \in BOOLEAN
    BY DEF IInv, TypeOK
  <2> QED BY <2>1 DEF SessionEvent, Broker!Expire, Broker!Renew, Broker!Login, Broker!Refresh,
                      Broker!Logout, Broker!LoginSucceeds, Broker!LoginFails, Broker!vars
<1>2. Kept
  BY <1>1 DEF SessionEvent, Kept, IInv, TypeOK, walkVars
<1> QED BY <1>2, NobodyMoves DEF SessionEvent, walkVars

LEMMA NextIInv ==
  ASSUME DownloadsAssumption, IInv, [Next]_vars
  PROVE  IInv'
<1>1. ASSUME Start PROVE IInv'
  BY <1>1, StartStep
<1>2. ASSUME SessionEvent PROVE IInv'
  BY <1>2, SessionEventStep
<1>3. ASSUME Tick PROVE IInv'
  BY <1>3, TickStep
<1>4. ASSUME NEW w \in Workers, Work(w) PROVE IInv'
  BY <1>4, TakeStep, CallStep, EnterThrottleStep, LeaveThrottleStep, PostStep, RetryStep,
     StoreWindowStep, StoreBarStep, FinishStep DEF Work
<1>5. ASSUME NEW w \in Workers, StoreRaises(w) PROVE IInv'
  BY <1>5, StoreRaisesStep
<1>6. ASSUME UNCHANGED vars PROVE IInv'
  <2>1. Kept
    BY <1>6 DEF vars, Kept, script, throttleVars, IInv, TypeOK
  <2> QED BY <1>6, <2>1, NobodyMoves DEF vars
<1> QED BY <1>1, <1>2, <1>3, <1>4, <1>5, <1>6 DEF Next

LEMMA SpecIInv == Spec => []IInv
<1>1. Init => IInv
  BY DownloadsAssumption, InitIInv
<1>2. IInv /\ [Next]_vars => IInv'
  BY DownloadsAssumption, NextIInv
<1> QED BY <1>1, <1>2, PTL DEF Spec

\* Every job is of one of the shapes its step has, and makes no more attempts for
\* a window than it may.
THEOREM DownloadsTypeOK == Spec => []TypeOK
<1>1. IInv => TypeOK
  BY DEF IInv
<1> QED BY <1>1, SpecIInv, PTL

\* No bar is missing of a finished symbol but those of the windows given up, for
\* any range, window length, session hours and number of workers.
THEOREM RangesAreCovered == Spec => []FinishedRangesCovered
<1>1. IInv => FinishedRangesCovered
  BY DEF IInv
<1> QED BY <1>1, SpecIInv, PTL

\* Any number of threads is let through at least a gap apart.
THEOREM RequestsAreSpaced == Spec => []RequestsSpaced
<1>1. IInv => RequestsSpaced
  BY DEF IInv
<1> QED BY <1>1, SpecIInv, PTL

=============================================================================
