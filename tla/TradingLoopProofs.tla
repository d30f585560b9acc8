--------------------------- MODULE TradingLoopProofs ---------------------------
(***************************************************************************)
(* What the risk manager and the executor guarantee together, for any      *)
(* number of orders, slots and restarts and any store that may raise, and  *)
(* what evidence the signal engine asks for before it trades.              *)
(***************************************************************************)
EXTENDS TradingLoop, ArithmeticLemmas, FiniteSetTheorems, SequenceTheorems, TLAPS

-----------------------------------------------------------------------------
(* The invariant.                                                          *)

Slots == {id \in firstId..(nextId - 1) : id \notin Reported}

\* The orders of this process are the numbers it has given out; each is pending,
\* open or gone, and a walk is over open ones.
BookOfThisProcess ==
  /\ nextId \in Nat
  /\ firstId \in 1..nextId
  /\ DOMAIN pending \subseteq firstId..(nextId - 1)
  /\ DOMAIN open \subseteq firstId..(nextId - 1)
  /\ DOMAIN pending \cap DOMAIN open = {}
  /\ call.todo \subseteq DOMAIN open

\* A trade is journaled once, after it has left the book, and what the risk
\* manager has not been told of is a trade of this process.
JournalOfPast ==
  /\ \E S : journal \in Seq(S)
  /\ accounted \in 0..Len(journal)
  /\ \A k \in 1..Len(journal) :
       journal[k].id \in (1..(nextId - 1)) \ (DOMAIN pending \cup DOMAIN open)
  /\ \A k \in (accounted + 1)..Len(journal) : journal[k].id >= firstId
  /\ \A j, k \in 1..Len(journal) : journal[j].id = journal[k].id => j = k

SlotsBounded ==
  /\ openPositions \in Nat
  /\ openPositions <= MaxOpenPositions
  /\ openPositions = Cardinality(Slots)

LoopInv == BookOfThisProcess /\ JournalOfPast /\ SlotsBounded

-----------------------------------------------------------------------------
(* The operators.                                                          *)

LEMMA RestrictedBook ==
  ASSUME NEW f, NEW S \in SUBSET DOMAIN f
  PROVE  DOMAIN Exec!Restrict(f, S) = S
BY DEF Exec!Restrict

\* A row more, in a sequence of whatever rows.
LEMMA OneRowMore ==
  ASSUME NEW S, NEW J \in Seq(S), NEW row, NEW K, K = Append(J, row)
  PROVE  /\ \E T : K \in Seq(T)
         /\ Len(J) \in Nat /\ Len(K) = Len(J) + 1
         /\ K[Len(J) + 1] = row
         /\ \A k \in 1..Len(J) : K[k] = J[k]
<1> DEFINE T == S \cup {row}
<1>1. J \in Seq(T)
  OBVIOUS
<1> HIDE DEF T
<1>2. row \in T
  BY DEF T
<1> QED BY <1>1, <1>2, AppendProperties, LenProperties

LEMMA SlotsFinite ==
  ASSUME BookOfThisProcess
  PROVE  IsFiniteSet(Slots) /\ Cardinality(Slots) \in Nat
<1>1. IsFiniteSet(firstId..(nextId - 1))
  BY FS_Interval DEF BookOfThisProcess
<1>2. Slots \subseteq firstId..(nextId - 1)
  BY DEF Slots
<1> QED BY <1>1, <1>2, FS_Subset, FS_CardinalityType

\* A step that leaves the journal, the slots and the numbers of the book.
LEMMA BookKept ==
  ASSUME LoopInv,
         UNCHANGED <<nextId, firstId, journal, accounted, openPositions>>,
         DOMAIN pending' \cup DOMAIN open' = DOMAIN pending \cup DOMAIN open,
         DOMAIN pending' \cap DOMAIN open' = {},
         call'.todo \subseteq DOMAIN open'
  PROVE  LoopInv'
<1>1. BookOfThisProcess'
  BY DEF LoopInv, BookOfThisProcess
<1>2. JournalOfPast'
  BY DEF LoopInv, JournalOfPast
<1>3. Slots' = Slots
  BY DEF Slots, Reported
<1> QED BY <1>1, <1>2, <1>3 DEF LoopInv, SlotsBounded

-----------------------------------------------------------------------------
(* The steps.                                                              *)

LEMMA InitLoopInv ==
  ASSUME LoopAssumption, Init
  PROVE  LoopInv
<1>1. /\ DOMAIN pending = {} /\ DOMAIN open = {} /\ call.todo = {}
      /\ nextId = 1 /\ firstId = 1 /\ journal = <<>> /\ Len(journal) = 0
      /\ accounted = 0 /\ openPositions = 0
  BY DEF Init, Exec!Init, Risk!Init, Exec!NoCall
<1>2. BookOfThisProcess
  BY <1>1 DEF BookOfThisProcess
<1>3. JournalOfPast
  <2>1. \E S : journal \in Seq(S)
    BY <1>1
  <2> QED BY <1>1, <2>1 DEF JournalOfPast
<1>4. Slots = {}
  BY <1>1 DEF Slots
<1>5. SlotsBounded
  BY <1>1, <1>4, FS_EmptySet DEF SlotsBounded, LoopAssumption
<1> QED BY <1>2, <1>3, <1>5 DEF LoopInv

\* An approved order takes a free slot.
LEMMA EnterTradeStep ==
  ASSUME LoopAssumption, LoopInv, NEW s, NEW i, EnterTrade(s, i)
  PROVE  LoopInv'
<1>1. PICK n \in Nat \ {0}, f \in Nat : n = nextId /\ f = firstId /\ f \in 1..n
  BY DEF LoopInv, BookOfThisProcess
<1>2. /\ DOMAIN pending' = DOMAIN pending \cup {n}
      /\ nextId' = n + 1
      /\ UNCHANGED <<open, journal, call, accounted, firstId>>
  BY <1>1 DEF EnterTrade, Exec!SubmitOrder, driver
<1>3. openPositions < MaxOpenPositions /\ openPositions' = openPositions + 1
  BY DEF EnterTrade, Risk!OpenTrade, Risk!Approves, Risk!WithinLimits, Risk!RecordTradeOpened
<1>4. BookOfThisProcess'
  BY <1>1, <1>2 DEF LoopInv, BookOfThisProcess
<1>5. JournalOfPast'
  BY <1>1, <1>2 DEF LoopInv, JournalOfPast, BookOfThisProcess
<1>6. Slots' = Slots \cup {n} /\ n \notin Slots
  <2>1. n \notin Reported
    BY <1>1 DEF LoopInv, JournalOfPast, Reported
  <2>2. Reported' = Reported
    BY <1>2 DEF Reported
  <2> QED BY <1>1, <1>2, <2>1, <2>2 DEF Slots
<1>7. Cardinality(Slots') = Cardinality(Slots) + 1
  BY <1>6, SlotsFinite, FS_AddElement DEF LoopInv
<1> QED BY <1>3, <1>4, <1>5, <1>7 DEF LoopInv, SlotsBounded, LoopAssumption

\* A settled position leaves the book, journaled or not.
LEMMA SettleStep ==
  ASSUME LoopInv, NEW id \in DOMAIN open, NEW x, NEW reason, NEW rest,
         Exec!Settle(id, x, reason, rest), rest.todo \subseteq DOMAIN open \ {id},
         UNCHANGED <<pending, nextId, firstId, accounted, openPositions>>
  PROVE  LoopInv'
<1>1. DOMAIN open' = DOMAIN open \ {id}
  BY RestrictedBook DEF Exec!Settle
<1>2. call'.todo \subseteq DOMAIN open'
  BY <1>1 DEF Exec!Settle, Exec!NoCall
<1>3. BookOfThisProcess'
  BY <1>1, <1>2 DEF LoopInv, BookOfThisProcess
<1>4. CASE journal' = journal
  <2>1. JournalOfPast'
    BY <1>1, <1>4 DEF LoopInv, JournalOfPast
  <2>2. Slots' = Slots
    BY <1>4 DEF Slots, Reported
  <2> QED BY <1>3, <2>1, <2>2 DEF LoopInv, SlotsBounded
<1>5. CASE journal' # journal
  <2>1. PICK row : journal' = Append(journal, row) /\ row.id = id
    BY <1>5 DEF Exec!Settle, Exec!JournalRow
  <2>2. PICK S, J : J = journal /\ J \in Seq(S)
    BY DEF LoopInv, JournalOfPast
  <2>3. PICK K : K = journal'
    OBVIOUS
  <2>4. PICK n \in Nat : n = Len(J)
    BY <2>2, LenProperties
  <2>5. /\ \E T : K \in Seq(T)
        /\ Len(K) = n + 1
        /\ K[n + 1] = row
        /\ \A k \in 1..n : K[k] = J[k]
    <3>1. J \in Seq(S) /\ K = Append(J, row)
      BY <2>1, <2>2, <2>3
    <3>2. /\ \E T : K \in Seq(T)
          /\ Len(K) = Len(J) + 1
          /\ K[Len(J) + 1] = row
          /\ \A k \in 1..Len(J) : K[k] = J[k]
      BY <3>1, OneRowMore
    <3> QED BY <2>4, <3>2
  <2>6. PICK a \in 0..n, m \in Nat, f \in Nat :
          a = accounted /\ m = nextId /\ f = firstId /\ f \in 1..m
    BY <2>2, <2>4 DEF LoopInv, JournalOfPast, BookOfThisProcess
  <2>7. \A k \in 1..(n + 1) : k \in 1..n \/ k = n + 1
    OBVIOUS
  <2>8. /\ \A k \in 1..n : J[k].id \in (1..(m - 1)) \ (DOMAIN pending \cup DOMAIN open)
        /\ \A k \in (a + 1)..n : J[k].id >= f
        /\ \A j, k \in 1..n : J[j].id = J[k].id => j = k
    BY <2>2, <2>4, <2>6 DEF LoopInv, JournalOfPast
  <2>9. id \in f..(m - 1) /\ id \notin DOMAIN pending
    BY <2>6 DEF LoopInv, BookOfThisProcess
  <2>10. \A k \in 1..(n + 1) :
           K[k].id \in (1..(m - 1)) \ (DOMAIN pending \cup (DOMAIN open \ {id}))
    <3>1. \A k \in 1..n :
            K[k].id \in (1..(m - 1)) \ (DOMAIN pending \cup (DOMAIN open \ {id}))
      BY <2>5, <2>8
    <3>2. K[n + 1].id \in (1..(m - 1)) \ (DOMAIN pending \cup (DOMAIN open \ {id}))
      BY <2>1, <2>5, <2>6, <2>9
    <3> QED BY <2>7, <3>1, <3>2
  <2>11. \A k \in (a + 1)..(n + 1) : K[k].id >= f
    BY <2>1, <2>5, <2>6, <2>7, <2>8, <2>9
  <2>12. \A j, k \in 1..(n + 1) : K[j].id = K[k].id => j = k
    <3>1. \A k \in 1..n : K[k].id # id /\ K[k].id = J[k].id
      BY <2>5, <2>8
    <3>2. K[n + 1].id = id
      BY <2>1, <2>5
    <3> QED BY <2>7, <2>8, <3>1, <3>2
  <2>13. JournalOfPast'
    <3>1. /\ Len(journal') = n + 1 /\ accounted' = a /\ a \in 0..(n + 1)
          /\ nextId' = m /\ firstId' = f
          /\ DOMAIN pending' = DOMAIN pending /\ DOMAIN open' = DOMAIN open \ {id}
      BY <1>1, <2>3, <2>5, <2>6
    <3>2. \E T : journal' \in Seq(T)
      BY <2>3, <2>5
    <3> QED BY <2>3, <2>10, <2>11, <2>12, <3>1, <3>2 DEF JournalOfPast
  <2>14. Slots' = Slots
    <3>1. Reported' = Reported
      BY <2>2, <2>3, <2>5, <2>6 DEF Reported
    <3> QED BY <3>1 DEF Slots
  <2> QED BY <1>3, <2>13, <2>14 DEF LoopInv, SlotsBounded
<1> QED BY <1>4, <1>5

LEMMA BarOpenStep ==
  ASSUME LoopInv, NEW i, NEW price, BarOpen(i, price)
  PROVE  LoopInv'
<1>1. PICK P \in SUBSET DOMAIN pending : P = Exec!PendingFor(i)
  BY DEF Exec!PendingFor, Exec!OrdersFor
<1>2. /\ DOMAIN open' = DOMAIN open \cup P
      /\ DOMAIN pending' = DOMAIN pending \ P
      /\ UNCHANGED <<nextId, firstId, journal, accounted, openPositions, call>>
  BY <1>1, RestrictedBook DEF BarOpen, Exec!OnBarOpen, riskVars, driver
<1>3. DOMAIN pending' \cap DOMAIN open' = {} /\ call'.todo \subseteq DOMAIN open'
  BY <1>2 DEF LoopInv, BookOfThisProcess
<1> QED BY <1>2, <1>3, BookKept

LEMMA PriceUpdateStep ==
  ASSUME LoopInv, NEW i, NEW price, PriceUpdate(i, price)
  PROVE  LoopInv'
<1>1. /\ UNCHANGED <<pending, open, nextId, firstId, journal, accounted, openPositions>>
      /\ call'.todo \subseteq DOMAIN open
  BY DEF PriceUpdate, Exec!OnPriceUpdate, Exec!OpenFor, Exec!OrdersFor, riskVars, driver
<1>2. DOMAIN pending' \cap DOMAIN open' = {}
  BY <1>1 DEF LoopInv, BookOfThisProcess
<1> QED BY <1>1, <1>2, BookKept

\* A walk is at a position that is open.
LEMMA CurrentOpen ==
  ASSUME LoopInv, ~Exec!Idle
  PROVE  /\ Exec!Current \in DOMAIN open
         /\ Exec!AfterCurrent.todo \subseteq DOMAIN open \ {Exec!Current}
<1>1. PICK T \in SUBSET Nat : T = call.todo /\ T # {} /\ T \subseteq DOMAIN open
  BY DEF LoopInv, BookOfThisProcess, Exec!Idle
<1>2. PICK c \in T : c = Min(T)
  BY <1>1, MinOfNaturals
<1>3. Exec!Current = c
  BY <1>1, <1>2 DEF Exec!Current, Exec!Min, Min
<1>4. [call EXCEPT !.todo = T \ {c}].todo \subseteq DOMAIN open \ {c}
  BY <1>1
<1> QED BY <1>1, <1>3, <1>4 DEF Exec!AfterCurrent, Exec!NoCall

LEMMA VisitPositionStep ==
  ASSUME LoopInv, VisitPosition
  PROVE  LoopInv'
<1>1. ~Exec!Idle /\ UNCHANGED <<pending, nextId, firstId, accounted, openPositions>>
  BY DEF VisitPosition, Exec!VisitPosition, riskVars, driver
<1>2. PICK c, rest :
        /\ c = Exec!Current /\ c \in DOMAIN open
        /\ rest = Exec!AfterCurrent /\ rest.todo \subseteq DOMAIN open \ {c}
  BY <1>1, CurrentOpen
<1>3. CASE Exec!StopOut \/ Exec!TakeTarget
  <2>1. PICK x, reason : Exec!Settle(c, x, reason, rest)
    BY <1>2, <1>3 DEF Exec!StopOut, Exec!TakeTarget
  <2> QED BY <1>1, <1>2, <2>1, SettleStep
<1>4. CASE Exec!Hold
  <2>1. DOMAIN open' = DOMAIN open /\ call' = rest /\ journal' = journal
    BY <1>2, <1>4 DEF Exec!Hold
  <2>2. DOMAIN pending' \cap DOMAIN open' = {} /\ call'.todo \subseteq DOMAIN open'
    BY <1>1, <1>2, <2>1 DEF LoopInv, BookOfThisProcess
  <2> QED BY <1>1, <2>1, <2>2, BookKept
<1> QED BY <1>3, <1>4 DEF VisitPosition, Exec!VisitPosition

LEMMA SessionCloseStep ==
  ASSUME LoopInv, NEW id, NEW price, SessionClose(id, price)
  PROVE  LoopInv'
<1>1. PICK rest : rest = Exec!NoCall
  OBVIOUS
<1>2. /\ id \in DOMAIN open
      /\ Exec!Settle(id, price, "session_close", rest)
      /\ UNCHANGED <<pending, nextId, firstId, accounted, openPositions>>
      /\ rest.todo \subseteq DOMAIN open \ {id}
  BY <1>1 DEF SessionClose, Exec!ClosePosition, Exec!NoCall, riskVars, driver
<1> QED BY <1>2, SettleStep

\* A reported close frees the slot of one order that had one.
LEMMA ReportCloseStep ==
  ASSUME LoopAssumption, LoopInv, ReportClose
  PROVE  LoopInv'
<1>1. PICK a \in Nat, n \in Nat :
        a = accounted /\ n = Len(journal) /\ a < n
  <2>1. PICK S : journal \in Seq(S)
    BY DEF LoopInv, JournalOfPast
  <2>2. PICK n \in Nat : n = Len(journal)
    BY <2>1, LenProperties
  <2>3. accounted \in 0..n /\ accounted < n
    BY <2>2 DEF LoopInv, JournalOfPast, ReportClose
  <2>4. PICK a \in Nat : a = accounted
    BY <2>3
  <2> QED BY <2>2, <2>3, <2>4
<1>2. PICK id : id = journal[a + 1].id
  OBVIOUS
<1>3. /\ UNCHANGED <<pending, open, journal, nextId, call, firstId>>
      /\ accounted' = a + 1
      /\ openPositions' = IF openPositions > 0 THEN openPositions - 1 ELSE 0
  BY <1>1 DEF ReportClose, Risk!RecordTradeClosed, execVars
<1>4. BookOfThisProcess'
  BY <1>3 DEF LoopInv, BookOfThisProcess
<1>5. JournalOfPast'
  BY <1>1, <1>3 DEF LoopInv, JournalOfPast
<1>6. Reported' = Reported \cup {id} /\ id \notin Reported
  <2>1. \A k \in 1..(a + 1) : k \in 1..a \/ k = a + 1
    OBVIOUS
  <2>2. Reported' = Reported \cup {id}
    BY <1>1, <1>2, <1>3, <2>1 DEF Reported
  <2>3. \A k \in 1..a : journal[k].id # id
    BY <1>1, <1>2 DEF LoopInv, JournalOfPast
  <2> QED BY <1>1, <2>2, <2>3 DEF Reported
<1>7. id \in firstId..(nextId - 1)
  BY <1>1, <1>2 DEF LoopInv, JournalOfPast, BookOfThisProcess
<1>8. Slots' = Slots \ {id} /\ id \in Slots
  BY <1>3, <1>6, <1>7 DEF Slots
<1>9. Cardinality(Slots') = Cardinality(Slots) - 1 /\ Cardinality(Slots) # 0
  <2>1. IsFiniteSet(Slots)
    BY SlotsFinite DEF LoopInv
  <2> QED BY <1>8, <2>1, FS_RemoveElement, FS_EmptySet
<1>10. SlotsBounded'
  <2>1. PICK p \in Nat : p = openPositions /\ p = Cardinality(Slots) /\ p <= MaxOpenPositions
    BY DEF LoopInv, SlotsBounded
  <2>2. p > 0 /\ openPositions' = p - 1 /\ Cardinality(Slots') = p - 1
    BY <1>3, <1>9, <2>1
  <2> QED BY <2>1, <2>2 DEF SlotsBounded, LoopAssumption
<1> QED BY <1>4, <1>5, <1>10 DEF LoopInv

\* A restart empties the book and the slots, and owes no close.
LEMMA RestartStep ==
  ASSUME LoopAssumption, LoopInv, Restart
  PROVE  LoopInv'
<1>1. /\ DOMAIN pending' = {} /\ DOMAIN open' = {} /\ call'.todo = {}
      /\ accounted' = Len(journal) /\ firstId' = nextId /\ openPositions' = 0
      /\ UNCHANGED <<journal, nextId>>
  BY DEF Restart, Risk!Restart, Exec!NoCall
<1>2. PICK S : journal \in Seq(S)
  BY DEF LoopInv, JournalOfPast
<1>3. Len(journal) \in Nat
  BY <1>2, LenProperties
<1>4. BookOfThisProcess'
  BY <1>1 DEF LoopInv, BookOfThisProcess
<1>5. JournalOfPast'
  BY <1>1, <1>3 DEF LoopInv, JournalOfPast
<1>6. Slots' = {}
  BY <1>1 DEF Slots, LoopInv, BookOfThisProcess
<1> QED BY <1>1, <1>4, <1>5, <1>6, FS_EmptySet DEF LoopInv, SlotsBounded, LoopAssumption

LEMMA NextLoopInv ==
  ASSUME LoopAssumption, LoopInv, [Next]_vars
  PROVE  LoopInv'
<1>1. ASSUME UNCHANGED <<pending, open, journal, nextId, call, accounted, firstId, openPositions>>
      PROVE  LoopInv'
  <2>1. DOMAIN pending' \cap DOMAIN open' = {} /\ call'.todo \subseteq DOMAIN open'
    BY <1>1 DEF LoopInv, BookOfThisProcess
  <2> QED BY <1>1, <2>1, BookKept
<1>2. CASE UNCHANGED vars
  BY <1>1, <1>2 DEF vars
<1>3. CASE Advance
  BY <1>1, <1>3 DEF Advance, Risk!Tick, execVars, driver
<1>4. ASSUME NEW b \in BOOLEAN, SetKillSwitch(b) PROVE LoopInv'
  BY <1>1, <1>4 DEF SetKillSwitch, Risk!SetKillSwitch, execVars, driver
<1>5. ASSUME NEW s \in Signals, RejectSignal(s) PROVE LoopInv'
  BY <1>1, <1>5 DEF RejectSignal, Risk!Evaluate, execVars, driver
<1> QED BY <1>2, <1>3, <1>4, <1>5, EnterTradeStep, BarOpenStep, PriceUpdateStep,
           VisitPositionStep, SessionCloseStep, ReportCloseStep, RestartStep DEF Next

LEMMA SpecLoopInv == Spec => []LoopInv
<1>1. Init => LoopInv
  BY LoopAssumption, InitLoopInv
<1>2. LoopInv /\ [Next]_vars => LoopInv'
  BY LoopAssumption, NextLoopInv
<1> QED BY <1>1, <1>2, PTL DEF Spec

-----------------------------------------------------------------------------
(* The signal engine.  A sum over the factors has no closed form; what is  *)
(* used of it is that it grows with each of its terms and changes sign     *)
(* with all of them.                                                       *)

ScoresAreNumbers(scores) == \A f \in DOMAIN scores : scores[f] \in Int

Points(scores) == [f \in Factors |-> Raw(scores, f) * Weights[f]]

\* A magnitude and a clamped score, case by case.
LEMMA MagnitudeCases ==
  ASSUME NEW x \in Int
  PROVE  Magnitude(x) = IF x >= 0 THEN x ELSE -x
<1>1. PICK y \in Int : y = -x
  OBVIOUS
<1>2. Max({x, y}) = IF x >= y THEN x ELSE y
  BY MaxIsIf
<1> QED BY <1>1, <1>2 DEF Magnitude

\* The score the engine uses is cut to one unit either way.
LEMMA ClampCases ==
  ASSUME SignalAssumption, NEW x \in Int
  PROVE  /\ Clamp(x) = IF x > ScoreUnit THEN ScoreUnit ELSE IF x < -ScoreUnit THEN -ScoreUnit ELSE x
         /\ Clamp(x) \in Int
<1>1. PICK u \in Nat \ {0}, v \in Int : u = ScoreUnit /\ v = -u
  BY DEF SignalAssumption
<1>2. PICK m \in Int : m = Min({u, x}) /\ m = IF u <= x THEN u ELSE x
  BY MinIsIf
<1>3. Max({v, m}) = IF v >= m THEN v ELSE m
  BY MaxIsIf
<1>4. Clamp(x) = Max({v, m})
  BY <1>1, <1>2 DEF Clamp
<1>5. (IF v >= m THEN v ELSE m) = IF x > u THEN u ELSE IF x < v THEN v ELSE x
  BY <1>1, <1>2
<1> QED BY <1>1, <1>3, <1>4, <1>5

\* A factor's score is a number between the two units.
LEMMA RawIsInt ==
  ASSUME SignalAssumption, NEW scores, ScoresAreNumbers(scores), NEW f
  PROVE  /\ Raw(scores, f) \in Int
         /\ -ScoreUnit <= Raw(scores, f)
         /\ Raw(scores, f) <= ScoreUnit
<1>1. ScoreUnit \in Nat \ {0}
  BY DEF SignalAssumption
<1>2. CASE f \in DOMAIN scores
  <2>1. PICK x \in Int : x = scores[f]
    BY <1>2 DEF ScoresAreNumbers
  <2> QED BY <1>1, <1>2, <2>1, ClampCases DEF Raw
<1>3. CASE f \notin DOMAIN scores
  BY <1>1, <1>3 DEF Raw
<1> QED BY <1>2, <1>3

\* The points of a factor are a number, and the total is their sum.
LEMMA TotalIsSum ==
  ASSUME SignalAssumption, NEW scores, ScoresAreNumbers(scores)
  PROVE  /\ IsFiniteSet(Factors)
         /\ \A f \in Factors : Points(scores)[f] = Raw(scores, f) * Weights[f]
                               /\ Points(scores)[f] \in Int
         /\ Total(scores) = SumFunctionOnSet(Points(scores), Factors)
         /\ Total(scores) \in Int
<1>1. IsFiniteSet(Factors)
  BY DEF SignalAssumption, Factors
<1>2. ASSUME NEW f \in Factors
      PROVE  Points(scores)[f] = Raw(scores, f) * Weights[f] /\ Points(scores)[f] \in Int
  <2>1. Weights[f] \in Nat /\ Raw(scores, f) \in Int
    BY RawIsInt DEF SignalAssumption, Factors
  <2>2. Points(scores)[f] = Raw(scores, f) * Weights[f]
    BY DEF Points
  <2> QED BY <2>1, <2>2
<1>3. Total(scores) = SumFunctionOnSet(Points(scores), Factors)
  BY DEF Total, SumFunction, Points
<1>4. SumFunctionOnSet(Points(scores), Factors) \in Int
  BY <1>1, <1>2, SumIsInt
<1> QED BY <1>1, <1>2, <1>3, <1>4

\* No smaller score for any factor, no smaller total.
LEMMA TotalGrows ==
  ASSUME SignalAssumption, NEW a, NEW b, ScoresAreNumbers(a), ScoresAreNumbers(b),
         \A f \in Factors : Raw(a, f) <= Raw(b, f)
  PROVE  Total(a) <= Total(b)
<1>1. ASSUME NEW f \in Factors
      PROVE  Points(a)[f] <= Points(b)[f]
  <2>1. PICK w \in Nat, p \in Int, q \in Int :
          w = Weights[f] /\ p = Raw(a, f) /\ q = Raw(b, f) /\ p <= q
    BY RawIsInt DEF SignalAssumption, Factors
  <2>2. p * w <= q * w
    <3>1. CASE w = 0
      BY <3>1
    <3>2. CASE w \in Nat \ {0}
      <4>1. w * p <= w * q
        BY <2>1, <3>2, TimesMonotone
      <4>2. w * p = p * w /\ w * q = q * w
        OBVIOUS
      <4> QED BY <4>1, <4>2
    <3> QED BY <3>1, <3>2
  <2> QED BY <2>1, <2>2, TotalIsSum
<1>2. SumFunctionOnSet(Points(a), Factors) <= SumFunctionOnSet(Points(b), Factors)
  BY <1>1, TotalIsSum, SumsOrdered
<1> QED BY <1>2, TotalIsSum

\* The opposite scores have the opposite total.
LEMMA TotalOfOpposites ==
  ASSUME SignalAssumption, NEW a, NEW b, ScoresAreNumbers(a), ScoresAreNumbers(b),
         \A f \in Factors : Raw(b, f) = -Raw(a, f)
  PROVE  Total(b) = -Total(a)
<1>1. ASSUME NEW f \in Factors
      PROVE  Points(b)[f] = -Points(a)[f]
  <2>1. PICK w \in Nat, p \in Int : w = Weights[f] /\ p = Raw(a, f)
    BY RawIsInt DEF SignalAssumption, Factors
  <2>2. (-p) * w = -(p * w)
    OBVIOUS
  <2> QED BY <2>1, <2>2, TotalIsSum
<1>2. SumFunctionOnSet(Points(b), Factors) = -SumFunctionOnSet(Points(a), Factors)
  BY <1>1, TotalIsSum, SumOfOpposites
<1> QED BY <1>2, TotalIsSum

\* What generate_signal makes of the scores, by the total and the factors that
\* agree with it.
LEMMA DirectionCases ==
  ASSUME NEW scores
  PROVE  Direction(scores) = IF MeetsConfluence(scores)
                             THEN IF Total(scores) > 0 THEN "BUY" ELSE "SELL"
                             ELSE "NO_TRADE"
<1>1. Total(scores) > 0 => Sign(Total(scores)) > 0
  BY DEF Sign
<1>2. ~(Total(scores) > 0) => ~(Sign(Total(scores)) > 0)
  BY DEF Sign
<1> QED BY <1>1, <1>2 DEF Direction, GenerateSignal, Trade, NoTrade

\* The factors that agree are finitely many.
LEMMA AgreeingFinite ==
  ASSUME SignalAssumption, NEW scores
  PROVE  IsFiniteSet(Agreeing(scores)) /\ Cardinality(Agreeing(scores)) \in Nat
<1>1. IsFiniteSet(Factors)
  BY DEF SignalAssumption, Factors
<1>2. Agreeing(scores) \subseteq Factors
  BY DEF Agreeing
<1> QED BY <1>1, <1>2, FS_Subset, FS_CardinalityType

\* A factor without a score agrees with nothing, so that fewer than MinFactors
\* scores never make a trade (signal_engine.py:64-79).
LEMMA FewNeverTrade ==
  ASSUME SignalAssumption, NEW scores, ScoresAreNumbers(scores)
  PROVE  FewFactorsNeverTrade(scores)
<1> SUFFICES ASSUME NEW some \in SUBSET Factors, Cardinality(some) < MinFactors
             PROVE  Direction(Only(scores, some)) = "NO_TRADE"
  BY DEF FewFactorsNeverTrade
<1> DEFINE few == Only(scores, some)
<1>1. \A f \in Factors : f \notin some => Raw(few, f) = 0
  BY DEF Raw, Only
<1>2. Magnitude(0) = 0 /\ MinStrength \in Nat \ {0} /\ MinFactors \in Nat
  BY MagnitudeCases DEF SignalAssumption
<1> HIDE DEF few
<1>3. Agreeing(few) \subseteq some
  BY <1>1, <1>2 DEF Agreeing
<1>4. IsFiniteSet(some) /\ Cardinality(some) \in Nat
  BY FS_Subset, FS_CardinalityType DEF SignalAssumption, Factors
<1>5. Cardinality(Agreeing(few)) <= Cardinality(some)
  BY <1>3, <1>4, FS_Subset
<1>6. ~(Cardinality(Agreeing(few)) >= MinFactors)
  BY <1>2, <1>4, <1>5, AgreeingFinite
<1> QED BY <1>6, DirectionCases DEF MeetsConfluence, few

\* Mirrored scores mirror every score, the total and who agrees with it.
LEMMA MirrorReverses ==
  ASSUME SignalAssumption, NEW scores, ScoresAreNumbers(scores),
         Direction(scores) # "NO_TRADE"
  PROVE  MirroredEvidenceReverses(scores)
<1> DEFINE mirror == [f \in DOMAIN scores |-> -scores[f]]
<1>1. ScoresAreNumbers(mirror)
  BY DEF ScoresAreNumbers
<1>2. ASSUME NEW f \in Factors PROVE Raw(mirror, f) = -Raw(scores, f)
  <2>1. CASE f \in DOMAIN scores
    <3>1. PICK x \in Int, y \in Int : x = scores[f] /\ y = -x /\ y = mirror[f]
      BY <2>1 DEF ScoresAreNumbers
    <3>2. PICK u \in Nat \ {0} : u = ScoreUnit
      BY DEF SignalAssumption
    <3>3. Clamp(y) = -Clamp(x)
      BY <3>1, <3>2, ClampCases
    <3> QED BY <2>1, <3>1, <3>3 DEF Raw
  <2>2. CASE f \notin DOMAIN scores
    <3>1. Raw(mirror, f) = 0 /\ Raw(scores, f) = 0
      BY <2>2 DEF Raw
    <3>2. PICK p \in Int : p = Raw(scores, f)
      BY RawIsInt
    <3>3. -p = 0 - p
      OBVIOUS
    <3>4. 0 - p = p
      BY <3>1, <3>2
    <3> QED BY <3>1, <3>2, <3>3, <3>4
  <2> QED BY <2>1, <2>2
<1> HIDE DEF mirror
<1>3. PICK t \in Int, s \in Int : t = Total(scores) /\ s = Total(mirror) /\ s = -t
  BY <1>1, <1>2, TotalIsSum, TotalOfOpposites
<1>4. Magnitude(s) = Magnitude(t)
  BY <1>3, MagnitudeCases
<1>5. Agreeing(mirror) = Agreeing(scores)
  <2>1. ASSUME NEW f \in Factors
        PROVE  /\ Sign(Raw(mirror, f)) = Sign(s) <=> Sign(Raw(scores, f)) = Sign(t)
               /\ Magnitude(Raw(mirror, f)) = Magnitude(Raw(scores, f))
    <3>1. PICK p \in Int, q \in Int : p = Raw(scores, f) /\ q = Raw(mirror, f) /\ q = -p
      BY <1>1, <1>2, RawIsInt
    <3>2. Magnitude(q) = Magnitude(p)
      BY <3>1, MagnitudeCases
    <3>3. Sign(q) = Sign(s) <=> Sign(p) = Sign(t)
      BY <1>3, <3>1 DEF Sign
    <3> QED BY <3>1, <3>2, <3>3
  <2> QED BY <1>3, <2>1 DEF Agreeing
<1>6. MeetsConfluence(scores)
  BY DirectionCases
<1>7. MeetsConfluence(mirror) /\ t # 0
  BY <1>3, <1>4, <1>5, <1>6 DEF MeetsConfluence
<1>8. /\ Direction(scores) = IF t > 0 THEN "BUY" ELSE "SELL"
      /\ Direction(mirror) = IF s > 0 THEN "BUY" ELSE "SELL"
  BY <1>3, <1>6, <1>7, DirectionCases
<1>9. Direction(mirror) = Reversed(Direction(scores))
  BY <1>3, <1>7, <1>8 DEF Reversed
<1> QED BY <1>9 DEF MirroredEvidenceReverses, mirror

\* The evidence moved to x for one factor.
Moved(scores, f, x) == [g \in DOMAIN scores \cup {f} |-> IF g = f THEN x ELSE scores[g]]

\* A factor's score moved to nothing, or to a whole unit for or against.
LEMMA MovedRaw ==
  ASSUME SignalAssumption, NEW scores, ScoresAreNumbers(scores),
         NEW f \in Factors, NEW x \in {0, ScoreUnit, -ScoreUnit}
  PROVE  /\ ScoresAreNumbers(Moved(scores, f, x))
         /\ Raw(Moved(scores, f, x), f) = x
         /\ \A g \in Factors : g # f => Raw(Moved(scores, f, x), g) = Raw(scores, g)
<1>1. PICK u \in Nat \ {0} : u = ScoreUnit
  BY DEF SignalAssumption
<1>2. x \in Int /\ (x = 0 \/ x = u \/ x = -u)
  BY <1>1
<1>3. ScoresAreNumbers(Moved(scores, f, x))
  BY <1>2 DEF ScoresAreNumbers, Moved
<1>4. Clamp(x) = x
  BY <1>1, <1>2, ClampCases
<1>5. Raw(Moved(scores, f, x), f) = x
  BY <1>4 DEF Raw, Moved
<1>6. \A g \in Factors : g # f => Raw(Moved(scores, f, x), g) = Raw(scores, g)
  BY DEF Raw, Moved
<1> QED BY <1>3, <1>5, <1>6

\* A factor that speaks up for a trade, or no longer against it, leaves a total
\* at least as far on its side, and loses no factor that agrees.
LEMMA MoreEvidence ==
  ASSUME SignalAssumption, NEW a, NEW b, ScoresAreNumbers(a), ScoresAreNumbers(b),
         MeetsConfluence(a),
         NEW f \in Factors, NEW x \in {0, ScoreUnit, -ScoreUnit},
         Raw(b, f) = x, \A g \in Factors : g # f => Raw(b, g) = Raw(a, g),
         IF Total(a) > 0 THEN x >= 0 /\ x >= Raw(a, f) ELSE x <= 0 /\ x <= Raw(a, f)
  PROVE  MeetsConfluence(b) /\ (Total(b) > 0 <=> Total(a) > 0)
<1>1. PICK s \in Int, t \in Int : s = Total(a) /\ t = Total(b)
  BY TotalIsSum
<1>2. s # 0
  BY <1>1 DEF MeetsConfluence
<1>3. \A g \in Factors : Raw(a, g) \in Int /\ Raw(b, g) \in Int
  BY RawIsInt
<1>4. IF s > 0 THEN t >= s ELSE t <= s
  <2>1. CASE s > 0
    <3>1. \A g \in Factors : Raw(a, g) <= Raw(b, g)
      BY <1>1, <1>3, <2>1
    <3> QED BY <1>1, <2>1, <3>1, TotalGrows
  <2>2. CASE ~(s > 0)
    <3>1. \A g \in Factors : Raw(b, g) <= Raw(a, g)
      BY <1>1, <1>3, <2>2
    <3> QED BY <1>1, <2>2, <3>1, TotalGrows
  <2> QED BY <2>1, <2>2
<1>5. Sign(t) = Sign(s) /\ Sign(s) # 0 /\ t # 0 /\ (t > 0 <=> s > 0)
  BY <1>2, <1>4 DEF Sign
<1>6. Magnitude(t) >= Magnitude(s) /\ Magnitude(t) \in Int /\ Magnitude(s) \in Int
  <2>1. /\ Magnitude(t) = IF t >= 0 THEN t ELSE -t
        /\ Magnitude(s) = IF s >= 0 THEN s ELSE -s
    BY MagnitudeCases
  <2> QED BY <1>2, <1>4, <2>1
<1>7. Agreeing(a) \subseteq Agreeing(b)
  <2> SUFFICES ASSUME NEW g \in Agreeing(a) PROVE g \in Agreeing(b)
    OBVIOUS
  <2>1. g \in Factors /\ Sign(Raw(a, g)) = Sign(s) /\ Magnitude(Raw(a, g)) >= MinStrength
    BY <1>1 DEF Agreeing
  <2>2. CASE g # f
    BY <1>1, <1>5, <2>1, <2>2 DEF Agreeing
  <2>3. CASE g = f
    <3>1. PICK p \in Int, u \in Nat \ {0}, m \in Nat \ {0} :
            p = Raw(a, g) /\ u = ScoreUnit /\ m = MinStrength /\ m <= u
      BY <1>3, <2>1 DEF SignalAssumption
    <3>2. x \in Int /\ (x = 0 \/ x = u \/ x = -u)
      BY <3>1
    <3>3. IF s > 0 THEN p > 0 ELSE p < 0
      BY <1>2, <2>1, <3>1 DEF Sign
    <3>4. IF s > 0 THEN x = u ELSE x = -u
      BY <1>1, <2>3, <3>1, <3>2, <3>3
    <3>5. Sign(x) = Sign(s)
      BY <1>2, <3>1, <3>4 DEF Sign
    <3>6. Magnitude(x) = u
      <4>1. Magnitude(x) = IF x >= 0 THEN x ELSE -x
        BY <3>2, MagnitudeCases
      <4> QED BY <3>1, <3>4, <4>1
    <3> QED BY <1>1, <1>5, <2>1, <2>3, <3>1, <3>5, <3>6 DEF Agreeing
  <2> QED BY <2>2, <2>3
<1>8. Cardinality(Agreeing(a)) <= Cardinality(Agreeing(b))
  BY <1>7, AgreeingFinite, FS_Subset
<1>9. Magnitude(t) >= ScoreThreshold * ScoreUnit
  <2>1. PICK h \in Int : h = ScoreThreshold * ScoreUnit
    BY DEF SignalAssumption
  <2>2. Magnitude(s) >= h
    BY <1>1, <2>1 DEF MeetsConfluence
  <2> QED BY <1>6, <2>1, <2>2
<1>10. Cardinality(Agreeing(b)) >= MinFactors
  <2>1. Cardinality(Agreeing(a)) >= MinFactors /\ MinFactors \in Nat
    BY DEF MeetsConfluence, SignalAssumption
  <2>2. Cardinality(Agreeing(a)) \in Nat /\ Cardinality(Agreeing(b)) \in Nat
    BY AgreeingFinite
  <2> QED BY <1>8, <2>1, <2>2
<1> QED BY <1>1, <1>5, <1>9, <1>10 DEF MeetsConfluence

\* More evidence for a trade never calls it off (signal_engine.py:64-97).
LEMMA MoreNeverCancels ==
  ASSUME SignalAssumption, NEW scores, ScoresAreNumbers(scores),
         Direction(scores) # "NO_TRADE"
  PROVE  MoreEvidenceNeverCancels(scores)
<1>1. PICK u \in Nat \ {0} : u = ScoreUnit
  BY DEF SignalAssumption
<1>2. MeetsConfluence(scores) /\ Direction(scores) = IF Total(scores) > 0 THEN "BUY" ELSE "SELL"
  BY DirectionCases
<1> DEFINE Towards(x) == IF Direction(scores) = "BUY" THEN x ELSE -x
<1>3. ASSUME NEW f \in Factors, NEW x \in {0, Towards(ScoreUnit)},
             Towards(x) >= Towards(Raw(scores, f))
      PROVE  Direction(Moved(scores, f, x)) = Direction(scores)
  <2>1. x \in {0, ScoreUnit, -ScoreUnit}
    OBVIOUS
  <2>2. PICK p \in Int : p = Raw(scores, f)
    BY RawIsInt
  <2>3. x \in Int
    BY <1>1, <2>1
  <2>4. IF Total(scores) > 0 THEN x >= 0 /\ x >= p ELSE x <= 0 /\ x <= p
    <3>1. CASE Total(scores) > 0
      BY <1>1, <1>2, <1>3, <2>2, <2>3, <3>1
    <3>2. CASE ~(Total(scores) > 0)
      <4>1. -x >= -p /\ (x = 0 \/ x = -u)
        BY <1>1, <1>2, <1>3, <2>2, <3>2
      <4> QED BY <1>1, <2>3, <3>2, <4>1
    <3> QED BY <3>1, <3>2
  <2>5. /\ MeetsConfluence(Moved(scores, f, x))
        /\ Total(Moved(scores, f, x)) > 0 <=> Total(scores) > 0
    <3> DEFINE b == Moved(scores, f, x)
    <3>1. /\ ScoresAreNumbers(b) /\ Raw(b, f) = x
          /\ \A g \in Factors : g # f => Raw(b, g) = Raw(scores, g)
      BY <2>1, MovedRaw
    <3> HIDE DEF b
    <3>2. MeetsConfluence(b) /\ (Total(b) > 0 <=> Total(scores) > 0)
      BY <1>2, <2>1, <2>2, <2>4, <3>1, MoreEvidence
    <3> QED BY <3>2 DEF b
  <2> QED BY <1>2, <2>5, DirectionCases
<1> QED BY <1>3 DEF MoreEvidenceNeverCancels, Moved

\* Every trade the engine makes rests on the confluence of several factors
\* (signal_engine.py:12-19, 64-97, signal_config.py:30-32).
THEOREM TradesRestOnConfluence ==
  ASSUME SignalAssumption, NEW scores, ScoresAreNumbers(scores),
         Direction(scores) # "NO_TRADE"
  PROVE  RestsOnConfluence(scores)
BY FewNeverTrade, MoreNeverCancels, MirrorReverses DEF RestsOnConfluence

-----------------------------------------------------------------------------
(* What the executor holds.                                                *)

\* A position keeps the terms of its order; Fields says it is a record of them.
Fields == {"direction", "stop_loss", "target"}

OrdersRequested ==
  /\ \A id \in DOMAIN pending : Terms(pending[id]) \in Requested
  /\ \A id \in DOMAIN open : Fields \subseteq DOMAIN open[id] /\ Terms(open[id]) \in Requested

\* An order or position that stays, with the terms it had.
LEMMA RequestedKept ==
  ASSUME OrdersRequested,
         \A id \in DOMAIN pending' : id \in DOMAIN pending /\ pending'[id] = pending[id],
         \A id \in DOMAIN open' : id \in DOMAIN open /\ open'[id] = open[id]
  PROVE  OrdersRequested'
BY DEF OrdersRequested, Terms

\* Only signals that are trades are approved, with the terms they ask for.
LEMMA EnterRequested ==
  ASSUME SignalsAssumption, OrdersRequested, NEW s \in Signals, NEW i, EnterTrade(s, i)
  PROVE  OrdersRequested'
<1>1. PICK inputs \in Inputs : s = SignalFor(inputs)
  BY SignalsAssumption
<1>2. s.direction # "NO_TRADE"
  BY DEF EnterTrade, Risk!OpenTrade, Risk!Approves
<1>3. Direction(inputs.scores) = s.direction
  BY <1>1 DEF SignalFor, AsOrder, Direction, GenerateSignal, Trade, NoTrade
<1>4. Terms(s) \in Requested
  BY <1>1, <1>2, <1>3 DEF Requested, Traded
<1>5. PICK n : n = nextId
  OBVIOUS
<1>6. PICK q : q = Risk!SizedQuantity(Risk!PerShareRisk(s), LotSize)
  OBVIOUS
<1>7. /\ pending' = [id \in DOMAIN pending \cup {n} |->
                       IF id = n THEN Exec!NewOrder(s, i, q) ELSE pending[id]]
      /\ open' = open
  BY <1>5, <1>6 DEF EnterTrade, Exec!SubmitOrder
<1>8. Terms(Exec!NewOrder(s, i, q)) = Terms(s)
  BY DEF Exec!NewOrder, Terms
<1>9. \A id \in DOMAIN pending' : Terms(pending'[id]) \in Requested
  BY <1>4, <1>7, <1>8 DEF OrdersRequested
<1> QED BY <1>7, <1>9 DEF OrdersRequested, Terms

\* A fill keeps the terms.
LEMMA BarOpenRequested ==
  ASSUME OrdersRequested, NEW i, NEW price, BarOpen(i, price)
  PROVE  OrdersRequested'
<1>1. PICK P \in SUBSET DOMAIN pending : P = Exec!PendingFor(i)
  BY DEF Exec!PendingFor, Exec!OrdersFor
<1>2. /\ open' = [id \in DOMAIN open \cup P |->
                    IF id \in P THEN Exec!FilledAt(pending[id], price) ELSE open[id]]
      /\ pending' = Exec!Restrict(pending, DOMAIN pending \ P)
  BY <1>1 DEF BarOpen, Exec!OnBarOpen
<1>3. \A order : /\ Terms(Exec!FilledAt(order, price)) = Terms(order)
                 /\ Fields \subseteq DOMAIN Exec!FilledAt(order, price)
  BY DEF Exec!FilledAt, Terms, Fields
<1>4. \A id \in DOMAIN open' :
        Fields \subseteq DOMAIN open'[id] /\ Terms(open'[id]) \in Requested
  BY <1>2, <1>3 DEF OrdersRequested
<1>5. \A id \in DOMAIN pending' : Terms(pending'[id]) \in Requested
  BY <1>2 DEF Exec!Restrict, OrdersRequested
<1> QED BY <1>4, <1>5 DEF OrdersRequested, Terms

\* A settled position leaves the book; the others are as they were.
LEMMA SettleRequested ==
  ASSUME OrdersRequested, UNCHANGED pending, NEW id, NEW x, NEW reason, NEW rest,
         Exec!Settle(id, x, reason, rest)
  PROVE  OrdersRequested'
BY RequestedKept DEF Exec!Settle, Exec!Restrict

\* A visit settles a position or notes the price.
LEMMA VisitRequested ==
  ASSUME LoopInv, OrdersRequested, VisitPosition
  PROVE  OrdersRequested'
<1>1. ~Exec!Idle /\ UNCHANGED pending
  BY DEF VisitPosition, Exec!VisitPosition
<1>2. CASE Exec!StopOut \/ Exec!TakeTarget
  <2>1. PICK id, x, reason, rest : Exec!Settle(id, x, reason, rest)
    BY <1>2 DEF Exec!StopOut, Exec!TakeTarget
  <2> QED BY <1>1, <2>1, SettleRequested
<1>3. CASE Exec!Hold
  <2>1. PICK c \in DOMAIN open : c = Exec!Current
    BY <1>1, CurrentOpen
  <2>2. open' = [open EXCEPT ![c].current_price = call.price]
    BY <1>3, <2>1 DEF Exec!Hold
  <2>3. DOMAIN open' = DOMAIN open /\ \A id \in DOMAIN open : id # c => open'[id] = open[id]
    BY <2>2
  <2>4. open'[c] = [open[c] EXCEPT !.current_price = call.price]
    BY <2>2
  <2>5. Fields \subseteq DOMAIN open[c] /\ Terms(open[c]) \in Requested
    BY DEF OrdersRequested
  <2>6. DOMAIN open'[c] = DOMAIN open[c] /\ Terms(open'[c]) = Terms(open[c])
    BY <2>4, <2>5 DEF Terms, Fields
  <2>7. \A id \in DOMAIN open' :
          Fields \subseteq DOMAIN open'[id] /\ Terms(open'[id]) \in Requested
    BY <2>3, <2>5, <2>6 DEF OrdersRequested
  <2> QED BY <1>1, <2>7 DEF OrdersRequested, Terms
<1> QED BY <1>2, <1>3 DEF VisitPosition, Exec!VisitPosition

\* Every step keeps what is held requested.
LEMMA NextRequested ==
  ASSUME SignalsAssumption, LoopInv, OrdersRequested, [Next]_vars
  PROVE  OrdersRequested'
<1>1. CASE UNCHANGED <<pending, open>>
  BY <1>1, RequestedKept
<1>2. CASE Restart
  <2>1. DOMAIN pending' = {} /\ DOMAIN open' = {}
    BY <1>2 DEF Restart
  <2> QED BY <2>1 DEF OrdersRequested
<1>3. ASSUME NEW id, NEW price, SessionClose(id, price) PROVE OrdersRequested'
  <2>1. PICK x, reason, rest : Exec!Settle(id, x, reason, rest) /\ UNCHANGED pending
    BY <1>3 DEF SessionClose, Exec!ClosePosition
  <2> QED BY <2>1, SettleRequested
<1>4. \/ UNCHANGED <<pending, open>> \/ Restart \/ VisitPosition
      \/ \E s \in Signals, i \in Instruments : EnterTrade(s, i)
      \/ \E i \in Instruments, p \in Prices : BarOpen(i, p)
      \/ \E id \in Exec!OrderIds, p \in Prices : SessionClose(id, p)
  BY DEF Next, vars, execVars, Advance, SetKillSwitch, RejectSignal, PriceUpdate,
         Exec!OnPriceUpdate, ReportClose
<1> QED BY <1>1, <1>2, <1>3, <1>4, EnterRequested, BarOpenRequested, VisitRequested

\* What is held was requested, and nothing is requested on thin evidence.
LEMMA NothingIsUnfounded ==
  ASSUME LoopAssumption, ScoresAssumption
  PROVE  RequestedThinly = {}
<1>1. ASSUME NEW inputs \in Traded PROVE RestsOnConfluence(inputs.scores)
  BY TradesRestOnConfluence DEF LoopAssumption, ScoresAssumption, ScoresAreNumbers, Traded
<1> QED BY <1>1 DEF RequestedThinly, Unfounded

-----------------------------------------------------------------------------
(* The theorems.                                                           *)

\* The slots the risk manager counts are the orders of this process whose close
\* it has not been told of, a trade the store lost among them.
THEOREM SlotsAreTheBook == Spec => []SlotsMatchBook
<1>1. LoopInv => SlotsMatchBook
  BY DEF LoopInv, SlotsBounded, SlotsMatchBook, Slots
<1> QED BY <1>1, SpecLoopInv, PTL

\* Whatever the store raises and however often the process dies, the executor
\* never holds more orders and positions than max_open_positions.
THEOREM ExposureIsLimited == Spec => []ExposureWithinLimit
<1>1. ASSUME LoopInv PROVE ExposureWithinLimit
  <2>1. DOMAIN pending \cup DOMAIN open \subseteq Slots
    BY <1>1 DEF LoopInv, BookOfThisProcess, JournalOfPast, Slots, Reported
  <2>2. Exposure <= Cardinality(Slots)
    BY <1>1, <2>1, SlotsFinite, FS_Subset DEF LoopInv, Exposure
  <2>3. Exposure \in Nat
    BY <1>1, <2>1, SlotsFinite, FS_Subset, FS_CardinalityType DEF LoopInv, Exposure
  <2> QED BY <1>1, <2>2, <2>3, LoopAssumption
       DEF LoopInv, SlotsBounded, ExposureWithinLimit, LoopAssumption
<1> QED BY <1>1, SpecLoopInv, PTL

\* Every order and position held was asked for by a signal that rests on the
\* confluence of several factors (signal_engine.py:12-19, signal_config.py:30-32).
THEOREM OrdersHaveEvidence == Spec => []OrdersRestOnConfluence
<1>1. Init => OrdersRequested
  BY DEF Init, Exec!Init, OrdersRequested
<1>2. LoopInv /\ OrdersRequested /\ [Next]_vars => OrdersRequested'
  BY SignalsAssumption, NextRequested
<1>3. OrdersRequested => OrdersRestOnConfluence
  BY LoopAssumption, ScoresAssumption, NothingIsUnfounded
     DEF OrdersRequested, OrdersRestOnConfluence, OnEvidence
<1> QED BY <1>1, <1>2, <1>3, SpecLoopInv, PTL DEF Spec

=============================================================================
