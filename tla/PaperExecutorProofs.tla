-------------------------- MODULE PaperExecutorProofs --------------------------
(***************************************************************************)
(* What the executor guarantees for any number of orders, instruments and  *)
(* bars, any prices, and a store that may raise at any close.              *)
(***************************************************************************)
EXTENDS PaperExecutor, ArithmeticLemmas, SequenceTheorems, TLAPS

-----------------------------------------------------------------------------
(* The operators on the book.                                              *)

LEMMA RestrictedBook ==
  ASSUME NEW f, NEW S \in SUBSET DOMAIN f
  PROVE  /\ DOMAIN Restrict(f, S) = S
         /\ \A x \in S : Restrict(f, S)[x] = f[x]
BY DEF Restrict

\* A slipped price is a price, and a whole number.
LEMMA SlippedType ==
  ASSUME ExecutorAssumption, NEW isBuy
  PROVE  /\ \A price \in Nat : Slipped(price, isBuy) \in Nat
         /\ \A price \in Int : Slipped(price, isBuy) \in Int
<1>1. /\ SlippageUnit + SlippageBps \in Nat
      /\ SlippageUnit - SlippageBps \in Nat
  BY DEF ExecutorAssumption
<1>2. \A price \in Nat, u \in Nat : price * u \in Nat
  OBVIOUS
<1>3. \A price \in Int, u \in Int : price * u \in Int
  OBVIOUS
<1> QED BY <1>1, <1>2, <1>3 DEF Slipped

\* Charges and profits are whole numbers in their unit.
LEMMA ChargesType ==
  ASSUME RatesAssumption, NEW t \in Int, NEW isBuy
  PROVE  LegCharges(t, isBuy) \in Int
<1>1. Brokerage(t) \in Int
  BY DEF RatesAssumption, Brokerage
<1>2. Taxable(t) \in Int
  BY <1>1 DEF RatesAssumption, Taxable
<1>3. PICK x \in Int : x = Taxable(t)
  BY <1>2
<1>4. GstPct * x \in Int /\ SttPct * t \in Int /\ StampPct * t \in Int
  BY DEF RatesAssumption
<1> QED BY <1>3, <1>4 DEF LegCharges, RatesAssumption

LEMMA NetProfitType ==
  ASSUME RatesAssumption, NEW p, NEW exit \in Int,
         p.quantity \in Nat, p.entry_price \in Nat
  PROVE  NetProfit(p, exit) \in Int
<1>1. PICK q \in Nat, e \in Nat : q = p.quantity /\ e = p.entry_price
  OBVIOUS
<1>2. e * q \in Int /\ exit * q \in Int
  OBVIOUS
<1>3. RoundTripCharges(e * q, exit * q, IsLong(p)) \in Int
  BY <1>2, ChargesType DEF RoundTripCharges
<1>4. Gross(p, e, exit) \in Int
  <2>1. PICK d \in Int : d = IF IsLong(p) THEN exit - e ELSE e - exit
    BY exit - e \in Int, e - exit \in Int
  <2>2. d * q * RateUnit * RateUnit \in Int
    BY DEF RatesAssumption
  <2> QED BY <1>1, <2>1, <2>2 DEF Gross
<1> QED BY <1>1, <1>3, <1>4 DEF NetProfit

-----------------------------------------------------------------------------
(* The invariant.                                                          *)

\* Every order is in one place: no number is pending and open, none that is in
\* the journal is either or is there twice, and none is nowhere unless the store
\* may raise.
BooksApart ==
  /\ DOMAIN pending \cap DOMAIN open = {}
  /\ JournalIds \subseteq (1..(nextId - 1)) \ (DOMAIN pending \cup DOMAIN open)
  /\ \A j, k \in DOMAIN journal : journal[j].id = journal[k].id => j = k
  /\ StoreMayFail \/ ClosedTradesJournaled

IInv == TypeOK /\ BooksApart /\ FillsAtNextOpen

\* An entry made at a bar's open stays that bar's open: bars are only added.
BarsGrow ==
  \/ bars' = bars
  \/ \E i \in Instruments, price \in Nat : bars' = [bars EXCEPT ![i] = Append(@, price)]

LEMMA EntryStays ==
  ASSUME TypeOK, BarsGrow, NEW p, p.instrument \in Instruments, p.barsSeen \in Nat,
         EntryIsNextOpen(p)
  PROVE  EntryIsNextOpen(p)'
<1>1. CASE bars' = bars
  BY <1>1 DEF EntryIsNextOpen
<1>2. ASSUME NEW i \in Instruments, NEW price \in Nat,
             bars' = [bars EXCEPT ![i] = Append(@, price)]
      PROVE  EntryIsNextOpen(p)'
  <2>1. PICK j \in Instruments, m \in Nat, b \in Seq(Nat) :
          j = p.instrument /\ m = p.barsSeen /\ b = bars[j]
    BY DEF TypeOK
  <2>2. bars'[j] = IF j = i THEN Append(b, price) ELSE b
    BY <1>2, <2>1 DEF TypeOK
  <2>3. m < Len(b) /\ p.entry_price = b[m + 1]
         * (IF IsLong(p) THEN SlippageUnit + SlippageBps ELSE SlippageUnit - SlippageBps)
    BY <2>1 DEF EntryIsNextOpen
  <2>4. m < Len(bars'[j]) /\ bars'[j][m + 1] = b[m + 1]
    <3>1. m < Len(Append(b, price)) /\ Append(b, price)[m + 1] = b[m + 1]
      BY <2>3
    <3> QED BY <2>2, <2>3, <3>1
  <2> QED BY <2>1, <2>3, <2>4 DEF EntryIsNextOpen
<1> QED BY <1>1, <1>2 DEF BarsGrow

LEMMA InitIInv ==
  ASSUME RatesAssumption, ExecutorAssumption, Init
  PROVE  IInv
<1>1. DOMAIN pending = {} /\ DOMAIN open = {} /\ journal = <<>> /\ DOMAIN journal = {}
  BY DEF Init
<1>2. TypeOK
  <2>1. nextId \in 1..(MaxOrders + 1) /\ journal \in Seq(RowRecord)
    BY DEF Init, ExecutorAssumption
  <2>2. call \in [price : Int, todo : SUBSET DOMAIN open]
    BY DEF Init, NoCall, Missing
  <2>3. bars \in [Instruments -> Seq(Nat)] /\ lastTick \in [Instruments -> Int]
    BY DEF Init, Missing
  <2> QED BY <1>1, <2>1, <2>2, <2>3 DEF TypeOK
<1>3. BooksApart
  BY <1>1 DEF BooksApart, JournalIds, ClosedTradesJournaled, Init
<1>4. FillsAtNextOpen
  BY <1>1 DEF FillsAtNextOpen
<1> QED BY <1>2, <1>3, <1>4 DEF IInv

\* A new order is pending, with the bars its instrument has seen so far.
LEMMA SubmitOrderStep ==
  ASSUME RatesAssumption, ExecutorAssumption, IInv,
         NEW s \in Signals, NEW i \in Instruments, NEW q \in Quantities, SubmitOrder(s, i, q)
  PROVE  IInv'
<1>1. PICK n \in 1..MaxOrders, o \in OrderRecord :
        /\ n = nextId
        /\ o.instrument = i /\ o.barsSeen = Len(bars[i])
        /\ pending' = [id \in DOMAIN pending \cup {n} |-> IF id = n THEN o ELSE pending[id]]
  <2>1. nextId \in 1..MaxOrders
    BY DEF SubmitOrder, IInv, TypeOK, ExecutorAssumption
  <2>2. NewOrder(s, i, q) \in OrderRecord
    <3>1. Len(bars[i]) \in Nat /\ q \in Nat
      BY DEF IInv, TypeOK, ExecutorAssumption
    <3>2. s.direction \in {"BUY", "SELL"} /\ s.stop_loss \in Int /\ s.target \in Int
      BY DEF SubmitOrder, Submittable, ExecutorAssumption
    <3> QED BY <3>1, <3>2 DEF NewOrder, OrderRecord
  <2>3. NewOrder(s, i, q).instrument = i /\ NewOrder(s, i, q).barsSeen = Len(bars[i])
    BY DEF NewOrder
  <2> QED BY <2>1, <2>2, <2>3 DEF SubmitOrder
<1>2. nextId' = n + 1 /\ UNCHANGED <<open, journal, call, bars, lastTick>>
  BY <1>1 DEF SubmitOrder
<1>3. /\ DOMAIN pending' = DOMAIN pending \cup {n}
      /\ pending'[n] = o
      /\ \A id \in DOMAIN pending : pending'[id] = pending[id]
  <2>1. n \notin DOMAIN pending
    BY <1>1 DEF IInv, TypeOK
  <2> QED BY <1>1, <2>1
<1>4. TypeOK'
  <2>1. nextId' \in 1..(MaxOrders + 1)
    BY <1>1, <1>2 DEF ExecutorAssumption
  <2>2. DOMAIN pending' \subseteq 1..(nextId' - 1) /\ DOMAIN open \subseteq 1..(nextId' - 1)
    BY <1>1, <1>2, <1>3 DEF IInv, TypeOK
  <2>3. \A id \in DOMAIN pending' : pending'[id] \in OrderRecord
    BY <1>3 DEF IInv, TypeOK
  <2> QED BY <1>2, <2>1, <2>2, <2>3 DEF IInv, TypeOK
<1>5. BooksApart'
  <2>1. JournalIds' = JournalIds
    BY <1>2 DEF JournalIds
  <2>2. ClosedTradesJournaled => ClosedTradesJournaled'
    <3>1. nextId' - 1 = n /\ \A k \in 1..n : k \in 1..(n - 1) \/ k = n
      BY <1>2
    <3> QED BY <1>1, <1>2, <1>3, <2>1, <3>1 DEF ClosedTradesJournaled
  <2> QED BY <1>1, <1>2, <1>3, <2>1, <2>2 DEF IInv, TypeOK, BooksApart
<1>6. FillsAtNextOpen'
  <2>1. \A id \in DOMAIN open' : EntryIsNextOpen(open[id])'
    BY <1>2 DEF IInv, FillsAtNextOpen, EntryIsNextOpen
  <2>2. \A k \in DOMAIN journal' : EntryIsNextOpen(journal[k])'
    BY <1>2 DEF IInv, FillsAtNextOpen, EntryIsNextOpen
  <2>3. \A id \in DOMAIN pending' : Len(bars'[pending'[id].instrument]) = pending'[id].barsSeen
    BY <1>1, <1>2, <1>3 DEF IInv, FillsAtNextOpen
  <2> QED BY <2>1, <2>2, <2>3 DEF FillsAtNextOpen
<1> QED BY <1>4, <1>5, <1>6 DEF IInv

\* A bar opens: the orders of its instrument are filled, and only they; each was
\* submitted after the bar before.
LEMMA OnBarOpenStep ==
  ASSUME RatesAssumption, ExecutorAssumption, IInv,
         NEW i \in Instruments, NEW price \in Prices, OnBarOpen(i, price)
  PROVE  IInv'
<1>1. PICK P \in SUBSET DOMAIN pending : P = PendingFor(i)
  BY DEF PendingFor, OrdersFor
<1>2. /\ open' = [id \in DOMAIN open \cup P |->
                   IF id \in P THEN FilledAt(pending[id], price) ELSE open[id]]
      /\ DOMAIN pending' = DOMAIN pending \ P
      /\ \A id \in DOMAIN pending \ P : pending'[id] = pending[id]
      /\ bars' = [bars EXCEPT ![i] = Append(@, price)]
      /\ lastTick' = [lastTick EXCEPT ![i] = Missing]
      /\ UNCHANGED <<journal, nextId, call>>
  BY <1>1, RestrictedBook DEF OnBarOpen
<1>3. price \in Nat /\ BarsGrow
  BY <1>2 DEF ExecutorAssumption, BarsGrow
<1>4. ASSUME NEW id \in P
      PROVE  /\ open'[id] \in PositionRecord
             /\ EntryIsNextOpen(open[id])'
  <2>1. PICK o \in OrderRecord :
          o = pending[id] /\ o.instrument = i /\ Len(bars[i]) = o.barsSeen
    BY <1>1 DEF IInv, TypeOK, FillsAtNextOpen, PendingFor, OrdersFor
  <2>2. PICK e \in Nat : e = Slipped(price, IsLong(o))
    BY <1>3, SlippedType
  <2> DEFINE f == [instrument |-> o.instrument, direction |-> o.direction,
                   quantity |-> o.quantity, stop_loss |-> o.stop_loss, target |-> o.target,
                   barsSeen |-> o.barsSeen, entry_price |-> e, current_price |-> Missing]
  <2>3. open'[id] = f
    BY <1>2, <2>1, <2>2 DEF FilledAt
  <2>4. f \in PositionRecord
    BY DEF PositionRecord, OrderRecord, Missing
  <2>5. EntryIsNextOpen(f)'
    <3>1. PICK b \in Seq(Nat) : b = bars[i]
      BY DEF IInv, TypeOK
    <3>2. bars'[i] = Append(b, price) /\ o.barsSeen = Len(b)
      BY <1>2, <2>1, <3>1 DEF IInv, TypeOK
    <3>3. Len(bars'[i]) > o.barsSeen /\ bars'[i][o.barsSeen + 1] = price
      BY <1>3, <3>1, <3>2
    <3>4. e = price * (IF IsLong(f) THEN SlippageUnit + SlippageBps
                                    ELSE SlippageUnit - SlippageBps)
      BY <2>2 DEF Slipped, IsLong
    <3> QED BY <2>1, <3>3, <3>4 DEF EntryIsNextOpen, IsLong
  <2> HIDE DEF f
  <2> QED BY <2>3, <2>4, <2>5
<1>5. ASSUME NEW id \in DOMAIN open \ P
      PROVE  /\ open'[id] = open[id]
             /\ EntryIsNextOpen(open[id])'
  <2>1. PICK p \in PositionRecord : p = open[id] /\ EntryIsNextOpen(p)
    BY DEF IInv, TypeOK, FillsAtNextOpen
  <2>2. open'[id] = p
    BY <1>2, <2>1
  <2>3. EntryIsNextOpen(p)'
    BY <1>3, <2>1, EntryStays DEF IInv, PositionRecord
  <2> QED BY <2>1, <2>2, <2>3
<1>6. DOMAIN open' = DOMAIN open \cup P
  BY <1>2
<1>7. TypeOK'
  <2>1. /\ DOMAIN pending' \subseteq 1..(nextId - 1)
        /\ \A id \in DOMAIN pending' : pending'[id] \in OrderRecord
        /\ DOMAIN open' \subseteq 1..(nextId - 1)
    BY <1>2, <1>6 DEF IInv, TypeOK
  <2>2. \A id \in DOMAIN open' : open'[id] \in PositionRecord
    BY <1>4, <1>5, <1>6 DEF IInv, TypeOK
  <2>3. call' \in [price : Int, todo : SUBSET DOMAIN open']
    BY <1>2, <1>6 DEF IInv, TypeOK
  <2>4. bars' \in [Instruments -> Seq(Nat)] /\ lastTick' \in [Instruments -> Int]
    BY <1>2, <1>3 DEF IInv, TypeOK, Missing
  <2> QED BY <1>2, <2>1, <2>2, <2>3, <2>4 DEF IInv, TypeOK
<1>8. BooksApart'
  <2>1. JournalIds' = JournalIds
    BY <1>2 DEF JournalIds
  <2>2. ClosedTradesJournaled => ClosedTradesJournaled'
    BY <1>2, <1>6, <2>1 DEF ClosedTradesJournaled
  <2> QED BY <1>2, <1>6, <2>1, <2>2 DEF IInv, BooksApart
<1>9. FillsAtNextOpen'
  <2>1. \A id \in DOMAIN open' : EntryIsNextOpen(open[id])'
    BY <1>4, <1>5, <1>6
  <2>2. ASSUME NEW k \in DOMAIN journal PROVE EntryIsNextOpen(journal[k])'
    <3>1. PICK r \in RowRecord : r = journal[k] /\ EntryIsNextOpen(r)
      BY DEF IInv, TypeOK, FillsAtNextOpen
    <3>2. EntryIsNextOpen(r)'
      BY <1>3, <3>1, EntryStays DEF IInv, RowRecord
    <3> QED BY <1>2, <3>1, <3>2
  <2>3. ASSUME NEW id \in DOMAIN pending \ P
        PROVE  Len(bars'[pending[id].instrument]) = pending[id].barsSeen
    <3>1. pending[id].instrument # i /\ pending[id].instrument \in Instruments
      BY <1>1 DEF IInv, TypeOK, OrderRecord, PendingFor, OrdersFor
    <3> QED BY <1>2, <3>1 DEF IInv, TypeOK, FillsAtNextOpen
  <2>4. \A id \in DOMAIN pending' : Len(bars'[pending'[id].instrument]) = pending'[id].barsSeen
    BY <1>2, <2>3
  <2>5. \A k \in DOMAIN journal' : EntryIsNextOpen(journal[k])'
    BY <1>2, <2>2
  <2> QED BY <2>1, <2>4, <2>5 DEF FillsAtNextOpen
<1> QED BY <1>7, <1>8, <1>9 DEF IInv

\* What stays as it is when no bar opens.
LEMMA EntriesKept ==
  ASSUME IInv, UNCHANGED <<pending, bars>>,
         \A k \in DOMAIN journal' : EntryIsNextOpen(journal[k])',
         \A id \in DOMAIN open' : EntryIsNextOpen(open[id])'
  PROVE  FillsAtNextOpen'
BY DEF IInv, FillsAtNextOpen

\* A price update begins: nothing has left the books yet.
LEMMA OnPriceUpdateStep ==
  ASSUME RatesAssumption, ExecutorAssumption, IInv,
         NEW i \in Instruments, NEW price \in Prices, OnPriceUpdate(i, price)
  PROVE  IInv'
<1>1. UNCHANGED <<pending, open, journal, nextId, bars>>
  BY DEF OnPriceUpdate
<1>2. call' \in [price : Int, todo : SUBSET DOMAIN open] /\ lastTick' \in [Instruments -> Int]
  BY DEF OnPriceUpdate, OpenFor, OrdersFor, ExecutorAssumption, IInv, TypeOK
<1>3. TypeOK'
  BY <1>1, <1>2 DEF IInv, TypeOK
<1>4. BooksApart'
  BY <1>1 DEF IInv, BooksApart, JournalIds, ClosedTradesJournaled
<1>5. FillsAtNextOpen'
  BY <1>1 DEF IInv, FillsAtNextOpen, EntryIsNextOpen
<1> QED BY <1>3, <1>4, <1>5 DEF IInv

\* The row of a position: its entry is the position's.
LEMMA RowOfPosition ==
  ASSUME RatesAssumption, ExecutorAssumption, NEW id \in OrderIds,
         NEW p \in PositionRecord, NEW x \in Int,
         NEW reason \in {"stop_loss", "target", "session_close"}
  PROVE  /\ JournalRow(id, p, x, reason) \in RowRecord
         /\ JournalRow(id, p, x, reason).id = id
         /\ EntryIsNextOpen(p) => EntryIsNextOpen(JournalRow(id, p, x, reason))
<1>1. PICK e \in Int : e = Slipped(x, ~IsLong(p))
  BY SlippedType
<1>2. PICK n \in Int : n = NetProfit(p, e)
  BY NetProfitType DEF PositionRecord
<1> DEFINE r == [id |-> id, instrument |-> p.instrument, direction |-> p.direction,
                 quantity |-> p.quantity, entry_price |-> p.entry_price,
                 exit_price |-> e, pnl_net |-> n, exit_reason |-> reason,
                 barsSeen |-> p.barsSeen, quoted |-> x]
<1>3. JournalRow(id, p, x, reason) = r
  BY <1>1, <1>2 DEF JournalRow
<1>4. r \in RowRecord
  BY DEF RowRecord, PositionRecord
<1>5. EntryIsNextOpen(p) => EntryIsNextOpen(r)
  BY DEF EntryIsNextOpen, IsLong
<1> HIDE DEF r
<1>6. r.id = id
  BY DEF r
<1> QED BY <1>3, <1>4, <1>5, <1>6

\* The order numbers of the rows, as a set and in their order.
LEMMA NumbersOfRows ==
  ASSUME NEW J \in Seq(RowRecord), NEW row \in RowRecord, NEW K, K = Append(J, row)
  PROVE  /\ {K[k].id : k \in DOMAIN K} = {J[k].id : k \in DOMAIN J} \cup {row.id}
         /\ [k \in DOMAIN K |-> K[k].id] = Append([k \in DOMAIN J |-> J[k].id], row.id)
<1>1. PICK n \in Nat : n = Len(J)
  BY LenProperties
<1>2. /\ DOMAIN J = 1..n /\ DOMAIN K = 1..(n + 1)
      /\ K[n + 1] = row /\ \A k \in 1..n : K[k] = J[k]
  BY <1>1
<1>3. {K[k].id : k \in 1..(n + 1)} = {J[k].id : k \in 1..n} \cup {row.id}
  <2>1. \A k \in 1..(n + 1) : k \in 1..n \/ k = n + 1
    OBVIOUS
  <2> QED BY <1>2, <2>1
<1> DEFINE R == [k \in 1..n |-> J[k].id]
           S == [k \in 1..(n + 1) |-> K[k].id]
<1>4. /\ \A k \in 1..n : J[k].id \in OrderIds
      /\ \A k \in 1..(n + 1) : K[k].id \in OrderIds
  <2>1. \A k \in 1..n : J[k] \in RowRecord
    BY <1>1, ElementOfSeq
  <2>2. \A r \in RowRecord : r.id \in OrderIds
    BY DEF RowRecord
  <2>3. \A k \in 1..(n + 1) : k \in 1..n \/ k = n + 1
    OBVIOUS
  <2> QED BY <1>2, <2>1, <2>2, <2>3
<1>5. R \in Seq(OrderIds) /\ Len(R) = n /\ S \in Seq(OrderIds) /\ Len(S) = n + 1
  <2>1. R \in [1..n -> OrderIds] /\ S \in [1..(n + 1) -> OrderIds]
    BY <1>4
  <2> HIDE DEF R, S
  <2>2. ASSUME NEW m \in Nat, NEW f \in [1..m -> OrderIds]
        PROVE  f \in Seq(OrderIds) /\ Len(f) = m
    OBVIOUS
  <2> QED BY <2>1, <2>2
<1>6. \A k \in 1..n : S[k] = R[k]
  BY <1>2
<1>7. S[n + 1] = row.id /\ row.id \in OrderIds
  BY <1>2, <1>4
<1> HIDE DEF R, S
<1>8. S = Append(R, row.id)
  <2>1. PICK e \in OrderIds : e = row.id
    BY <1>7
  <2>2. /\ Append(R, e) \in Seq(OrderIds)
        /\ Len(Append(R, e)) = n + 1
        /\ \A k \in 1..n : Append(R, e)[k] = R[k]
        /\ Append(R, e)[n + 1] = e
    BY <1>5, AppendProperties
  <2>3. \A k \in 1..(n + 1) : S[k] = Append(R, e)[k]
    <3>1. \A k \in 1..(n + 1) : k \in 1..n \/ k = n + 1
      OBVIOUS
    <3> QED BY <1>6, <1>7, <2>1, <2>2, <3>1
  <2>4. S = Append(R, e)
    BY <1>5, <2>2, <2>3, SeqEqual
  <2> QED BY <2>1, <2>4
<1> QED BY <1>2, <1>3, <1>8 DEF R, S

\* A position is settled: it leaves the book, and is journaled unless the store raises.
LEMMA SettleStep ==
  ASSUME RatesAssumption, ExecutorAssumption, IInv,
         NEW id \in DOMAIN open, NEW x \in Int,
         NEW reason \in {"stop_loss", "target", "session_close"},
         NEW rest, rest \in [price : Int, todo : SUBSET (DOMAIN open \ {id})],
         Settle(id, x, reason, rest), UNCHANGED <<pending, nextId, bars, lastTick>>
  PROVE  IInv'
<1>1. PICK p \in PositionRecord : p = open[id] /\ EntryIsNextOpen(p)
  BY DEF IInv, TypeOK, FillsAtNextOpen
<1>2. id \in OrderIds /\ id \in 1..(nextId - 1)
  BY DEF IInv, TypeOK, OrderIds, ExecutorAssumption
<1>3. PICK row \in RowRecord :
        row = JournalRow(id, p, x, reason) /\ row.id = id /\ EntryIsNextOpen(row)
  BY <1>1, <1>2, RowOfPosition
<1>4. /\ DOMAIN open' = DOMAIN open \ {id}
      /\ \A k \in DOMAIN open \ {id} : open'[k] = open[k]
  BY RestrictedBook DEF Settle
<1>5. PICK J \in Seq(RowRecord) : J = journal
  BY DEF IInv, TypeOK
<1>6. PICK K \in Seq(RowRecord) : K = journal' /\ K \in {J, Append(J, row)}
  BY <1>1, <1>3, <1>5 DEF Settle
<1>7. call' \in [price : Int, todo : SUBSET DOMAIN open']
  BY <1>4 DEF Settle, NoCall, Missing
<1>8. TypeOK'
  <2>1. DOMAIN open' \subseteq 1..(nextId - 1) /\ \A k \in DOMAIN open' : open'[k] \in PositionRecord
    BY <1>4 DEF IInv, TypeOK
  <2> QED BY <1>6, <1>7, <2>1 DEF IInv, TypeOK
<1>9. \A k \in DOMAIN K : (k \in DOMAIN J /\ K[k] = J[k]) \/ K[k] = row
  <2>1. CASE K = J
    BY <2>1
  <2>2. CASE K = Append(J, row)
    BY <2>2
  <2> QED BY <1>6, <2>1, <2>2
<1>10. BooksApart'
  <2>1. ASSUME NEW k \in DOMAIN K
        PROVE  K[k].id \in (1..(nextId - 1)) \ (DOMAIN pending \cup (DOMAIN open \ {id}))
    <3>1. CASE k \in DOMAIN J /\ K[k] = J[k]
      BY <1>5, <3>1 DEF IInv, BooksApart, JournalIds
    <3>2. CASE K[k] = row
      BY <1>2, <1>3, <3>2 DEF IInv, BooksApart
    <3> QED BY <1>9, <3>1, <3>2
  <2>2. JournalIds' = {K[k].id : k \in DOMAIN K}
    BY <1>6 DEF JournalIds
  <2>3. ASSUME NEW j \in DOMAIN K, NEW k \in DOMAIN K, K[j].id = K[k].id PROVE j = k
    <3>1. \A m \in DOMAIN J : J[m].id # id
      BY <1>5 DEF IInv, BooksApart, JournalIds
    <3>2. CASE K = J
      BY <1>5, <2>3, <3>2 DEF IInv, BooksApart
    <3>3. CASE K = Append(J, row)
      <4>1. PICK n \in Nat : n = Len(J)
        OBVIOUS
      <4>2. /\ DOMAIN J = 1..n /\ DOMAIN K = 1..(n + 1)
            /\ K[n + 1] = row /\ \A m \in 1..n : K[m] = J[m]
        BY <3>3, <4>1
      <4>3. \A m \in 1..(n + 1) : m \in 1..n \/ m = n + 1
        OBVIOUS
      <4> QED BY <1>3, <1>5, <2>3, <3>1, <4>2, <4>3 DEF IInv, BooksApart
    <3> QED BY <1>6, <3>2, <3>3
  <2>4. StoreMayFail \/ ClosedTradesJournaled'
    <3>1. CASE K = Append(J, row)
      <4>1. PICK n \in Nat : n = Len(J)
        OBVIOUS
      <4>2. /\ DOMAIN J = 1..n /\ n + 1 \in DOMAIN K /\ K[n + 1] = row
            /\ \A m \in 1..n : m \in DOMAIN K /\ K[m] = J[m]
        BY <3>1, <4>1
      <4>3. id \in JournalIds' /\ JournalIds \subseteq JournalIds'
        BY <1>3, <1>5, <2>2, <4>2 DEF JournalIds
      <4> QED BY <1>4, <4>3 DEF IInv, BooksApart, ClosedTradesJournaled
    <3>2. CASE K # Append(J, row)
      BY <1>3, <1>1, <1>5, <1>6, <3>2 DEF Settle
    <3> QED BY <3>1, <3>2
  <2> QED BY <1>4, <1>6, <2>1, <2>2, <2>3, <2>4 DEF IInv, BooksApart
<1>11. FillsAtNextOpen'
  <2>1. ASSUME NEW k \in DOMAIN K PROVE EntryIsNextOpen(K[k])'
    <3>1. PICK r : r = K[k] /\ EntryIsNextOpen(r)
      BY <1>3, <1>5, <1>9 DEF IInv, FillsAtNextOpen
    <3> QED BY <3>1 DEF EntryIsNextOpen
  <2>2. ASSUME NEW k \in DOMAIN open' PROVE EntryIsNextOpen(open[k])'
    <3>1. PICK r : r = open[k] /\ EntryIsNextOpen(r)
      BY <1>4 DEF IInv, FillsAtNextOpen
    <3>2. open'[k] = r
      BY <1>4, <3>1
    <3> QED BY <3>1, <3>2 DEF EntryIsNextOpen
  <2>3. \A k \in DOMAIN journal' : EntryIsNextOpen(journal[k])'
    BY <1>6, <2>1
  <2> QED BY <2>2, <2>3, EntriesKept
<1> QED BY <1>8, <1>10, <1>11 DEF IInv

\* A walk is at a position that is open.
LEMMA CurrentOpen ==
  ASSUME TypeOK, ~Idle
  PROVE  /\ Current \in call.todo
         /\ Current \in DOMAIN open
         /\ AfterCurrent \in [price : Int, todo : SUBSET (DOMAIN open \ {Current})]
<1>1. PICK T \in SUBSET Nat, pr \in Int :
        T = call.todo /\ T # {} /\ T \subseteq DOMAIN open /\ call = [price |-> pr, todo |-> T]
  <2>1. /\ call \in [price : Int, todo : SUBSET DOMAIN open] /\ DOMAIN open \subseteq Nat
        /\ call.todo # {}
    BY DEF TypeOK, Idle
  <2> QED BY <2>1
<1>2. PICK c \in T : c = Min(T)
  BY <1>1, MinOfNaturals
<1>3. Current = c
  BY <1>1, <1>2 DEF Current
<1>4. [call EXCEPT !.todo = @ \ {c}] = [price |-> pr, todo |-> T \ {c}]
  BY <1>1
<1>5. AfterCurrent \in [price : Int, todo : SUBSET (DOMAIN open \ {c})]
  BY <1>1, <1>3, <1>4 DEF AfterCurrent, NoCall, Missing
<1> QED BY <1>1, <1>3, <1>5

LEMMA HoldStep ==
  ASSUME RatesAssumption, ExecutorAssumption, IInv, ~Idle, Hold,
         UNCHANGED <<pending, nextId, bars, lastTick>>
  PROVE  IInv'
<1>1. PICK c \in DOMAIN open : c = Current
  BY CurrentOpen DEF IInv
<1>2. PICK p \in PositionRecord, pr \in Int :
        p = open[c] /\ EntryIsNextOpen(p) /\ pr = call.price
  BY DEF IInv, TypeOK, FillsAtNextOpen
<1> DEFINE f == [p EXCEPT !.current_price = pr]
<1>3. open' = [open EXCEPT ![c] = f]
  BY <1>1, <1>2 DEF Hold
<1>4. f \in PositionRecord
  BY DEF PositionRecord
<1>5. EntryIsNextOpen(f)'
  BY <1>2 DEF EntryIsNextOpen, IsLong, PositionRecord
<1> HIDE DEF f
<1>6. DOMAIN open' = DOMAIN open /\ \A k \in DOMAIN open : open'[k] = IF k = c THEN f ELSE open[k]
  BY <1>3
<1>7. call' \in [price : Int, todo : SUBSET DOMAIN open']
  <2>1. AfterCurrent \in [price : Int, todo : SUBSET (DOMAIN open \ {Current})]
    BY CurrentOpen DEF IInv
  <2> QED BY <1>6, <2>1 DEF Hold
<1>8. TypeOK'
  <2>1. \A k \in DOMAIN open' : open'[k] \in PositionRecord
    BY <1>4, <1>6 DEF IInv, TypeOK
  <2> QED BY <1>6, <1>7, <2>1 DEF Hold, IInv, TypeOK
<1>9. BooksApart'
  BY <1>6 DEF Hold, IInv, BooksApart, JournalIds, ClosedTradesJournaled
<1>10. FillsAtNextOpen'
  <2>1. ASSUME NEW k \in DOMAIN open' PROVE EntryIsNextOpen(open[k])'
    <3>1. CASE k = c
      BY <1>5, <1>6, <3>1 DEF EntryIsNextOpen
    <3>2. CASE k # c
      <4>1. PICK r : r = open[k] /\ EntryIsNextOpen(r)
        BY <1>6 DEF IInv, FillsAtNextOpen
      <4>2. open'[k] = r
        BY <1>6, <3>2, <4>1
      <4> QED BY <4>1, <4>2 DEF EntryIsNextOpen
    <3> QED BY <3>1, <3>2
  <2>2. \A k \in DOMAIN journal' : EntryIsNextOpen(journal[k])'
    BY DEF Hold, IInv, FillsAtNextOpen, EntryIsNextOpen
  <2> QED BY <2>1, <2>2, EntriesKept
<1> QED BY <1>8, <1>9, <1>10 DEF IInv

LEMMA VisitPositionStep ==
  ASSUME RatesAssumption, ExecutorAssumption, IInv, VisitPosition
  PROVE  IInv'
<1>1. ~Idle /\ UNCHANGED <<pending, nextId, bars, lastTick>>
  BY DEF VisitPosition
<1>2. PICK c \in DOMAIN open : c = Current
  BY <1>1, CurrentOpen DEF IInv
<1>3. PICK rest : rest = AfterCurrent
  OBVIOUS
<1>4. CASE StopOut
  <2>1. PICK x \in Int : x = open[c].stop_loss
    BY DEF IInv, TypeOK, PositionRecord
  <2>2. Settle(c, x, "stop_loss", rest)
    BY <1>2, <1>3, <1>4, <2>1 DEF StopOut
  <2>3. rest \in [price : Int, todo : SUBSET (DOMAIN open \ {c})]
    BY <1>1, <1>2, <1>3, CurrentOpen DEF IInv
  <2> QED BY <1>1, <2>2, <2>3, SettleStep
<1>5. CASE TakeTarget
  <2>1. PICK x \in Int : x = open[c].target
    BY DEF IInv, TypeOK, PositionRecord
  <2>2. Settle(c, x, "target", rest)
    BY <1>2, <1>3, <1>5, <2>1 DEF TakeTarget
  <2>3. rest \in [price : Int, todo : SUBSET (DOMAIN open \ {c})]
    BY <1>1, <1>2, <1>3, CurrentOpen DEF IInv
  <2> QED BY <1>1, <2>2, <2>3, SettleStep
<1>6. CASE Hold
  BY <1>1, <1>6, HoldStep
<1> QED BY <1>4, <1>5, <1>6 DEF VisitPosition

LEMMA ClosePositionStep ==
  ASSUME RatesAssumption, ExecutorAssumption, IInv,
         NEW id \in OrderIds, NEW price \in Prices, ClosePosition(id, price)
  PROVE  IInv'
<1>1. PICK rest : rest = NoCall
  OBVIOUS
<1>2. /\ id \in DOMAIN open /\ price \in Int
      /\ Settle(id, price, "session_close", rest)
      /\ UNCHANGED <<pending, nextId, bars, lastTick>>
  BY <1>1 DEF ClosePosition, ExecutorAssumption
<1>3. rest \in [price : Int, todo : SUBSET (DOMAIN open \ {id})]
  BY <1>1 DEF NoCall, Missing
<1> QED BY <1>2, <1>3, SettleStep

LEMMA NextIInv ==
  ASSUME RatesAssumption, ExecutorAssumption, IInv, [Next]_vars
  PROVE  IInv'
<1>1. CASE UNCHANGED vars
  BY <1>1 DEF vars, IInv, TypeOK, BooksApart, JournalIds, ClosedTradesJournaled, FillsAtNextOpen, EntryIsNextOpen
<1> QED BY <1>1, SubmitOrderStep, OnBarOpenStep, OnPriceUpdateStep, VisitPositionStep,
           ClosePositionStep DEF Next

LEMMA SpecIInv == Spec => []IInv
<1>1. Init => IInv
  BY RatesAssumption, ExecutorAssumption, InitIInv
<1>2. IInv /\ [Next]_vars => IInv'
  BY RatesAssumption, ExecutorAssumption, NextIInv
<1> QED BY <1>1, <1>2, PTL DEF Spec

-----------------------------------------------------------------------------
(* The executor implements the lifecycle.                                  *)

\* A step that leaves the books' numbers is no step of the lifecycle.
LEMMA StutterMaps ==
  ASSUME nextId' = nextId, DOMAIN pending' = DOMAIN pending, DOMAIN open' = DOMAIN open,
         journal' = journal
  PROVE  UNCHANGED Lifecycle!vars
<1>1. \A id \in OrderIds : StageOf(id)' = StageOf(id)
  BY DEF StageOf, JournalIds
<1> QED BY <1>1 DEF Lifecycle!vars

LEMMA SubmitMaps ==
  ASSUME ExecutorAssumption, IInv,
         NEW s \in Signals, NEW i \in Instruments, NEW q \in Quantities, SubmitOrder(s, i, q)
  PROVE  Lifecycle!Submit
<1>1. /\ nextId \in 1..MaxOrders /\ nextId' = nextId + 1
      /\ DOMAIN pending' = DOMAIN pending \cup {nextId}
      /\ open' = open /\ journal' = journal
  BY DEF SubmitOrder, IInv, TypeOK, ExecutorAssumption
<1>2. ASSUME NEW id \in OrderIds
      PROVE  StageOf(id)' = IF id = nextId THEN "pending" ELSE StageOf(id)
  <2>1. JournalIds' = JournalIds
    BY <1>1 DEF JournalIds
  <2>2. id \in Int /\ nextId \in Int
    BY <1>1 DEF OrderIds, ExecutorAssumption
  <2>3. id >= nextId => id = nextId \/ id >= nextId + 1
    BY <2>2
  <2> QED BY <1>1, <2>1, <2>2, <2>3 DEF StageOf
<1>3. nextId - 1 < MaxOrders /\ nextId' - 1 = (nextId - 1) + 1 /\ (nextId - 1) + 1 = nextId
  BY <1>1 DEF ExecutorAssumption
<1>4. [id \in OrderIds |-> StageOf(id)']
        = [[id \in OrderIds |-> StageOf(id)] EXCEPT ![nextId] = "pending"]
  BY <1>1, <1>2 DEF OrderIds
<1> QED BY <1>1, <1>3, <1>4 DEF Lifecycle!Submit

\* The orders a bar fills were pending, and only their stage changes.
LEMMA FillMaps ==
  ASSUME ExecutorAssumption, IInv,
         NEW i \in Instruments, NEW price \in Prices, OnBarOpen(i, price)
  PROVE  \E ids \in SUBSET Lifecycle!InStage("pending") : Lifecycle!Fill(ids)
<1>1. PICK P \in SUBSET DOMAIN pending : P = PendingFor(i)
  BY DEF PendingFor, OrdersFor
<1>2. /\ DOMAIN open' = DOMAIN open \cup P
      /\ DOMAIN pending' = DOMAIN pending \ P
      /\ journal' = journal /\ nextId' = nextId
  BY <1>1, RestrictedBook DEF OnBarOpen
<1>3. /\ DOMAIN pending \subseteq 1..(nextId - 1) /\ nextId \in 1..(MaxOrders + 1)
      /\ MaxOrders \in Nat
  BY DEF IInv, TypeOK, ExecutorAssumption
<1>4. \A id \in P : id \in OrderIds /\ ~(id >= nextId) /\ StageOf(id) = "pending"
  BY <1>3 DEF OrderIds, StageOf
<1>5. ASSUME NEW id \in OrderIds
      PROVE  StageOf(id)' = IF id \in P THEN "open" ELSE StageOf(id)
  <2>1. JournalIds' = JournalIds
    BY <1>2 DEF JournalIds
  <2> QED BY <1>2, <1>4, <2>1 DEF StageOf
<1>6. P \in SUBSET Lifecycle!InStage("pending")
  BY <1>4 DEF Lifecycle!InStage, Lifecycle!OrderIds, OrderIds
<1>7. Lifecycle!Fill(P)
  <2>1. [id \in OrderIds |-> StageOf(id)']
          = [id \in OrderIds |-> IF id \in P THEN "open" ELSE [k \in OrderIds |-> StageOf(k)][id]]
    BY <1>5
  <2> QED BY <1>2, <1>6, <2>1 DEF Lifecycle!Fill, Lifecycle!OrderIds, OrderIds
<1> QED BY <1>6, <1>7

\* A settled position was open; it is journaled, or lost where the store may raise.
LEMMA SettleMaps ==
  ASSUME ExecutorAssumption, RatesAssumption, IInv,
         NEW id \in DOMAIN open, NEW x \in Int,
         NEW reason \in {"stop_loss", "target", "session_close"}, NEW rest,
         Settle(id, x, reason, rest), UNCHANGED <<pending, nextId>>
  PROVE  id \in OrderIds /\ (Lifecycle!Close(id) \/ Lifecycle!Lose(id))
<1> DEFINE stages == [k \in OrderIds |-> StageOf(k)]
<1>1. /\ DOMAIN open \subseteq 1..(nextId - 1) /\ nextId \in 1..(MaxOrders + 1)
      /\ MaxOrders \in Nat
      /\ id \notin DOMAIN pending /\ id \notin JournalIds
  BY DEF IInv, TypeOK, BooksApart, ExecutorAssumption
<1>2. id \in OrderIds /\ ~(id >= nextId)
  BY <1>1 DEF OrderIds
<1>3. stages[id] = "open"
  BY <1>1, <1>2 DEF StageOf
<1>4. DOMAIN open' = DOMAIN open \ {id} /\ UNCHANGED <<pending, nextId>>
  BY RestrictedBook DEF Settle
<1>5. PICK p \in PositionRecord : p = open[id]
  BY DEF IInv, TypeOK
<1>6. PICK row \in RowRecord : row = JournalRow(id, p, x, reason) /\ row.id = id
  BY <1>2, RowOfPosition
<1>7. PICK J \in Seq(RowRecord) : J = journal
  BY DEF IInv, TypeOK
<1>8. CASE journal' = Append(J, row)
  <2>1. JournalIds' = JournalIds \cup {id}
    BY <1>6, <1>7, <1>8, NumbersOfRows DEF JournalIds
  <2>2. ASSUME NEW k \in OrderIds
        PROVE  StageOf(k)' = IF k = id THEN "closed" ELSE StageOf(k)
    BY <1>1, <1>2, <1>4, <2>1 DEF StageOf
  <2>3. [k \in OrderIds |-> StageOf(k)'] = [stages EXCEPT ![id] = "closed"]
    BY <2>2
  <2>4. [k \in DOMAIN journal' |-> journal'[k].id]
          = Append([k \in DOMAIN journal |-> journal[k].id], id)
    BY <1>6, <1>7, <1>8, NumbersOfRows
  <2>5. Lifecycle!Close(id)
    BY <1>3, <1>4, <2>3, <2>4 DEF Lifecycle!Close
  <2> QED BY <1>2, <2>5
<1>9. CASE journal' = J /\ StoreMayFail
  <2>1. JournalIds' = JournalIds
    BY <1>7, <1>9 DEF JournalIds
  <2>2. ASSUME NEW k \in OrderIds
        PROVE  StageOf(k)' = IF k = id THEN "lost" ELSE StageOf(k)
    BY <1>1, <1>2, <1>4, <2>1 DEF StageOf
  <2>3. [k \in OrderIds |-> StageOf(k)'] = [stages EXCEPT ![id] = "lost"]
    BY <2>2
  <2>4. Lifecycle!Lose(id)
    BY <1>3, <1>4, <1>7, <1>9, <2>3 DEF Lifecycle!Lose
  <2> QED BY <1>2, <2>4
<1> QED BY <1>5, <1>6, <1>7, <1>8, <1>9 DEF Settle

\* A visited position is settled or held, and the walk goes on.
LEMMA VisitMaps ==
  ASSUME ExecutorAssumption, RatesAssumption, IInv, VisitPosition
  PROVE  [Lifecycle!Next]_(Lifecycle!vars)
<1>1. ~Idle /\ UNCHANGED <<pending, nextId, bars, lastTick>>
  BY DEF VisitPosition
<1>2. PICK c \in DOMAIN open : c = Current
  BY <1>1, CurrentOpen DEF IInv
<1>3. PICK rest : rest = AfterCurrent
  OBVIOUS
<1>4. CASE StopOut
  <2>1. PICK x \in Int : x = open[c].stop_loss
    BY DEF IInv, TypeOK, PositionRecord
  <2>2. Settle(c, x, "stop_loss", rest)
    BY <1>2, <1>3, <1>4, <2>1 DEF StopOut
  <2>3. c \in OrderIds /\ (Lifecycle!Close(c) \/ Lifecycle!Lose(c))
    BY <1>1, <2>2, SettleMaps
  <2> QED BY <2>3 DEF Lifecycle!Next, Lifecycle!OrderIds, OrderIds
<1>5. CASE TakeTarget
  <2>1. PICK x \in Int : x = open[c].target
    BY DEF IInv, TypeOK, PositionRecord
  <2>2. Settle(c, x, "target", rest)
    BY <1>2, <1>3, <1>5, <2>1 DEF TakeTarget
  <2>3. c \in OrderIds /\ (Lifecycle!Close(c) \/ Lifecycle!Lose(c))
    BY <1>1, <2>2, SettleMaps
  <2> QED BY <2>3 DEF Lifecycle!Next, Lifecycle!OrderIds, OrderIds
<1>6. CASE Hold
  <2>1. DOMAIN open' = DOMAIN open /\ journal' = journal
    BY <1>6 DEF Hold
  <2>2. UNCHANGED Lifecycle!vars
    BY <1>1, <2>1, StutterMaps
  <2> QED BY <2>2
<1> QED BY <1>4, <1>5, <1>6 DEF VisitPosition

LEMMA CloseMaps ==
  ASSUME ExecutorAssumption, RatesAssumption, IInv,
         NEW id \in OrderIds, NEW price \in Prices, ClosePosition(id, price)
  PROVE  Lifecycle!Close(id) \/ Lifecycle!Lose(id)
<1>1. PICK rest : rest = NoCall
  OBVIOUS
<1>2. /\ id \in DOMAIN open /\ price \in Int
      /\ Settle(id, price, "session_close", rest)
      /\ UNCHANGED <<pending, nextId>>
  BY <1>1 DEF ClosePosition, ExecutorAssumption
<1> QED BY <1>2, SettleMaps

LEMMA NextMaps ==
  ASSUME ExecutorAssumption, RatesAssumption, IInv, [Next]_vars
  PROVE  [Lifecycle!Next]_(Lifecycle!vars)
<1>1. ASSUME NEW s \in Signals, NEW i \in Instruments, NEW q \in Quantities, SubmitOrder(s, i, q)
      PROVE  Lifecycle!Next
  BY <1>1, SubmitMaps DEF Lifecycle!Next
<1>2. ASSUME NEW i \in Instruments, NEW price \in Prices, OnBarOpen(i, price)
      PROVE  Lifecycle!Next
  BY <1>2, FillMaps DEF Lifecycle!Next
<1>3. ASSUME NEW i \in Instruments, NEW price \in Prices, OnPriceUpdate(i, price)
      PROVE  UNCHANGED Lifecycle!vars
  BY <1>3, StutterMaps DEF OnPriceUpdate
<1>4. ASSUME NEW id \in OrderIds, NEW price \in Prices, ClosePosition(id, price)
      PROVE  Lifecycle!Next
  BY <1>4, CloseMaps DEF Lifecycle!Next, Lifecycle!OrderIds, OrderIds
<1>5. ASSUME UNCHANGED vars PROVE UNCHANGED Lifecycle!vars
  BY <1>5, StutterMaps DEF vars
<1> QED BY <1>1, <1>2, <1>3, <1>4, <1>5, VisitMaps DEF Next

LEMMA InitMaps ==
  ASSUME ExecutorAssumption, Init
  PROVE  Lifecycle!Init
<1>1. \A id \in OrderIds : StageOf(id) = "none"
  BY DEF Init, StageOf, OrderIds, ExecutorAssumption
<1>2. nextId - 1 = 0 /\ DOMAIN journal = {}
  BY DEF Init
<1>3. [k \in DOMAIN journal |-> journal[k].id] = <<>>
  BY <1>2
<1> QED BY <1>1, <1>2, <1>3 DEF Lifecycle!Init, Lifecycle!OrderIds, OrderIds

-----------------------------------------------------------------------------
(* A price update leaves no triggered position.                            *)

\* What the property says of one position, when a price came since the last bar.
Untriggered(p, tick) ==
  tick # Missing =>
    /\ p.current_price = tick
    /\ IF IsLong(p) THEN p.stop_loss < tick /\ tick < p.target
                    ELSE p.target < tick /\ tick < p.stop_loss

\* The walk has left no triggered position behind it, and what it has before it
\* is about the price that came last.
WalkedOff ==
  \A id \in DOMAIN open :
    IF id \in call.todo
    THEN lastTick[open[id].instrument] = call.price
    ELSE Untriggered(open[id], lastTick[open[id].instrument])

WalkInv == NothingLost => WalkedOff

\* What is lost stays lost.
LEMMA LostStays ==
  ASSUME ExecutorAssumption, IInv, [Lifecycle!Next]_(Lifecycle!vars), NothingLost'
  PROVE  NothingLost
<1> DEFINE stages == [k \in OrderIds |-> StageOf(k)]
<1> SUFFICES ASSUME NEW id \in OrderIds, StageOf(id) = "lost" PROVE StageOf(id)' = "lost"
  BY DEF NothingLost
<1>1. stages[id] = "lost" /\ stages'[id] = StageOf(id)' /\ DOMAIN stages = OrderIds
  OBVIOUS
<1>2. ~(id >= nextId)
  BY DEF StageOf
<1>3. id # (nextId - 1) + 1
  BY <1>2 DEF IInv, TypeOK, OrderIds, ExecutorAssumption
<1> HIDE DEF stages
<1>4. CASE Lifecycle!Submit
  BY <1>1, <1>3, <1>4 DEF Lifecycle!Submit, stages
<1>5. ASSUME NEW ids \in SUBSET Lifecycle!InStage("pending"), Lifecycle!Fill(ids)
      PROVE  StageOf(id)' = "lost"
  <2>1. id \notin ids
    BY <1>1 DEF Lifecycle!InStage, stages
  <2> QED BY <1>1, <1>5, <2>1 DEF Lifecycle!Fill, Lifecycle!OrderIds, OrderIds, stages
<1>6. ASSUME NEW k \in OrderIds, Lifecycle!Close(k) \/ Lifecycle!Lose(k)
      PROVE  StageOf(id)' = "lost"
  <2>1. k # id
    BY <1>1, <1>6 DEF Lifecycle!Close, Lifecycle!Lose, stages
  <2> QED BY <1>1, <1>6, <2>1 DEF Lifecycle!Close, Lifecycle!Lose, stages
<1>7. CASE UNCHANGED Lifecycle!vars
  BY <1>1, <1>7 DEF Lifecycle!vars, stages
<1> QED BY <1>4, <1>5, <1>6, <1>7 DEF Lifecycle!Next, Lifecycle!OrderIds, OrderIds

\* A position that is settled without a row is lost.
LEMMA LostWithoutRow ==
  ASSUME ExecutorAssumption, IInv, NEW id \in DOMAIN open,
         DOMAIN open' = DOMAIN open \ {id}, UNCHANGED <<pending, nextId, journal>>
  PROVE  ~NothingLost'
<1>1. /\ DOMAIN open \subseteq 1..(nextId - 1) /\ nextId \in 1..(MaxOrders + 1)
      /\ MaxOrders \in Nat
      /\ id \notin DOMAIN pending /\ id \notin JournalIds
  BY DEF IInv, TypeOK, BooksApart, ExecutorAssumption
<1>2. id \in OrderIds /\ ~(id >= nextId)
  BY <1>1 DEF OrderIds
<1>3. JournalIds' = JournalIds
  BY DEF JournalIds
<1>4. StageOf(id)' = "lost"
  BY <1>1, <1>2, <1>3 DEF StageOf
<1> QED BY <1>2, <1>4 DEF NothingLost

\* A settled position is out of the walk, the others are where they were in it.
LEMMA SettleWalks ==
  ASSUME ExecutorAssumption, RatesAssumption, IInv, WalkedOff,
         NEW id \in DOMAIN open, NEW x \in Int, NEW reason, NEW rest,
         Settle(id, x, reason, rest), UNCHANGED <<pending, nextId, bars, lastTick>>,
         rest.todo = call.todo \ {id},
         rest.todo # {} => rest.price = call.price,
         NothingLost'
  PROVE  WalkedOff'
<1>1. /\ DOMAIN open' = DOMAIN open \ {id}
      /\ \A k \in DOMAIN open \ {id} : open'[k] = open[k]
  BY RestrictedBook DEF Settle
<1>2. call' = rest
  BY <1>1, LostWithoutRow DEF Settle
<1> SUFFICES ASSUME NEW k \in DOMAIN open \ {id}
             PROVE  IF k \in call'.todo
                    THEN lastTick[open[k].instrument] = call'.price
                    ELSE Untriggered(open[k], lastTick[open[k].instrument])
  BY <1>1 DEF WalkedOff, Untriggered, IsLong
<1> QED BY <1>2 DEF WalkedOff

\* A position is held at a price between its stop and its target.
LEMMA HoldWalks ==
  ASSUME ExecutorAssumption, IInv, WalkedOff, ~Idle, Hold,
         UNCHANGED <<pending, nextId, bars, lastTick>>,
         NEW rest, rest = AfterCurrent, rest.todo = call.todo \ {Current},
         rest.todo # {} => rest.price = call.price
  PROVE  WalkedOff'
<1>1. PICK c \in DOMAIN open : c = Current /\ c \in call.todo
  BY CurrentOpen DEF IInv
<1>2. PICK p \in PositionRecord, pr \in Int :
        p = open[c] /\ pr = call.price /\ lastTick[p.instrument] = pr
  BY <1>1 DEF IInv, TypeOK, WalkedOff
<1> DEFINE f == [p EXCEPT !.current_price = pr]
<1>3. open' = [open EXCEPT ![c] = f]
  BY <1>1, <1>2 DEF Hold
<1>4. Untriggered(f, pr) /\ f.instrument = p.instrument
  <2>1. ~HitStop(p, pr) /\ ~HitTarget(p, pr)
    BY <1>1, <1>2 DEF Hold
  <2> QED BY <2>1 DEF Untriggered, HitStop, HitTarget, IsLong, PositionRecord
<1> HIDE DEF f
<1>5. DOMAIN open' = DOMAIN open /\ \A k \in DOMAIN open : open'[k] = IF k = c THEN f ELSE open[k]
  BY <1>3
<1>6. call'.todo = call.todo \ {c} /\ (call'.todo # {} => call'.price = call.price)
  BY <1>1 DEF Hold
<1> SUFFICES ASSUME NEW k \in DOMAIN open
             PROVE  IF k \in call'.todo
                    THEN lastTick[open'[k].instrument] = call'.price
                    ELSE Untriggered(open'[k], lastTick[open'[k].instrument])
  BY <1>5 DEF WalkedOff, Untriggered, IsLong
<1>7. CASE k = c
  BY <1>2, <1>4, <1>5, <1>6, <1>7
<1>8. CASE k # c
  BY <1>5, <1>6, <1>8 DEF WalkedOff
<1> QED BY <1>7, <1>8

\* What is left of the walk: the other positions, at the same price.
LEMMA WalkGoesOn ==
  ASSUME TypeOK, ~Idle
  PROVE  /\ AfterCurrent.todo = call.todo \ {Current}
         /\ AfterCurrent.todo # {} => AfterCurrent.price = call.price
<1>1. PICK pr, T : call = [price |-> pr, todo |-> T]
  BY DEF TypeOK
<1>2. PICK c : c = Current
  OBVIOUS
<1>3. [call EXCEPT !.todo = @ \ {c}] = [price |-> pr, todo |-> T \ {c}]
  BY <1>1
<1>4. CASE T = {c}
  BY <1>1, <1>2, <1>4 DEF AfterCurrent, NoCall
<1>5. CASE T # {c}
  BY <1>1, <1>2, <1>3, <1>5 DEF AfterCurrent
<1> QED BY <1>4, <1>5

\* A bar's open resets the price of its instrument, so that it says nothing of
\* the positions filled at it.
LEMMA BarOpenWalks ==
  ASSUME ExecutorAssumption, IInv, WalkedOff,
         NEW i \in Instruments, NEW price \in Prices, OnBarOpen(i, price)
  PROVE  WalkedOff'
<1>1. PICK P \in SUBSET DOMAIN pending :
        P = PendingFor(i) /\ \A k \in P : pending[k].instrument = i
  <2>1. /\ PendingFor(i) \in SUBSET DOMAIN pending
        /\ \A k \in PendingFor(i) : pending[k].instrument = i
    BY DEF PendingFor, OrdersFor
  <2> QED BY <2>1
<1>2. /\ open' = [id \in DOMAIN open \cup P |->
                   IF id \in P THEN FilledAt(pending[id], price) ELSE open[id]]
      /\ lastTick' = [lastTick EXCEPT ![i] = Missing]
      /\ call' = call /\ call.todo = {}
  BY <1>1 DEF OnBarOpen, Idle
<1>3. lastTick \in [Instruments -> Int]
  BY DEF IInv, TypeOK
<1> SUFFICES ASSUME NEW k \in DOMAIN open'
             PROVE  Untriggered(open'[k], lastTick'[open'[k].instrument])
  BY <1>2 DEF WalkedOff, Untriggered, IsLong
<1>4. CASE k \in P
  <2>1. open'[k].instrument = i
    BY <1>1, <1>2, <1>4 DEF FilledAt
  <2> QED BY <1>2, <1>3, <2>1 DEF Untriggered
<1>5. CASE k \notin P
  <2>1. PICK p \in PositionRecord : k \in DOMAIN open /\ p = open[k] /\ open'[k] = p
    BY <1>2, <1>5 DEF IInv, TypeOK
  <2>2. Untriggered(p, lastTick[p.instrument])
    BY <1>2, <2>1 DEF WalkedOff
  <2>3. CASE p.instrument = i
    BY <1>2, <1>3, <2>1, <2>3 DEF Untriggered
  <2>4. CASE p.instrument # i
    BY <1>2, <1>3, <2>1, <2>2, <2>4 DEF PositionRecord
  <2> QED BY <2>3, <2>4
<1> QED BY <1>4, <1>5

\* A price update puts every position of its instrument before the walk.
LEMMA PriceUpdateWalks ==
  ASSUME IInv, WalkedOff,
         NEW i \in Instruments, NEW price \in Prices, OnPriceUpdate(i, price)
  PROVE  WalkedOff'
<1>1. /\ call' = [price |-> price, todo |-> OpenFor(i)] /\ call.todo = {}
      /\ lastTick' = [lastTick EXCEPT ![i] = price]
      /\ open' = open
      /\ lastTick \in [Instruments -> Int]
  BY DEF OnPriceUpdate, Idle, IInv, TypeOK
<1> SUFFICES ASSUME NEW k \in DOMAIN open
             PROVE  IF k \in call'.todo
                    THEN lastTick'[open[k].instrument] = call'.price
                    ELSE Untriggered(open[k], lastTick'[open[k].instrument])
  BY <1>1 DEF WalkedOff, Untriggered, IsLong
<1>2. PICK p \in PositionRecord : p = open[k] /\ Untriggered(p, lastTick[p.instrument])
  BY <1>1 DEF IInv, TypeOK, WalkedOff
<1>3. k \in call'.todo <=> p.instrument = i
  BY <1>1, <1>2 DEF OpenFor, OrdersFor
<1>4. call'.price = price
  BY <1>1
<1> QED BY <1>1, <1>2, <1>3, <1>4 DEF PositionRecord

LEMMA VisitWalks ==
  ASSUME ExecutorAssumption, RatesAssumption, IInv, WalkedOff, VisitPosition, NothingLost'
  PROVE  WalkedOff'
<1>1. ~Idle /\ UNCHANGED <<pending, nextId, bars, lastTick>>
  BY DEF VisitPosition
<1>2. PICK c \in DOMAIN open : c = Current
  BY <1>1, CurrentOpen DEF IInv
<1>3. PICK rest :
        /\ rest = AfterCurrent
        /\ rest.todo = call.todo \ {Current}
        /\ rest.todo # {} => rest.price = call.price
  BY <1>1, WalkGoesOn DEF IInv
<1>4. CASE StopOut
  <2>1. PICK x \in Int : x = open[c].stop_loss
    BY DEF IInv, TypeOK, PositionRecord
  <2>2. Settle(c, x, "stop_loss", rest)
    BY <1>2, <1>3, <1>4, <2>1 DEF StopOut
  <2>3. rest.todo = call.todo \ {c} /\ (rest.todo # {} => rest.price = call.price)
    BY <1>2, <1>3
  <2> QED BY <1>1, <2>2, <2>3, SettleWalks
<1>5. CASE TakeTarget
  <2>1. PICK x \in Int : x = open[c].target
    BY DEF IInv, TypeOK, PositionRecord
  <2>2. Settle(c, x, "target", rest)
    BY <1>2, <1>3, <1>5, <2>1 DEF TakeTarget
  <2>3. rest.todo = call.todo \ {c} /\ (rest.todo # {} => rest.price = call.price)
    BY <1>2, <1>3
  <2> QED BY <1>1, <2>2, <2>3, SettleWalks
<1>6. CASE Hold
  BY <1>1, <1>3, <1>6, HoldWalks
<1> QED BY <1>4, <1>5, <1>6 DEF VisitPosition

LEMMA CloseWalks ==
  ASSUME ExecutorAssumption, RatesAssumption, IInv, WalkedOff, NothingLost',
         NEW id \in OrderIds, NEW price \in Prices, ClosePosition(id, price)
  PROVE  WalkedOff'
<1>1. PICK rest : rest = NoCall
  OBVIOUS
<1>2. /\ id \in DOMAIN open /\ price \in Int
      /\ Settle(id, price, "session_close", rest)
      /\ UNCHANGED <<pending, nextId, bars, lastTick>>
  BY <1>1 DEF ClosePosition, ExecutorAssumption
<1>3. rest.todo = call.todo \ {id} /\ (rest.todo # {} => rest.price = call.price)
  BY <1>1 DEF NoCall, ClosePosition, Idle
<1> QED BY <1>2, <1>3, SettleWalks

LEMMA NextWalks ==
  ASSUME ExecutorAssumption, RatesAssumption, IInv, WalkInv, [Next]_vars
  PROVE  WalkInv'
<1> SUFFICES ASSUME NothingLost' PROVE WalkedOff'
  BY DEF WalkInv
<1>1. [Lifecycle!Next]_(Lifecycle!vars)
  BY NextMaps
<1>2. WalkedOff
  BY <1>1, LostStays DEF WalkInv
<1>3. ASSUME UNCHANGED <<open, call, lastTick>> PROVE WalkedOff'
  BY <1>2, <1>3 DEF WalkedOff, Untriggered, IsLong
<1>4. ASSUME NEW s \in Signals, NEW i \in Instruments, NEW q \in Quantities, SubmitOrder(s, i, q)
      PROVE  WalkedOff'
  BY <1>3, <1>4 DEF SubmitOrder
<1>5. CASE UNCHANGED vars
  BY <1>3, <1>5 DEF vars
<1> QED BY <1>2, <1>4, <1>5, BarOpenWalks, PriceUpdateWalks, VisitWalks, CloseWalks DEF Next

LEMMA SpecWalkInv == Spec => [](IInv /\ WalkInv)
<1>1. Init => WalkInv
  BY DEF Init, WalkInv, WalkedOff
<1>2. IInv /\ WalkInv /\ [Next]_vars => WalkInv'
  BY RatesAssumption, ExecutorAssumption, NextWalks
<1> QED BY <1>1, <1>2, SpecIInv, PTL DEF Spec

-----------------------------------------------------------------------------
(* The costs.                                                              *)

\* What leaves the trader's pocket is never negative.
LEMMA ChargesNatural ==
  ASSUME RatesAssumption, NEW t \in Nat, NEW isBuy
  PROVE  LegCharges(t, isBuy) \in Nat
<1>1. \A rate \in Nat : rate * t \in Nat
  OBVIOUS
<1>2. Brokerage(t) \in Nat
  BY <1>1, BrokerageFlat * RateUnit \in Nat DEF RatesAssumption, Brokerage
<1>3. PICK x \in Nat : x = Taxable(t)
  BY <1>1, <1>2 DEF RatesAssumption, Taxable
<1>4. PICK stt \in Nat, duty \in Nat :
        /\ stt = IF isBuy THEN 0 ELSE SttPct * t
        /\ duty = IF isBuy THEN StampPct * t ELSE 0
  BY <1>1 DEF RatesAssumption
<1>5. GstPct * x \in Nat /\ (x + stt + duty) * RateUnit \in Nat
  BY DEF RatesAssumption
<1> QED BY <1>3, <1>4, <1>5 DEF LegCharges

LEMMA TimesStrict ==
  ASSUME NEW a \in Int, NEW b \in Int, a < b, NEW q \in Nat \ {0}
  PROVE  a * q < b * q /\ a * q \in Int /\ b * q \in Int
<1>1. PICK d \in Nat \ {0} : b = a + d
  BY b - a \in Nat \ {0}, b = a + (b - a)
<1>2. d * q > 0 /\ b * q = a * q + d * q
  BY <1>1
<1> QED BY <1>2

\* Slippage takes something from both legs.
LEMMA SlippageCosts ==
  ASSUME ExecutorAssumption, SlippageBps > 0, NEW o \in Nat \ {0}, NEW x \in Nat
  PROVE  /\ x * (SlippageUnit - SlippageBps) - o * (SlippageUnit + SlippageBps)
              < x * SlippageUnit - o * SlippageUnit
         /\ o * (SlippageUnit - SlippageBps) - x * (SlippageUnit + SlippageBps)
              < o * SlippageUnit - x * SlippageUnit
<1>1. PICK u \in Nat, b \in Nat \ {0} : u = SlippageUnit /\ b = SlippageBps
  BY DEF ExecutorAssumption
<1>2. /\ x * (u - b) = x * u - x * b /\ x * (u + b) = x * u + x * b
      /\ o * (u - b) = o * u - o * b /\ o * (u + b) = o * u + o * b
  OBVIOUS
<1>3. o * b > 0 /\ x * b >= 0 /\ x * b \in Int /\ o * b \in Int /\ x * u \in Int /\ o * u \in Int
  OBVIOUS
<1>4. x * (u - b) - o * (u + b) < x * u - o * u /\ o * (u - b) - x * (u + b) < o * u - x * u
  BY <1>2, <1>3
<1> QED BY <1>1, <1>4

\* A position filled at an open and closed at a quoted price nets less than the
\* difference of the two.
LEMMA NetBelowGross ==
  ASSUME ExecutorAssumption, RatesAssumption, SlippageBps > 0,
         NEW p, p.quantity \in Nat \ {0}, NEW o \in Nat \ {0}, NEW x \in Nat,
         p.entry_price = o * (IF IsLong(p) THEN SlippageUnit + SlippageBps
                                           ELSE SlippageUnit - SlippageBps)
  PROVE  NetProfit(p, Slipped(x, ~IsLong(p))) < Gross(p, o * SlippageUnit, x * SlippageUnit)
<1>1. PICK q \in Nat \ {0}, r \in Nat \ {0} : q = p.quantity /\ r = RateUnit
  BY DEF RatesAssumption
<1>2. PICK e \in Nat, f \in Nat : e = p.entry_price /\ f = Slipped(x, ~IsLong(p))
  <2>1. SlippageUnit + SlippageBps \in Nat /\ SlippageUnit - SlippageBps \in Nat
    BY DEF ExecutorAssumption
  <2>2. \A u \in Nat : o * u \in Nat
    OBVIOUS
  <2> QED BY <2>1, <2>2, SlippedType
<1>3. PICK d \in Int, g \in Int :
        /\ d = IF IsLong(p) THEN f - e ELSE e - f
        /\ g = IF IsLong(p) THEN x * SlippageUnit - o * SlippageUnit
                            ELSE o * SlippageUnit - x * SlippageUnit
  <2>1. PICK y \in Int, z \in Int : y = x * SlippageUnit /\ z = o * SlippageUnit
    BY DEF ExecutorAssumption
  <2>2. f - e \in Int /\ e - f \in Int /\ y - z \in Int /\ z - y \in Int
    OBVIOUS
  <2> QED BY <2>1, <2>2
<1>4. d < g
  BY <1>2, <1>3, SlippageCosts DEF Slipped
<1>5. d * q * r * r < g * q * r * r /\ d * q * r * r \in Int /\ g * q * r * r \in Int
  <2>1. d * q < g * q /\ d * q \in Int /\ g * q \in Int
    BY <1>4, TimesStrict
  <2>2. d * q * r < g * q * r /\ d * q * r \in Int /\ g * q * r \in Int
    BY <2>1, TimesStrict
  <2> QED BY <2>2, TimesStrict
<1>6. PICK c \in Nat : c = RoundTripCharges(e * q, f * q, IsLong(p))
  BY e * q \in Nat, f * q \in Nat, ChargesNatural DEF RoundTripCharges
<1>7. NetProfit(p, f) = d * q * r * r - c
  BY <1>1, <1>2, <1>3, <1>6 DEF NetProfit, Gross
<1>8. Gross(p, o * SlippageUnit, x * SlippageUnit) = g * q * r * r
  BY <1>1, <1>3 DEF Gross
<1> QED BY <1>2, <1>5, <1>7, <1>8

\* What is bought or sold is something, and no price is negative.
Tradeable(p) == p.quantity > 0 /\ p.stop_loss >= 0 /\ p.target >= 0

PricesPositive ==
  /\ \A id \in DOMAIN pending : Tradeable(pending[id])
  /\ \A id \in DOMAIN open : Tradeable(open[id])
  /\ \A i \in Instruments : \A n \in DOMAIN bars[i] : bars[i][n] > 0

RowCosts(r) ==
  r.pnl_net < Gross(r, bars[r.instrument][r.barsSeen + 1] * SlippageUnit,
                       r.quoted * SlippageUnit)

CostInv == PricesPositive /\ CostsAgainstTrader

LEMMA RowsCost == CostsAgainstTrader <=> \A k \in DOMAIN journal : RowCosts(journal[k])
BY DEF CostsAgainstTrader, RowCosts

LEMMA SubmitCosts ==
  ASSUME ExecutorAssumption, IInv, CostInv,
         \A s \in Signals : Submittable(s) => s.stop_loss >= 0 /\ s.target >= 0,
         NEW s \in Signals, NEW i \in Instruments, NEW q \in Quantities, SubmitOrder(s, i, q)
  PROVE  CostInv'
<1>1. UNCHANGED <<open, journal, bars>> /\ Submittable(s)
  BY DEF SubmitOrder
<1>2. PICK o : o = NewOrder(s, i, q)
  OBVIOUS
<1>3. Tradeable(o)
  BY <1>1, <1>2 DEF NewOrder, Tradeable, ExecutorAssumption
<1>4. /\ DOMAIN pending' = DOMAIN pending \cup {nextId}
      /\ \A k \in DOMAIN pending' : pending'[k] = IF k = nextId THEN o ELSE pending[k]
  BY <1>2 DEF SubmitOrder
<1>5. \A k \in DOMAIN pending' : Tradeable(pending'[k])
  BY <1>3, <1>4 DEF CostInv, PricesPositive
<1>6. PricesPositive'
  BY <1>1, <1>5 DEF CostInv, PricesPositive, Tradeable
<1>7. CostsAgainstTrader'
  BY <1>1 DEF CostInv, CostsAgainstTrader, Gross, IsLong
<1> QED BY <1>6, <1>7 DEF CostInv

\* A bar is filled at a positive price, and the bars of the rows stay.
LEMMA BarOpenCosts ==
  ASSUME ExecutorAssumption, IInv, CostInv,
         NEW i \in Instruments, NEW price \in Prices, OnBarOpen(i, price)
  PROVE  CostInv'
<1>1. PICK P \in SUBSET DOMAIN pending : P = PendingFor(i)
  BY DEF PendingFor, OrdersFor
<1>2. /\ open' = [id \in DOMAIN open \cup P |->
                   IF id \in P THEN FilledAt(pending[id], price) ELSE open[id]]
      /\ pending' = Restrict(pending, DOMAIN pending \ P)
      /\ bars' = [bars EXCEPT ![i] = Append(@, price)]
      /\ journal' = journal
  BY <1>1 DEF OnBarOpen
<1>3. \A k \in DOMAIN pending' : k \in DOMAIN pending /\ pending'[k] = pending[k]
  BY <1>2, RestrictedBook
<1>4. \A k \in DOMAIN pending' : Tradeable(pending'[k])
  BY <1>3 DEF CostInv, PricesPositive
<1>5. \A k \in DOMAIN open' : Tradeable(open'[k])
  <2> SUFFICES ASSUME NEW k \in DOMAIN open' PROVE Tradeable(open'[k])
    OBVIOUS
  <2>1. CASE k \in P
    <3>1. open'[k] = FilledAt(pending[k], price) /\ Tradeable(pending[k])
      BY <1>2, <2>1 DEF CostInv, PricesPositive
    <3> QED BY <3>1 DEF FilledAt, Tradeable
  <2>2. CASE k \notin P
    BY <1>2, <2>2 DEF CostInv, PricesPositive
  <2> QED BY <2>1, <2>2
<1>6. ASSUME NEW j \in Instruments
      PROVE  /\ \A n \in DOMAIN bars[j] : n \in DOMAIN bars'[j] /\ bars'[j][n] = bars[j][n]
             /\ \A n \in DOMAIN bars'[j] : bars'[j][n] > 0
  <2>1. PICK b \in Seq(Nat) : b = bars[j] /\ \A n \in DOMAIN b : b[n] > 0
    BY DEF IInv, TypeOK, CostInv, PricesPositive
  <2>2. CASE j # i
    BY <1>2, <2>1, <2>2 DEF IInv, TypeOK
  <2>3. CASE j = i
    <3>1. PICK B, m : B = bars'[j] /\ m = Len(b) /\ m \in Nat
      BY <2>1, LenProperties
    <3>2. B = Append(b, price)
      BY <1>2, <2>1, <2>3, <3>1 DEF IInv, TypeOK
    <3>3. price \in Nat /\ price > 0
      BY DEF ExecutorAssumption
    <3>4. DOMAIN b = 1..m
      BY <3>1, LenProperties
    <3>5. /\ DOMAIN B = 1..(m + 1) /\ B[m + 1] = price
          /\ \A n \in 1..m : B[n] = b[n]
      BY <3>1, <3>2, <3>3, <3>4, AppendProperties, LenProperties
    <3>6. 1..(m + 1) = (1..m) \cup {m + 1}
      BY <3>1
    <3>7. \A n \in DOMAIN b : n \in DOMAIN B /\ B[n] = b[n]
      BY <3>4, <3>5, <3>6
    <3>8. \A n \in DOMAIN B : B[n] > 0
      BY <2>1, <3>3, <3>4, <3>5, <3>6
    <3> QED BY <2>1, <3>1, <3>7, <3>8
  <2> QED BY <2>2, <2>3
<1>7. PricesPositive'
  BY <1>4, <1>5, <1>6 DEF PricesPositive, Tradeable
<1>8. ASSUME NEW k \in DOMAIN journal PROVE RowCosts(journal[k])'
  <2>1. PICK r \in RowRecord : r = journal[k] /\ RowCosts(r) /\ EntryIsNextOpen(r)
    BY RowsCost, ElementOfSeq DEF IInv, TypeOK, FillsAtNextOpen, CostInv
  <2>2. PICK j \in Instruments, n \in Nat : j = r.instrument /\ n = r.barsSeen
    BY <2>1 DEF RowRecord
  <2>3. n + 1 \in DOMAIN bars[j]
    <3>1. PICK b \in Seq(Nat) : b = bars[j]
      BY DEF IInv, TypeOK
    <3>2. n < Len(b)
      BY <2>1, <2>2, <3>1 DEF EntryIsNextOpen
    <3> QED BY <3>1, <3>2
  <2>4. bars'[j][n + 1] = bars[j][n + 1]
    BY <1>6, <2>3
  <2>5. journal'[k] = r
    BY <1>2, <2>1
  <2> QED BY <2>1, <2>2, <2>4, <2>5 DEF RowCosts, Gross, IsLong
<1>9. CostsAgainstTrader'
  BY <1>2, <1>8, RowsCost DEF CostsAgainstTrader, RowCosts
<1> QED BY <1>7, <1>9 DEF CostInv

\* A position is settled at a price that is not negative.
LEMMA SettleCosts ==
  ASSUME ExecutorAssumption, RatesAssumption, SlippageBps > 0, IInv, CostInv,
         NEW id \in DOMAIN open, NEW x \in Nat,
         NEW reason \in {"stop_loss", "target", "session_close"}, NEW rest,
         Settle(id, x, reason, rest), UNCHANGED <<pending, bars>>
  PROVE  CostInv'
<1>1. PICK p \in PositionRecord : p = open[id] /\ EntryIsNextOpen(p) /\ Tradeable(p)
  BY DEF IInv, TypeOK, FillsAtNextOpen, CostInv, PricesPositive
<1>2. PICK row : row = JournalRow(id, p, x, reason)
  OBVIOUS
<1>3. /\ DOMAIN open' = DOMAIN open \ {id}
      /\ \A k \in DOMAIN open \ {id} : open'[k] = open[k]
  BY RestrictedBook DEF Settle
<1>4. \A k \in DOMAIN open' : Tradeable(open'[k])
  BY <1>3 DEF CostInv, PricesPositive
<1>5. PricesPositive'
  BY <1>4 DEF CostInv, PricesPositive, Tradeable
<1>6. RowCosts(row)
  <2>1. PICK j \in Instruments, n \in Nat, b \in Seq(Nat) :
          j = p.instrument /\ n = p.barsSeen /\ b = bars[j]
    BY DEF PositionRecord, IInv, TypeOK
  <2>2. n < Len(b)
    BY <1>1, <2>1 DEF EntryIsNextOpen
  <2>3. PICK o \in Nat \ {0} : o = b[n + 1]
    <3>1. n + 1 \in DOMAIN b
      BY <2>2
    <3>2. b[n + 1] \in Nat
      BY <3>1, ElementOfSeq
    <3>3. b[n + 1] > 0
      BY <2>1, <3>1 DEF CostInv, PricesPositive
    <3> QED BY <3>2, <3>3
  <2>4. p.entry_price = o * (IF IsLong(p) THEN SlippageUnit + SlippageBps
                                          ELSE SlippageUnit - SlippageBps)
    BY <1>1, <2>1, <2>3 DEF EntryIsNextOpen
  <2>5. p.quantity \in Nat \ {0}
    BY <1>1 DEF PositionRecord, Tradeable
  <2>6. NetProfit(p, Slipped(x, ~IsLong(p))) < Gross(p, o * SlippageUnit, x * SlippageUnit)
    BY <2>4, <2>5, NetBelowGross
  <2>7. /\ row.pnl_net = NetProfit(p, Slipped(x, ~IsLong(p)))
        /\ row.instrument = j /\ row.barsSeen = n /\ row.quoted = x
        /\ row.direction = p.direction /\ row.quantity = p.quantity
    BY <1>2, <2>1 DEF JournalRow
  <2>8. Gross(row, o * SlippageUnit, x * SlippageUnit) = Gross(p, o * SlippageUnit, x * SlippageUnit)
    BY <2>7 DEF Gross, IsLong
  <2> QED BY <2>1, <2>3, <2>6, <2>7, <2>8 DEF RowCosts
<1>7. ASSUME NEW k \in DOMAIN journal' PROVE RowCosts(journal'[k])
  <2>1. CASE journal' = journal
    BY <2>1, RowsCost DEF CostInv
  <2>2. CASE journal' = Append(journal, row)
    <3>1. PICK J, K : J = journal /\ K = journal'
      OBVIOUS
    <3>0. PICK n \in Nat : n = Len(J)
      BY <3>1, LenProperties DEF IInv, TypeOK
    <3>2. /\ DOMAIN J = 1..n /\ DOMAIN K = 1..(n + 1)
          /\ K[n + 1] = row /\ \A m \in 1..n : K[m] = J[m]
      BY <2>2, <3>0, <3>1, AppendProperties, LenProperties DEF IInv, TypeOK
    <3>3. k \in 1..n \/ k = n + 1
      BY <3>1, <3>2
    <3> QED BY <1>6, <3>1, <3>2, <3>3, RowsCost DEF CostInv
  <2> QED BY <1>1, <1>2, <2>1, <2>2 DEF Settle
<1>8. CostsAgainstTrader'
  BY <1>7 DEF CostsAgainstTrader, RowCosts, Gross, IsLong
<1> QED BY <1>5, <1>8 DEF CostInv

LEMMA VisitCosts ==
  ASSUME ExecutorAssumption, RatesAssumption, SlippageBps > 0, IInv, CostInv, VisitPosition
  PROVE  CostInv'
<1>1. ~Idle /\ UNCHANGED <<pending, bars>>
  BY DEF VisitPosition
<1>2. PICK c \in DOMAIN open : c = Current
  BY <1>1, CurrentOpen DEF IInv
<1>3. PICK p \in PositionRecord : p = open[c] /\ Tradeable(p)
  BY DEF IInv, TypeOK, CostInv, PricesPositive
<1>4. p.stop_loss \in Nat /\ p.target \in Nat
  BY <1>3 DEF PositionRecord, Tradeable
<1>5. PICK rest : rest = AfterCurrent
  OBVIOUS
<1>6. CASE StopOut
  <2>1. Settle(c, p.stop_loss, "stop_loss", rest)
    BY <1>2, <1>3, <1>5, <1>6 DEF StopOut
  <2> QED BY <1>1, <1>4, <2>1, SettleCosts
<1>7. CASE TakeTarget
  <2>1. Settle(c, p.target, "target", rest)
    BY <1>2, <1>3, <1>5, <1>7 DEF TakeTarget
  <2> QED BY <1>1, <1>4, <2>1, SettleCosts
<1>8. CASE Hold
  <2>1. PICK pr : pr = call.price
    OBVIOUS
  <2>2. open' = [open EXCEPT ![c].current_price = pr] /\ journal' = journal
    BY <1>2, <1>8, <2>1 DEF Hold
  <2>3. DOMAIN open' = DOMAIN open
    BY <2>2
  <2>4. ASSUME NEW k \in DOMAIN open PROVE Tradeable(open'[k])
    <3>1. CASE k = c
      <4>1. open'[k] = [p EXCEPT !.current_price = pr]
        BY <1>3, <2>2, <3>1
      <4> QED BY <1>3, <4>1 DEF Tradeable, PositionRecord
    <3>2. CASE k # c
      BY <2>2, <3>2 DEF CostInv, PricesPositive
    <3> QED BY <3>1, <3>2
  <2>5. PricesPositive'
    BY <1>1, <2>3, <2>4 DEF CostInv, PricesPositive, Tradeable
  <2>6. CostsAgainstTrader'
    BY <1>1, <2>2 DEF CostInv, CostsAgainstTrader, Gross, IsLong
  <2> QED BY <2>5, <2>6 DEF CostInv
<1> QED BY <1>6, <1>7, <1>8 DEF VisitPosition

LEMMA NextCosts ==
  ASSUME ExecutorAssumption, RatesAssumption, SlippageBps > 0,
         \A s \in Signals : Submittable(s) => s.stop_loss >= 0 /\ s.target >= 0,
         IInv, CostInv, [Next]_vars
  PROVE  CostInv'
<1>1. ASSUME UNCHANGED <<pending, open, journal, bars>> PROVE CostInv'
  BY <1>1 DEF CostInv, PricesPositive, Tradeable, CostsAgainstTrader, Gross, IsLong
<1>2. ASSUME NEW i \in Instruments, NEW price \in Prices, OnPriceUpdate(i, price)
      PROVE  CostInv'
  BY <1>1, <1>2 DEF OnPriceUpdate
<1>3. ASSUME NEW id \in OrderIds, NEW price \in Prices, ClosePosition(id, price)
      PROVE  CostInv'
  <2>1. PICK rest : rest = NoCall
    OBVIOUS
  <2>2. /\ id \in DOMAIN open /\ price \in Nat
        /\ Settle(id, price, "session_close", rest) /\ UNCHANGED <<pending, bars>>
    BY <1>3, <2>1 DEF ClosePosition, ExecutorAssumption
  <2> QED BY <2>2, SettleCosts
<1>4. CASE UNCHANGED vars
  BY <1>1, <1>4 DEF vars
<1> QED BY <1>2, <1>3, <1>4, SubmitCosts, BarOpenCosts, VisitCosts DEF Next

-----------------------------------------------------------------------------
(* The theorems.                                                           *)

\* The executor's state keeps its shape, and a walk visits only open positions.
THEOREM ExecutorTypeOK == Spec => []TypeOK
<1>1. IInv => TypeOK
  BY DEF IInv
<1> QED BY <1>1, SpecIInv, PTL

\* Every order is filled at the open of the first bar of its own instrument after
\* its submission, for any number of instruments, orders and bars.
THEOREM OrdersFillAtNextOpen == Spec => []FillsAtNextOpen
<1>1. IInv => FillsAtNextOpen
  BY DEF IInv
<1> QED BY <1>1, SpecIInv, PTL

\* When a price update has been worked off and no close has raised, every open
\* position of the instrument has seen the price and lies between its stop and
\* its target.
THEOREM NoTriggeredLeft == Spec => []NoTriggeredPositionLeft
<1>1. WalkInv => NoTriggeredPositionLeft
  BY DEF WalkInv, WalkedOff, Untriggered, NoTriggeredPositionLeft, Idle
<1> QED BY <1>1, SpecWalkInv, PTL

\* While there is some slippage, as by default, and no stop or target is negative, a
\* journaled trade nets less than it would without slippage and charges
\* (paper_executor.py:44, 50-54, 98-104).
THEOREM CostsAreAgainstTrader ==
  ASSUME SlippageBps > 0,
         \A s \in Signals : Submittable(s) => s.stop_loss >= 0 /\ s.target >= 0
  PROVE  Spec => []CostsAgainstTrader
<1>1. Init => CostInv
  BY DEF Init, CostInv, PricesPositive, CostsAgainstTrader
<1>2. IInv /\ CostInv /\ [Next]_vars => CostInv'
  BY ExecutorAssumption, RatesAssumption, NextCosts
<1>3. CostInv => CostsAgainstTrader
  BY DEF CostInv
<1> QED BY <1>1, <1>2, <1>3, SpecIInv, PTL DEF Spec

\* The executor implements the lifecycle: each order is filled once, from pending,
\* each position closed once, from open, and each close journaled once, whatever
\* the store raises.
THEOREM ExecutorImplementsLifecycle == Spec => ImplementsLifecycle
<1>1. Init => Lifecycle!Init
  BY ExecutorAssumption, InitMaps
<1>2. IInv /\ [Next]_vars => [Lifecycle!Next]_(Lifecycle!vars)
  BY ExecutorAssumption, RatesAssumption, NextMaps
<1> QED BY <1>1, <1>2, SpecIInv, PTL DEF Spec, ImplementsLifecycle, Lifecycle!Spec

\* While the store does not raise, a trade that has left the books is in the journal.
THEOREM TradesAreJournaled == ASSUME ~StoreMayFail PROVE Spec => []ClosedTradesJournaled
<1>1. IInv => ClosedTradesJournaled
  BY DEF IInv, BooksApart
<1> QED BY <1>1, SpecIInv, PTL

\* The journal holds each closed trade once and nothing else, though its row is
\* written after the position has left the book, and a trade is lost only where the
\* store may raise (paper_executor.py:90-125).
THEOREM ExecutorJournalIsExact == Spec => []Lifecycle!JournalExact
<1>1. ASSUME IInv PROVE Lifecycle!JournalExact
  <2> DEFINE rec == [k \in DOMAIN journal |-> journal[k].id]
  <2>1. /\ nextId \in 1..(MaxOrders + 1) /\ MaxOrders \in Nat
        /\ journal \in Seq(RowRecord)
    BY <1>1, ExecutorAssumption DEF IInv, TypeOK, ExecutorAssumption
  <2>2. DOMAIN journal = 1..Len(journal) /\ Len(rec) = Len(journal)
    BY <2>1, LenProperties
  <2>3. ASSUME NEW id \in OrderIds
        PROVE  StageOf(id) = "closed" <=> \E k \in 1..Len(rec) : rec[k] = id
    <3>1. (\E k \in 1..Len(rec) : rec[k] = id) <=> id \in JournalIds
      BY <2>2 DEF JournalIds
    <3>2. id \in JournalIds => id < nextId /\ id \notin DOMAIN pending \cup DOMAIN open
      BY <1>1, <2>1 DEF IInv, BooksApart
    <3>3. id >= nextId => ~(id < nextId)
      BY <2>1 DEF OrderIds
    <3> QED BY <3>1, <3>2, <3>3 DEF StageOf
  <2>4. \A j, k \in 1..Len(rec) : rec[j] = rec[k] => j = k
    BY <1>1, <2>2 DEF IInv, BooksApart
  <2>5. ASSUME NEW id \in OrderIds, StageOf(id) = "lost", ~StoreMayFail
        PROVE  FALSE
    <3>1. id \in 1..(nextId - 1)
      BY <2>1, <2>5 DEF StageOf, OrderIds
    <3> QED BY <1>1, <2>5, <3>1 DEF StageOf, IInv, BooksApart, ClosedTradesJournaled
  <2> QED BY <2>3, <2>4, <2>5 DEF Lifecycle!JournalExact, Lifecycle!InStage, Lifecycle!OrderIds, OrderIds
<1> QED BY <1>1, SpecIInv, PTL

-----------------------------------------------------------------------------
(* The lifecycle by itself, over variables of its own.  The journal's      *)
(* exactness is inductive once it is known that an order not submitted yet *)
(* has no stage.                                                           *)

VARIABLES submitted, stage, record

Promise == INSTANCE TradeLifecycle WITH MayLose <- StoreMayFail

UnsubmittedHaveNoStage ==
  \A id \in Promise!OrderIds : id > submitted => stage[id] = "none"

PromiseInv == Promise!TypeOK /\ UnsubmittedHaveNoStage /\ Promise!JournalExact

LEMMA PromiseInit ==
  ASSUME MaxOrders \in Nat, Promise!Init
  PROVE  PromiseInv
<1>1. Promise!TypeOK /\ UnsubmittedHaveNoStage
  BY DEF Promise!Init, Promise!TypeOK, UnsubmittedHaveNoStage, Promise!OrderIds, Promise!Stages
<1>2. Promise!JournalExact
  BY DEF Promise!Init, Promise!JournalExact, Promise!InStage
<1> QED BY <1>1, <1>2 DEF PromiseInv

\* The next order number becomes pending; no other order changes.
LEMMA PromisedSubmit ==
  ASSUME MaxOrders \in Nat, PromiseInv, Promise!Submit
  PROVE  PromiseInv'
<1> USE DEF PromiseInv, Promise!OrderIds
<1>1. submitted + 1 \in Promise!OrderIds /\ stage[submitted + 1] = "none"
  BY DEF Promise!Submit, Promise!TypeOK, UnsubmittedHaveNoStage
<1>2. Promise!TypeOK' /\ UnsubmittedHaveNoStage'
  BY <1>1 DEF Promise!Submit, Promise!TypeOK, UnsubmittedHaveNoStage, Promise!Stages
<1>3. \A id \in Promise!OrderIds :
        /\ stage'[id] = "closed" <=> stage[id] = "closed"
        /\ stage'[id] = "lost" <=> stage[id] = "lost"
  BY <1>1 DEF Promise!Submit, Promise!TypeOK
<1>4. Promise!JournalExact'
  BY <1>3 DEF Promise!Submit, Promise!JournalExact, Promise!InStage
<1> QED BY <1>2, <1>4

\* Pending orders become positions; the closed and the lost stay as they are.
LEMMA PromisedFill ==
  ASSUME MaxOrders \in Nat, PromiseInv, NEW ids \in SUBSET Promise!InStage("pending"), Promise!Fill(ids)
  PROVE  PromiseInv'
<1> USE DEF PromiseInv, Promise!InStage
<1>1. Promise!TypeOK'
  BY DEF Promise!Fill, Promise!TypeOK, Promise!Stages
<1>2. UnsubmittedHaveNoStage'
  BY DEF Promise!Fill, UnsubmittedHaveNoStage
<1>3. \A id \in Promise!OrderIds :
        /\ stage'[id] = "closed" <=> stage[id] = "closed"
        /\ stage'[id] = "lost" <=> stage[id] = "lost"
  BY DEF Promise!Fill
<1>4. Promise!JournalExact'
  BY <1>3 DEF Promise!Fill, Promise!JournalExact
<1> QED BY <1>1, <1>2, <1>4

\* An open position is in no row yet, so its row is the only one of its number.
LEMMA PromisedClose ==
  ASSUME MaxOrders \in Nat, PromiseInv, NEW id \in Promise!OrderIds, Promise!Close(id)
  PROVE  PromiseInv'
<1> USE DEF PromiseInv
<1> DEFINE n == Len(record)
<1>1. /\ record \in Seq(Promise!OrderIds) /\ n \in Nat
      /\ stage \in [Promise!OrderIds -> Promise!Stages]
      /\ stage[id] = "open"
      /\ stage' = [stage EXCEPT ![id] = "closed"]
      /\ submitted' = submitted
  BY DEF Promise!Close, Promise!TypeOK
<1>2. /\ record' = Append(record, id)
      /\ Len(record') = n + 1
      /\ record'[n + 1] = id
      /\ \A k \in 1..n : record'[k] = record[k]
  BY <1>1 DEF Promise!Close
<1>3. Promise!TypeOK'
  BY <1>1, <1>2 DEF Promise!TypeOK, Promise!Stages
<1>4. UnsubmittedHaveNoStage'
  BY <1>1 DEF UnsubmittedHaveNoStage
<1>5. \A k \in 1..n : record[k] # id
  BY <1>1 DEF Promise!JournalExact
<1>6. \A i \in Promise!OrderIds :
        stage'[i] = "closed" <=> \E k \in 1..Len(record') : record'[k] = i
  <2> TAKE i \in Promise!OrderIds
  <2>1. CASE i = id
    BY <1>1, <1>2, <2>1
  <2>2. CASE i # id
    <3>1. stage'[i] = "closed" <=> \E k \in 1..n : record[k] = i
      BY <1>1, <2>2 DEF Promise!JournalExact
    <3>2. (\E k \in 1..n : record[k] = i) <=> \E k \in 1..(n + 1) : record'[k] = i
      BY <1>1, <1>2, <2>2
    <3> QED BY <1>2, <3>1, <3>2
  <2> QED BY <2>1, <2>2
<1>7. \A j, k \in 1..Len(record') : record'[j] = record'[k] => j = k
  BY <1>1, <1>2, <1>5 DEF Promise!JournalExact
<1>8. Promise!InStage("lost")' # {} => StoreMayFail
  BY <1>1 DEF Promise!JournalExact, Promise!InStage
<1>9. Promise!JournalExact'
  BY <1>6, <1>7, <1>8 DEF Promise!JournalExact
<1> QED BY <1>3, <1>4, <1>9

\* A lost position was open, hence in no row, and stays in none.
LEMMA PromisedLose ==
  ASSUME MaxOrders \in Nat, PromiseInv, NEW id \in Promise!OrderIds, Promise!Lose(id)
  PROVE  PromiseInv'
<1> USE DEF PromiseInv
<1>1. Promise!TypeOK' /\ UnsubmittedHaveNoStage'
  BY DEF Promise!Lose, Promise!TypeOK, UnsubmittedHaveNoStage, Promise!Stages
<1>2. \A i \in Promise!OrderIds : stage'[i] = "closed" <=> stage[i] = "closed"
  BY DEF Promise!Lose, Promise!TypeOK
<1>3. Promise!JournalExact'
  BY <1>2 DEF Promise!Lose, Promise!JournalExact, Promise!InStage
<1> QED BY <1>1, <1>3

LEMMA PromiseNext ==
  ASSUME MaxOrders \in Nat, PromiseInv, [Promise!Next]_(Promise!vars)
  PROVE  PromiseInv'
<1>1. CASE UNCHANGED Promise!vars
  BY <1>1 DEF Promise!vars, PromiseInv, Promise!TypeOK, UnsubmittedHaveNoStage, Promise!JournalExact, Promise!InStage
<1> QED BY <1>1, PromisedSubmit, PromisedFill, PromisedClose, PromisedLose DEF Promise!Next

LEMMA PromiseHolds ==
  ASSUME MaxOrders \in Nat
  PROVE  Promise!Spec => []PromiseInv
<1>1. Promise!Init => PromiseInv
  BY PromiseInit
<1>2. PromiseInv /\ [Promise!Next]_(Promise!vars) => PromiseInv'
  BY PromiseNext
<1> QED BY <1>1, <1>2, PTL DEF Promise!Spec

\* The lifecycle's state keeps its shape.
THEOREM LifecycleTypeOK == Promise!Spec => []Promise!TypeOK
<1>1. PromiseInv => Promise!TypeOK
  BY DEF PromiseInv
<1>2. Promise!Spec => []PromiseInv
  BY PromiseHolds, ExecutorAssumption DEF ExecutorAssumption
<1> QED BY <1>1, <1>2, PTL

\* The record of any implementation holds each closed order once and nothing else,
\* and an order is lost only where losing is allowed (executor_protocol.py:9-14).
THEOREM JournalIsExact == Promise!Spec => []Promise!JournalExact
<1>1. PromiseInv => Promise!JournalExact
  BY DEF PromiseInv
<1>2. Promise!Spec => []PromiseInv
  BY PromiseHolds, ExecutorAssumption DEF ExecutorAssumption
<1> QED BY <1>1, <1>2, PTL

=============================================================================
