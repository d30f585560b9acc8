--------------------------- MODULE TradeLifecycle ----------------------------
(***************************************************************************)
(* What an executor promises (execution/executor_protocol.py): an order is *)
(* pending until a bar open fills it, a filled order is a position until   *)
(* it is closed, and each close is written to the journal once.  Where the *)
(* journal may fail, a position may also be lost on its way to it.         *)
(***************************************************************************)
EXTENDS Integers, Sequences

CONSTANTS
  MaxOrders,     \* a natural number: bound on the orders ever submitted
  MayLose        \* may a position vanish without a journal entry

VARIABLES
  submitted,   \* orders are numbered 1..submitted
  stage,       \* stage[id] for each order number
  record       \* the order numbers in the journal, in the order written

vars == <<submitted, stage, record>>

OrderIds == 1..MaxOrders
Stages == {"none", "pending", "open", "closed", "lost"}

InStage(st) == {id \in OrderIds : stage[id] = st}

Init ==
  /\ submitted = 0
  /\ stage = [id \in OrderIds |-> "none"]
  /\ record = <<>>

\* submit_order: no fill happens here.
Submit ==
  /\ submitted < MaxOrders
  /\ submitted' = submitted + 1
  /\ stage' = [stage EXCEPT ![submitted + 1] = "pending"]
  /\ UNCHANGED record

\* on_bar_open fills some of the pending orders.
Fill(ids) ==
  /\ ids \subseteq InStage("pending")
  /\ stage' = [id \in OrderIds |-> IF id \in ids THEN "open" ELSE stage[id]]
  /\ UNCHANGED <<submitted, record>>

\* A position is closed and its trade written to the journal, in one step.
Close(id) ==
  /\ stage[id] = "open"
  /\ stage' = [stage EXCEPT ![id] = "closed"]
  /\ record' = Append(record, id)
  /\ UNCHANGED submitted

Lose(id) ==
  /\ MayLose
  /\ stage[id] = "open"
  /\ stage' = [stage EXCEPT ![id] = "lost"]
  /\ UNCHANGED <<submitted, record>>

Next ==
  \/ Submit
  \/ \E ids \in SUBSET InStage("pending") : Fill(ids)
  \/ \E id \in OrderIds : Close(id) \/ Lose(id)

Spec == Init /\ [][Next]_vars

TypeOK ==
  /\ submitted \in 0..MaxOrders
  /\ stage \in [OrderIds -> Stages]
  /\ record \in Seq(OrderIds)

\* The journal holds exactly the closed trades, each of them once, and nothing
\* is lost unless losing is allowed (paper_executor.py:90-125).
JournalExact ==
  /\ \A id \in OrderIds :
       stage[id] = "closed" <=> \E k \in 1..Len(record) : record[k] = id
  /\ \A j, k \in 1..Len(record) : record[j] = record[k] => j = k
  /\ InStage("lost") # {} => MayLose

=============================================================================
