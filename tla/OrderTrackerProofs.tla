-------------------------- MODULE OrderTrackerProofs --------------------------
(***************************************************************************)
(* Proofs about OrderTracker, for any orders, sync jobs, quantities and    *)
(* faults.                                                                 *)
(***************************************************************************)
EXTENDS OrderTracker, FiniteSetTheorems, SequenceTheorems, TLAPS

-----------------------------------------------------------------------------
(* Type correctness and truth, however the writers overlap.                *)

\* TypeOK is not inductive: what a writer holds must point into the table.
TrackerType ==
    /\ TypeOK
    /\ \A p \in Pollers :
        /\ poll[p].at = "commit" => poll[p].write.row = poll[p].row
        /\ p # Loop /\ poll[p].at \notin {"idle", "sleep"} => poll[p].left > 0
    /\ \A s \in Syncs :
        /\ \A w \in sync[s].updates : w.row \in Rows
        /\ IsFiniteSet(sync[s].inserts)
        /\ \A item \in sync[s].todo \cup sync[s].inserts : item[2].status # "UNKNOWN"
        /\ ~sync[s].open => sync[s] = NoJob

\* This status and this number of shares do not overstate what became of order o.
True(o, status, shares) ==
    /\ shares <= filled[o]
    /\ status = "FILLED" => filled[o] = Qty
    /\ status = "CANCELED" => o \in canceled

\* What a poller was told, or is about to write.
PollTrue(p) ==
    LET o == trades[poll[p].row].order IN
    /\ poll[p].at = "reload" => True(o, poll[p].answer.status, poll[p].answer.filled)
    /\ poll[p].at = "commit" => True(o, poll[p].write.status, poll[p].write.filled)

\* What a sync was told, or is about to write.
SyncTrue(s) ==
    /\ \A item \in sync[s].todo \cup sync[s].inserts :
            True(item[1], item[2].status, item[2].filled)
    /\ \A w \in sync[s].updates : True(trades[w.row].order, w.status, w.filled)

RowTrue(i) == True(trades[i].order, trades[i].status, trades[i].filled)

PollsTrue == \A p \in Pollers : PollTrue(p)
SyncsTrue == \A s \in Syncs : SyncTrue(s)
RowsTrue == \A i \in Rows : RowTrue(i)

TruthInv == TrackerType /\ PollsTrue /\ SyncsTrue /\ RowsTrue


\* An answer of the broker is well-formed and true.
LEMMA AnswersAreTrue ==
    ASSUME TypeOK, NEW o \in Orders
    PROVE  /\ AnswerFor(o) \in Answer /\ AnswerFor(o).status # "UNKNOWN"
           /\ True(o, AnswerFor(o).status, AnswerFor(o).filled)
<1>1. filled[o] \in 0..Qty
    BY DEF TypeOK
<1>2. ParseStatus(o) \in Statuses
    BY DEF ParseStatus, Statuses
<1> QED
    BY <1>1, <1>2, TrackerAssumption
    DEF Answer, AnswerFor, ParseStatus, Statuses, True

\* What Applied makes of an answer: a well-formed write of the row that keeps the
\* columns it does not name, lowers no share count and is true if the answer is.
LEMMA AppliedWrites ==
    ASSUME trades \in Seq(Row), NEW i \in Rows, NEW answer \in Answer
    PROVE  LET w == Applied(i, answer) IN
           /\ w \in Write
           /\ w.row = i
           /\ "status" \notin w.cols => w.status = trades[i].status
           /\ "filled" \notin w.cols => w.filled = trades[i].filled
           /\ w.filled >= trades[i].filled
           /\ w.status = IF answer.status = "UNKNOWN" THEN trades[i].status ELSE answer.status
           /\ w.filled = IF answer.status = "UNKNOWN" \/ answer.filled <= trades[i].filled
                         THEN trades[i].filled ELSE answer.filled
<1>1. trades[i] \in Row /\ i \in Nat
    BY DEF Rows
<1>2. answer.filled \in 0..Qty /\ trades[i].filled \in 0..Qty /\ Qty \in Nat
    BY <1>1, TrackerAssumption DEF Answer, Row
<1> DEFINE new == IF answer.status = "UNKNOWN" THEN trades[i]
                  ELSE [trades[i] EXCEPT !.status = answer.status,
                                         !.filled = IF answer.filled > @ THEN answer.filled ELSE @]
<1>3. new \in Row
    BY <1>1, <1>2 DEF Row, Answer, Statuses
<1>4. new.status = IF answer.status = "UNKNOWN" THEN trades[i].status ELSE answer.status
    BY <1>1 DEF Row
<1>5. new.filled = IF answer.status = "UNKNOWN" \/ answer.filled <= trades[i].filled
                   THEN trades[i].filled ELSE answer.filled
    BY <1>1, <1>2 DEF Row
<1> DEFINE w == Applied(i, answer)
<1>6. w = [row |-> i, status |-> new.status, filled |-> new.filled,
           cols |-> {c \in {"status", "filled"} : new[c] # trades[i][c]}]
    BY Zenon DEF Applied
<1> HIDE DEF new
<1>7. w \in Write
    BY <1>1, <1>3, <1>6 DEF Write, Row
<1>8. /\ w.row = i /\ w.status = new.status /\ w.filled = new.filled
      /\ "status" \notin w.cols => w.status = trades[i].status
      /\ "filled" \notin w.cols => w.filled = trades[i].filled
    BY <1>6
<1> HIDE DEF w
<1>9. w.filled >= trades[i].filled
    BY <1>2, <1>5, <1>8
<1> QED
    BY <1>4, <1>5, <1>7, <1>8, <1>9 DEF w

\* What a flush leaves of the table: the same orders in the same places, and in
\* the written row each column from the write or from the table.
LEMMA FlushedRows ==
    ASSUME NEW table \in Seq(Row), NEW w \in Write, w.row \in 1..Len(table)
    PROVE  /\ Flushed(table, w) \in Seq(Row)
           /\ Len(Flushed(table, w)) = Len(table)
           /\ \A i \in 1..Len(table) :
                LET new == Flushed(table, w)[i] IN
                /\ new \in Row
                /\ new.order = table[i].order
                /\ i # w.row => new = table[i]
                /\ i = w.row => new.status = IF "status" \in w.cols THEN w.status
                                             ELSE table[i].status
                /\ i = w.row => new.filled = IF "filled" \in w.cols THEN w.filled
                                             ELSE table[i].filled
<1> DEFINE r == w.row
           row == [[table[r] EXCEPT !.status = IF "status" \in w.cols THEN w.status ELSE @]
                             EXCEPT !.filled = IF "filled" \in w.cols THEN w.filled ELSE @]
<1>1. table[r] \in Row /\ w.status \in Statuses /\ w.filled \in 0..Qty
    BY DEF Write
<1>2. /\ row \in Row
      /\ row.order = table[r].order
      /\ row.status = IF "status" \in w.cols THEN w.status ELSE table[r].status
      /\ row.filled = IF "filled" \in w.cols THEN w.filled ELSE table[r].filled
    BY <1>1 DEF Row
<1>3. Flushed(table, w) = [table EXCEPT ![r] = row]
    BY <1>1 DEF Flushed, Row
<1> HIDE DEF row
<1>4. /\ Flushed(table, w) \in Seq(Row) /\ Len(Flushed(table, w)) = Len(table)
      /\ \A i \in 1..Len(table) :
            Flushed(table, w)[i] = IF i = r THEN row ELSE table[i]
    BY <1>2, <1>3, ExceptSeq
<1>5. \A i \in 1..Len(table) : table[i] \in Row
    OBVIOUS
<1> QED
    BY <1>2, <1>4, <1>5

\* An order in which the new rows of a sync may be stored lists each of them once.
LEMMA InsertionOrders ==
    ASSUME NEW S, IsFiniteSet(S), NEW new \in SetToSeqs(S)
    PROVE  /\ new \in Seq(S) /\ Len(new) \in Nat /\ DOMAIN new = 1..Len(new)
           /\ \A i, j \in DOMAIN new : new[i] = new[j] => i = j
<1>1. Cardinality(S) \in Nat
    BY FS_CardinalityType
<1>2. new \in [1..Cardinality(S) -> S]
    BY DEF SetToSeqs
<1>3. \A i, j \in 1..Cardinality(S) : new[i] = new[j] => i = j
    BY <1>2 DEF SetToSeqs
<1>4. new \in Seq(S) /\ Len(new) = Cardinality(S)
    BY <1>1, <1>2
<1> QED
    BY <1>1, <1>2, <1>3, <1>4

-----------------------------------------------------------------------------
(* Types.                                                                  *)

LEMMA IdleType ==
    /\ Idle \in Poll /\ Idle.at = "idle"
    /\ NoJob \in Sync /\ ~NoJob.open /\ IsFiniteSet(NoJob.inserts)
    /\ NoJob.todo = {} /\ NoJob.updates = {} /\ NoJob.inserts = {}
<1>1. Unknown \in Answer /\ NoWrite \in Write
    BY TrackerAssumption DEF Unknown, NoWrite, Answer, Write, Statuses
<1>2. Idle \in Poll /\ Idle.at = "idle"
    BY <1>1, TrackerAssumption DEF Idle, Poll
<1>3. NoJob \in Sync /\ ~NoJob.open /\ NoJob.inserts = {} /\ NoJob.todo = {} /\ NoJob.updates = {}
    BY DEF NoJob, Sync
<1> QED
    BY <1>2, <1>3, FS_EmptySet

LEMMA LatestExists ==
    ASSUME NEW S \in SUBSET Int, IsFiniteSet(S), S # {}
    PROVE  \E i \in S : \A j \in S : j <= i
<1> DEFINE Above(i) == {j \in S : j > i}
           R == StrictSubsetOrdering(S)
           T == FiniteSubsetsOf(S)
<1>1. \A i \in S : Above(i) \in T
  <2> SUFFICES ASSUME NEW i \in S PROVE Above(i) \in T
    OBVIOUS
  <2>1. Above(i) \in SUBSET S
    OBVIOUS
  <2> HIDE DEF Above
  <2> QED
    BY <2>1, FS_Subset DEF FiniteSubsetsOf
<1>2. PICK i \in S : TRUE
    OBVIOUS
<1>3. PICK U \in {Above(k) : k \in S} : \A V \in {Above(k) : k \in S} : <<V, U>> \notin R
  <2> DEFINE F == {Above(k) : k \in S}
  <2>1. F \subseteq T /\ F # {}
    BY <1>1, <1>2
  <2> HIDE DEF F, Above
  <2>2. \E U \in F : \A V \in F : <<V, U>> \notin R
    BY <2>1, FS_StrictSubsetOrderingWellFounded, WFMin
  <2> QED
    BY <2>2 DEF F
<1>4. PICK m \in S : U = Above(m)
    OBVIOUS
<1>5. ASSUME NEW j \in S, j > m PROVE FALSE
  <2>1. j \in Above(m) /\ j \notin Above(j)
    BY <1>5
  <2>3. ASSUME NEW k \in Above(j) PROVE k \in Above(m)
    <3>1. k \in S /\ k > j
      BY <2>3
    <3>2. k > m
      BY <1>5, <3>1
    <3> QED
      BY <3>1, <3>2
  <2>2. <<Above(j), Above(m)>> \in R
    <3>1. Above(j) \subseteq Above(m) /\ Above(j) # Above(m)
      BY <2>1, <2>3
    <3>2. Above(j) \in SUBSET S /\ Above(m) \in SUBSET S
      OBVIOUS
    <3> HIDE DEF Above
    <3> QED
      BY <3>1, <3>2 DEF StrictSubsetOrdering
  <2> QED
    BY <1>3, <1>4, <2>2
<1> QED
    BY <1>5

LEMMA InsertType ==
    ASSUME NEW item \in Orders \X Answer, item[2].status # "UNKNOWN"
    PROVE  [order |-> item[1], status |-> item[2].status, filled |-> item[2].filled] \in Row
BY DEF Answer, Row

LEMMA RowType ==
    ASSUME TypeOK, NEW i \in Rows
    PROVE  /\ i \in Nat /\ trades[i] \in Row
           /\ trades[i].order \in Orders /\ trades[i].status \in Statuses
           /\ trades[i].filled \in 0..Qty /\ trades[i].filled \in Nat
           /\ filled[trades[i].order] \in 0..Qty /\ filled[trades[i].order] \in Nat
<1>1. i \in Nat /\ trades[i] \in Row
    BY DEF TypeOK, Rows
<1>2. filled \in [Orders -> 0..Qty]
    BY DEF TypeOK
<1>3. 0..Qty \subseteq Nat
    BY TrackerAssumption
<1> QED
    BY <1>1, <1>2, <1>3 DEF Row

LEMMA TypeInit == Init => TrackerType
<1> SUFFICES ASSUME Init PROVE TrackerType
    OBVIOUS
<1>1. TypeOK
    BY IdleType, TrackerAssumption DEF Init, TypeOK, Rows
<1> QED
    BY <1>1, IdleType DEF Init, TrackerType, Rows

\* A step of the brokers or of a submission that leaves the table alone.
LEMMA TypeOutside ==
    ASSUME TrackerType, NEW o \in Orders,
           Submit(o) \/ PlaceOutside(o) \/ Fill(o) \/ Cancel(o) \/ RecordFails(o)
    PROVE  TrackerType'
<1> USE DEF tableVars
<1>1. /\ submission' \in [Orders -> {"none", "sent", "recorded", "lost", "outside"}]
      /\ filled' \in [Orders -> 0..Qty]
      /\ canceled' \subseteq Orders
  <2>1. submission' \in [Orders -> {"none", "sent", "recorded", "lost", "outside"}]
    BY DEF TrackerType, TypeOK, Submit, PlaceOutside, Fill, Cancel, RecordFails
  <2>2. canceled' \subseteq Orders
    BY DEF TrackerType, TypeOK, Submit, PlaceOutside, Fill, Cancel, RecordFails
  <2>3. filled' \in [Orders -> 0..Qty]
    <3>1. CASE filled' = filled
      BY <3>1 DEF TrackerType, TypeOK
    <3>2. CASE Fill(o)
      <4>1. filled[o] + 1 \in 0..Qty
        BY <3>2, TrackerAssumption DEF TrackerType, TypeOK, Fill
      <4> QED
        BY <3>2, <4>1 DEF TrackerType, TypeOK, Fill
    <3> QED
      BY <3>1, <3>2 DEF Submit, PlaceOutside, Cancel, RecordFails
  <2> QED
    BY <2>1, <2>2, <2>3
<1>2. UNCHANGED <<trades, checked, recent, agenda, poll, sync, writer, restarts>>
    BY DEF Submit, PlaceOutside, Fill, Cancel, RecordFails
<1> QED
    BY <1>1, <1>2 DEF TrackerType, TypeOK, Rows

LEMMA TypeRecord ==
    ASSUME TrackerType, NEW o \in Orders, Record(o)
    PROVE  /\ TrackerType'
           /\ Len(trades') = Len(trades) + 1
           /\ \A i \in Rows : trades'[i] = trades[i]
           /\ trades'[Len(trades) + 1] = [order |-> o, status |-> "PENDING", filled |-> 0]
           /\ \A p \in Pollers : poll'[p] = poll[p] \/ poll'[p].at = "load"
<1> DEFINE row == [order |-> o, status |-> "PENDING", filled |-> 0]
           n == Len(trades) + 1
<1>1. trades \in Seq(Row) /\ checked \in [1..Len(trades) -> 0..Len(trades)]
    BY DEF TrackerType, TypeOK, Rows
<1>2. row \in Row
    BY TrackerAssumption DEF Row, Statuses
<1>3. trades' = Append(trades, row) /\ checked' = Append(checked, 0)
    BY DEF Record
<1> HIDE DEF row
<1>4. /\ trades' \in Seq(Row) /\ Len(trades') = n
      /\ \A i \in Rows : trades'[i] = trades[i]
      /\ trades'[n] = row
    BY <1>1, <1>2, <1>3, AppendProperties DEF Rows
<1>5. checked' \in [1..n -> 0..n]
  <2>1. checked \in Seq(Nat) /\ Len(checked) = Len(trades)
    BY <1>1
  <2> QED
    <3>1. /\ checked' \in Seq(Nat) /\ Len(checked') = n
          /\ \A i \in 1..Len(trades) : checked'[i] = checked[i]
          /\ checked'[n] = 0
      <4>1. checked' = Append(checked, 0) /\ checked \in Seq(Nat) /\ 0 \in Nat
        BY <1>3, <2>1
      <4>2. /\ Append(checked, 0) \in Seq(Nat)
            /\ Len(Append(checked, 0)) = Len(checked) + 1
            /\ \A i \in 1..Len(checked) : Append(checked, 0)[i] = checked[i]
            /\ Append(checked, 0)[Len(checked) + 1] = 0
        BY <4>1, AppendProperties
      <4> QED
        BY <2>1, <4>1, <4>2
    <3>2. \A i \in 1..n : checked'[i] \in 0..n
      BY <1>1, <3>1
    <3> QED
      BY <3>1, <3>2
<1>6. Rows \subseteq Rows' /\ n \in Rows'
    BY <1>1, <1>4 DEF Rows
<1> DEFINE task == [Idle EXCEPT !.at = "load", !.row = n, !.left = MaxTaskPolls]
<1>7. task \in Poll /\ task.at = "load" /\ task.row = n /\ task.left = MaxTaskPolls
  <2>1. n \in Nat /\ MaxTaskPolls \in 0..MaxTaskPolls
    BY <1>1, TrackerAssumption
  <2>2. Idle \in Poll
    BY IdleType
  <2> QED
    BY <2>1, <2>2 DEF Poll
<1>8. poll' = IF o \in KisOrders THEN [poll EXCEPT ![o] = task] ELSE poll
    BY DEF Record
<1> HIDE DEF task
<1>9. /\ poll' \in [Pollers -> Poll]
      /\ \A p \in Pollers : poll'[p] = poll[p] \/ poll'[p] = task
    BY <1>7, <1>8 DEF TrackerType, TypeOK, Pollers
<1>10. submission' \in [Orders -> {"none", "sent", "recorded", "lost", "outside"}]
    BY DEF TrackerType, TypeOK, Record
<1>11. UNCHANGED <<filled, canceled, recent, agenda, sync, writer, restarts>>
    BY DEF Record
<1>12. agenda' \in Seq(Rows') /\ recent' \subseteq Rows'
    BY <1>6, <1>11, SeqMonotonic DEF TrackerType, TypeOK
<1>13. \A p \in Pollers :
         /\ poll'[p].at # "idle" => poll'[p].row \in Rows'
         /\ poll'[p].at = "commit" => poll'[p].write.row = poll'[p].row
         /\ p # Loop /\ poll'[p].at \notin {"idle", "sleep"} => poll'[p].left > 0
  <2> SUFFICES ASSUME NEW p \in Pollers
               PROVE  /\ poll'[p].at # "idle" => poll'[p].row \in Rows'
                      /\ poll'[p].at = "commit" => poll'[p].write.row = poll'[p].row
                      /\ p # Loop /\ poll'[p].at \notin {"idle", "sleep"} => poll'[p].left > 0
    OBVIOUS
  <2>1. CASE poll'[p] = poll[p]
    BY <1>6, <2>1 DEF TrackerType, TypeOK
  <2>2. CASE poll'[p] = task
    BY <1>6, <1>7, <2>2, TrackerAssumption
  <2> QED
    BY <1>9, <2>1, <2>2
<1>14. TypeOK'
    BY <1>4, <1>5, <1>9, <1>10, <1>11, <1>12, <1>13 DEF TrackerType, TypeOK, Rows
<1>15. TrackerType'
    BY <1>6, <1>11, <1>13, <1>14 DEF TrackerType
<1> QED
    BY <1>4, <1>7, <1>9, <1>15 DEF row

\* A step of one poller that leaves the table alone.
LEMMA TypePoll ==
    ASSUME TrackerType, NEW p \in Pollers, NEW new \in Poll,
           poll' = [poll EXCEPT ![p] = new],
           new.at # "idle" => new.row \in Rows,
           new.at = "commit" => new.write.row = new.row,
           p # Loop /\ new.at \notin {"idle", "sleep"} => new.left > 0,
           agenda' \in Seq(Rows), recent' \subseteq Rows,
           UNCHANGED <<submission, filled, canceled, trades, checked, sync, writer, restarts>>
    PROVE  TrackerType'
<1>1. /\ poll' \in [Pollers -> Poll]
      /\ \A q \in Pollers : poll'[q] = IF q = p THEN new ELSE poll[q]
    BY DEF TrackerType, TypeOK
<1> QED
    BY <1>1 DEF TrackerType, TypeOK, Rows

LEMMA TypeSelect ==
    ASSUME TrackerType, NEW skipped, Select(skipped)
    PROVE  TrackerType'
<1> USE DEF brokerVars, tableVars
<1>1. agenda' \in Seq(Rows)
  <2>1. PICK wanted \in SUBSET Rows : agenda' \in Queues(wanted)
    BY DEF Select, Due
  <2>2. PICK n \in 0..Limit : agenda' \in [1..n -> wanted]
    BY <2>1 DEF Queues
  <2> QED
    BY <2>2, TrackerAssumption
<1>2. recent' \subseteq Rows
    BY DEF Select
<1>3. UNCHANGED <<submission, filled, canceled, trades, checked, poll, sync, writer, restarts>>
    BY DEF Select
<1> QED
    BY <1>1, <1>2, <1>3 DEF TrackerType, TypeOK, Rows

LEMMA TypeTakeNext ==
    ASSUME TrackerType, TakeNext
    PROVE  /\ TrackerType'
           /\ \A p \in Pollers : poll'[p] = poll[p] \/ poll'[p].at = "load"
<1> USE DEF brokerVars, tableVars
<1> DEFINE new == [Idle EXCEPT !.at = "load", !.row = Head(agenda)]
<1>1. agenda \in Seq(Rows) /\ agenda # <<>>
    BY DEF TrackerType, TypeOK, TakeNext
<1>2. Head(agenda) \in Rows /\ Tail(agenda) \in Seq(Rows) /\ Rows \subseteq Nat
    BY <1>1, HeadTailProperties DEF Rows
<1>3. new \in Poll /\ new.at = "load" /\ new.row = Head(agenda)
    BY <1>2, IdleType DEF Poll
<1>4. /\ poll' = [poll EXCEPT ![Loop] = new] /\ agenda' = Tail(agenda)
      /\ UNCHANGED <<submission, filled, canceled, trades, checked, recent, sync, writer, restarts>>
    BY DEF TakeNext
<1>5. recent' \subseteq Rows /\ Loop \in Pollers
    BY <1>4 DEF TrackerType, TypeOK, Pollers
<1> HIDE DEF new
<1>6. TrackerType'
    BY <1>2, <1>3, <1>4, <1>5, TypePoll
<1> QED
    BY <1>3, <1>4, <1>5, <1>6 DEF TrackerType, TypeOK

LEMMA TypeLoad ==
    ASSUME TrackerType, NEW p \in Pollers, Load(p)
    PROVE  /\ TrackerType'
           /\ \/ poll' = [poll EXCEPT ![p] = Idle]
              \/ poll' = [poll EXCEPT ![p] = [poll[p] EXCEPT !.at = "ask"]]
<1> USE DEF brokerVars, tableVars
<1>1. poll[p] \in Poll /\ poll[p].at = "load" /\ poll[p].row \in Rows /\ (p # Loop => poll[p].left > 0)
    BY DEF TrackerType, TypeOK, Load
<1>2. UNCHANGED <<submission, filled, canceled, trades, checked, recent, sync, writer, restarts>>
    BY DEF Load
<1>3. agenda' \in Seq(Rows) /\ recent' \subseteq Rows
  <2>1. agenda' = <<>> \/ agenda' = agenda
    BY DEF Load
  <2>2. <<>> \in Seq(Rows)
    BY EmptySeq
  <2> QED
    BY <1>2, <2>1, <2>2 DEF TrackerType, TypeOK
<1>4. CASE poll' = [poll EXCEPT ![p] = Idle]
    BY <1>2, <1>3, <1>4, IdleType, TypePoll
<1>5. CASE poll' = [poll EXCEPT ![p].at = "ask"]
  <2> DEFINE new == [poll[p] EXCEPT !.at = "ask"]
  <2>1. new \in Poll /\ new.at = "ask" /\ new.row = poll[p].row /\ new.left = poll[p].left
    BY <1>1 DEF Poll
  <2>2. poll' = [poll EXCEPT ![p] = new]
    BY <1>5
  <2> HIDE DEF new
  <2>3. TrackerType'
    BY <1>1, <1>2, <1>3, <2>1, <2>2, TypePoll
  <2> QED
    BY <2>2, <2>3 DEF new
<1> QED
    BY <1>4, <1>5 DEF Load

LEMMA TypeAsk ==
    ASSUME TrackerType, NEW p \in Pollers, Ask(p)
    PROVE  /\ TrackerType'
           /\ \E a \in {AnswerFor(trades[poll[p].row].order), Unknown} :
                poll' = [poll EXCEPT ![p] = [poll[p] EXCEPT !.at = "reload", !.answer = a]]
<1> USE DEF brokerVars, tableVars
<1>1. poll[p] \in Poll /\ poll[p].at = "ask" /\ poll[p].row \in Rows /\ (p # Loop => poll[p].left > 0)
    BY DEF TrackerType, TypeOK, Ask
<1>2. UNCHANGED <<submission, filled, canceled, trades, checked, recent, agenda, sync, writer, restarts>>
    BY DEF Ask
<1>3. agenda' \in Seq(Rows) /\ recent' \subseteq Rows
    BY <1>2 DEF TrackerType, TypeOK
<1>4. PICK a \in {AnswerFor(trades[poll[p].row].order), Unknown} :
           poll' = [poll EXCEPT ![p].at = "reload", ![p].answer = a]
    BY DEF Ask
<1>5. a \in Answer
  <2>1. trades[poll[p].row].order \in Orders
    BY <1>1, RowType DEF TrackerType
  <2> QED
    BY <2>1, AnswersAreTrue, TrackerAssumption DEF TrackerType, Unknown, Answer, Statuses
<1> DEFINE new == [poll[p] EXCEPT !.at = "reload", !.answer = a]
<1>6. new \in Poll /\ new.at = "reload" /\ new.row = poll[p].row /\ new.left = poll[p].left
    BY <1>1, <1>5 DEF Poll
<1>7. poll' = [poll EXCEPT ![p] = new]
    BY <1>4 DEF TrackerType, TypeOK
<1> HIDE DEF new
<1>8. TrackerType'
    BY <1>1, <1>2, <1>3, <1>6, <1>7, TypePoll
<1> QED
    BY <1>7, <1>8 DEF new

LEMMA TypeReload ==
    ASSUME TrackerType, NEW p \in Pollers, Reload(p)
    PROVE  /\ TrackerType'
           /\ poll' = [poll EXCEPT ![p] = [poll[p] EXCEPT
                          !.at = "commit", !.answer = Unknown,
                          !.write = Applied(poll[p].row, poll[p].answer)]]
<1> USE DEF brokerVars, tableVars
<1>1. poll[p] \in Poll /\ poll[p].at = "reload" /\ poll[p].row \in Rows /\ (p # Loop => poll[p].left > 0)
    BY DEF TrackerType, TypeOK, Reload
<1>2. UNCHANGED <<submission, filled, canceled, trades, checked, recent, agenda, sync, writer, restarts>>
    BY DEF Reload
<1>3. agenda' \in Seq(Rows) /\ recent' \subseteq Rows
    BY <1>2 DEF TrackerType, TypeOK
<1>4. Unknown \in Answer
    BY TrackerAssumption DEF Unknown, Answer, Statuses
<1> DEFINE w == Applied(poll[p].row, poll[p].answer)
<1>5. w \in Write /\ w.row = poll[p].row
    BY <1>1, AppliedWrites DEF TrackerType, TypeOK, Poll
<1>6. poll' = [poll EXCEPT ![p].at = "commit", ![p].answer = Unknown, ![p].write = w]
    BY DEF Reload
<1> HIDE DEF w
<1> DEFINE new == [poll[p] EXCEPT !.at = "commit", !.answer = Unknown, !.write = w]
<1>7. /\ new \in Poll /\ new.at = "commit" /\ new.row = poll[p].row
      /\ new.left = poll[p].left /\ new.write = w
    BY <1>1, <1>4, <1>5 DEF Poll
<1>8. poll' = [poll EXCEPT ![p] = new]
    BY <1>6 DEF TrackerType, TypeOK
<1> HIDE DEF new
<1>9. TrackerType'
    BY <1>1, <1>2, <1>3, <1>5, <1>7, <1>8, TypePoll
<1> QED
    BY <1>8, <1>9 DEF new, w

LEMMA TypeWake ==
    ASSUME TrackerType, NEW p \in Pollers, Wake(p)
    PROVE  /\ TrackerType'
           /\ \/ poll' = [poll EXCEPT ![p] = Idle]
              \/ poll' = [poll EXCEPT ![p] = [poll[p] EXCEPT !.at = "load"]]
<1> USE DEF brokerVars, tableVars
<1>1. poll[p] \in Poll /\ poll[p].at = "sleep" /\ poll[p].row \in Rows
    BY DEF TrackerType, TypeOK, Wake
<1>2. UNCHANGED <<submission, filled, canceled, trades, checked, recent, agenda, sync, writer, restarts>>
    BY DEF Wake
<1>3. agenda' \in Seq(Rows) /\ recent' \subseteq Rows
    BY <1>2 DEF TrackerType, TypeOK
<1>4. CASE poll' = [poll EXCEPT ![p] = Idle]
    BY <1>2, <1>3, <1>4, IdleType, TypePoll
<1>5. CASE poll[p].left > 0 /\ poll' = [poll EXCEPT ![p].at = "load"]
  <2> DEFINE new == [poll[p] EXCEPT !.at = "load"]
  <2>1. new \in Poll /\ new.at = "load" /\ new.row = poll[p].row /\ new.left = poll[p].left
    BY <1>1 DEF Poll
  <2>2. poll' = [poll EXCEPT ![p] = new]
    BY <1>5
  <2> HIDE DEF new
  <2>3. TrackerType'
    BY <1>1, <1>2, <1>3, <1>5, <2>1, <2>2, TypePoll
  <2> QED
    BY <2>2, <2>3 DEF new
<1> QED
    BY <1>4, <1>5 DEF Wake

\* The rest of what a step may do to the table: no row goes, none changes its order.
RowsStay ==
    /\ Rows \subseteq Rows'
    /\ \A i \in Rows : trades'[i].order = trades[i].order

LEMMA TypeCommit ==
    ASSUME TrackerType, NEW p \in Pollers, Commit(p)
    PROVE  /\ TrackerType' /\ RowsStay /\ Rows' = Rows
           /\ poll[p].write \in Write /\ poll[p].write.row = poll[p].row /\ poll[p].row \in Rows
           /\ trades' = Flushed(trades, poll[p].write)
           /\ \A q \in Pollers \ {p} : poll'[q] = poll[q]
           /\ poll'[p].at \in {"idle", "sleep"}
<1> USE DEF brokerVars
<1> DEFINE w == poll[p].write
           next == IF p = Loop \/ w.status \in Terminal THEN Idle
                   ELSE [poll[p] EXCEPT !.at = "sleep", !.write = NoWrite, !.left = @ - 1]
<1>1. /\ poll[p] \in Poll /\ poll[p].at = "commit" /\ poll[p].row \in Rows
      /\ w.row = poll[p].row /\ (p # Loop => poll[p].left > 0)
    BY DEF TrackerType, TypeOK, Commit
<1>2. w \in Write
    BY <1>1 DEF Poll
<1>3. trades \in Seq(Row)
    BY DEF TrackerType, TypeOK
<1>4. /\ trades' = Flushed(trades, w) /\ checked' \in Stamped({w.row}, Len(trades))
      /\ recent' \subseteq recent \cup {w.row} /\ poll' = [poll EXCEPT ![p] = next]
      /\ UNCHANGED <<submission, filled, canceled, agenda, sync, writer, restarts>>
    BY DEF Commit
<1>5. next \in Poll /\ next.at \in {"idle", "sleep"} /\ (next.at = "sleep" => next.row = poll[p].row)
  <2>1. CASE p = Loop \/ w.status \in Terminal
    BY <2>1, IdleType
  <2>2. CASE ~(p = Loop \/ w.status \in Terminal)
    <3>1. NoWrite \in Write /\ poll[p].left - 1 \in 0..MaxTaskPolls
      BY <1>1, <2>2, TrackerAssumption DEF NoWrite, Write, Statuses, Poll
    <3> QED
      BY <1>1, <2>2, <3>1 DEF Poll
  <2> QED
    BY <2>1, <2>2
<1> HIDE DEF w, next
<1>6. /\ trades' \in Seq(Row) /\ Len(trades') = Len(trades)
      /\ \A i \in Rows : trades'[i].order = trades[i].order
    BY <1>1, <1>2, <1>3, <1>4, FlushedRows DEF Rows
<1>7. Rows' = Rows
    BY <1>6 DEF Rows
<1>8. checked' \in [Rows -> 0..Len(trades)]
    BY <1>4 DEF Stamped, Rows
<1>9. recent' \subseteq Rows
    BY <1>1, <1>4 DEF TrackerType, TypeOK
<1>10. /\ poll' \in [Pollers -> Poll] /\ poll'[p] = next
       /\ \A q \in Pollers \ {p} : poll'[q] = poll[q]
    BY <1>4, <1>5 DEF TrackerType, TypeOK
<1>11. \A q \in Pollers :
         /\ poll'[q].at # "idle" => poll'[q].row \in Rows
         /\ poll'[q].at = "commit" => poll'[q].write.row = poll'[q].row
         /\ q # Loop /\ poll'[q].at \notin {"idle", "sleep"} => poll'[q].left > 0
    BY <1>1, <1>5, <1>10 DEF TrackerType, TypeOK
<1>12. TypeOK'
    BY <1>4, <1>6, <1>7, <1>8, <1>9, <1>10, <1>11 DEF TrackerType, TypeOK
<1>13. TrackerType'
    BY <1>4, <1>7, <1>11, <1>12 DEF TrackerType
<1> QED
    BY <1>1, <1>2, <1>4, <1>5, <1>6, <1>7, <1>10, <1>13 DEF RowsStay, w

\* A step of one sync that leaves the table alone.
LEMMA TypeSync ==
    ASSUME TrackerType, NEW s \in Syncs, NEW new \in Sync,
           sync' = [sync EXCEPT ![s] = new],
           IsFiniteSet(new.inserts),
           \A w \in new.updates : w.row \in Rows,
           \A item \in new.todo \cup new.inserts : item[2].status # "UNKNOWN",
           new.open,
           UNCHANGED <<submission, filled, canceled, trades, checked, recent, agenda, poll,
                       writer, restarts>>
    PROVE  TrackerType'
<1>1. /\ sync' \in [Syncs -> Sync]
      /\ \A t \in Syncs : sync'[t] = IF t = s THEN new ELSE sync[t]
    BY DEF TrackerType, TypeOK
<1> QED
    BY <1>1 DEF TrackerType, TypeOK, Rows

LEMMA TypeList ==
    ASSUME TrackerType, NEW s \in Syncs, List(s)
    PROVE  /\ TrackerType'
           /\ sync' = [sync EXCEPT ![s] = [NoJob EXCEPT
                          !.open = TRUE, !.todo = {<<o, AnswerFor(o)>> : o \in Listed(s)}]]
           /\ Listed(s) \subseteq Placed
<1> USE DEF brokerVars, tableVars
<1> DEFINE items == {<<o, AnswerFor(o)>> : o \in Listed(s)}
           new == [NoJob EXCEPT !.open = TRUE, !.todo = items]
<1>1. Listed(s) \subseteq Placed /\ Placed \subseteq Orders
    BY DEF Listed, Placed
<1>2. items \in SUBSET (Orders \X Answer)
    BY <1>1, AnswersAreTrue DEF TrackerType
<1>9. \A item \in items : item[2].status # "UNKNOWN"
    BY <1>1, AnswersAreTrue DEF TrackerType
<1>3. sync' = [sync EXCEPT ![s] = new]
    BY DEF List
<1> HIDE DEF items
<1>4. new \in Sync /\ new.open /\ new.inserts = {} /\ new.updates = {} /\ new.todo = items
    BY <1>2, IdleType DEF Sync
<1>5. UNCHANGED <<submission, filled, canceled, trades, checked, recent, agenda, poll, writer, restarts>>
    BY DEF List
<1> HIDE DEF new
<1>6. TrackerType'
    BY <1>3, <1>4, <1>5, <1>9, FS_EmptySet, TypeSync
<1> QED
    BY <1>1, <1>3, <1>6 DEF new, items

LEMMA TypeFlush ==
    ASSUME TrackerType, NEW s \in Syncs, Flush(s)
    PROVE  TrackerType'
<1> USE DEF brokerVars, tableVars
<1>1. UNCHANGED <<submission, filled, canceled, trades, checked, recent, agenda, poll, sync, restarts>>
    BY DEF Flush
<1>2. writer' = s /\ sync[s].open
  <2>1. sync[s].updates # {} \/ sync[s].inserts # {}
    BY DEF Flush, Unflushed
  <2> QED
    BY <2>1, IdleType DEF Flush, TrackerType
<1> QED
    BY <1>1, <1>2 DEF TrackerType, TypeOK, Rows

\* Match updates the latest row of the order, if there is one.
LEMMA TypeMatch ==
    ASSUME TrackerType, NEW s \in Syncs, NEW item \in sync[s].todo, Match(s, item)
    PROVE  /\ TrackerType' /\ sync[s] \in Sync /\ sync[s].open
           /\ item[1] \in Orders /\ item[2] \in Answer
           /\ \/ \E i \in RowsOf(item[1]) :
                    sync' = [sync EXCEPT ![s] = [sync[s] EXCEPT
                       !.todo = sync[s].todo \ {item},
                       !.updates = sync[s].updates \cup {Applied(i, item[2])}]]
              \/ /\ RowsOf(item[1]) = {}
                 /\ sync' = [sync EXCEPT ![s] = [sync[s] EXCEPT
                       !.todo = sync[s].todo \ {item},
                       !.inserts = sync[s].inserts \cup {item}]]
<1> USE DEF brokerVars, tableVars
<1>1. /\ sync[s] \in Sync /\ sync[s].open /\ IsFiniteSet(sync[s].inserts)
      /\ \A w \in sync[s].updates : w.row \in Rows
      /\ \A known \in sync[s].todo \cup sync[s].inserts : known[2].status # "UNKNOWN"
    BY IdleType DEF TrackerType, TypeOK
<1>2. item \in Orders \X Answer
    BY <1>1 DEF Sync
<1>3. item[1] \in Orders /\ item[2] \in Answer
    BY <1>2
<1>4. UNCHANGED <<submission, filled, canceled, trades, checked, recent, agenda, poll, writer, restarts>>
    BY DEF Match
<1> DEFINE mine == RowsOf(item[1])
<1>5. CASE mine # {}
  <2> DEFINE latest == CHOOSE i \in mine : \A j \in mine : j <= i
             w == Applied(latest, item[2])
             new == [sync[s] EXCEPT !.todo = sync[s].todo \ {item},
                                    !.updates = sync[s].updates \cup {w}]
  <2>1. latest \in mine
    <3>1. mine \subseteq 1..Len(trades) /\ Len(trades) \in Nat
      BY DEF RowsOf, Rows, TrackerType, TypeOK
    <3>2. \E i \in mine : \A j \in mine : j <= i
      <4>1. IsFiniteSet(1..Len(trades))
        BY <3>1, FS_Interval
      <4>2. IsFiniteSet(mine) /\ mine \in SUBSET Int
        BY <3>1, <4>1, FS_Subset
      <4> QED
        BY <1>5, <4>2, LatestExists
    <3> QED
      BY <3>2
  <2>2. sync' = [sync EXCEPT ![s].todo = @ \ {item}, ![s].updates = @ \cup {w}]
    BY <1>5 DEF Match
  <2> HIDE DEF latest
  <2>3. latest \in Rows
    BY <2>1 DEF RowsOf
  <2>4. w \in Write /\ w.row \in Rows
    BY <1>3, <2>3, AppliedWrites DEF TrackerType, TypeOK
  <2> HIDE DEF w
  <2>5. sync' = [sync EXCEPT ![s] = new]
    BY <2>2 DEF TrackerType, TypeOK
  <2>6. /\ new \in Sync /\ new.open /\ new.inserts = sync[s].inserts
        /\ new.todo = sync[s].todo \ {item}
        /\ new.updates = sync[s].updates \cup {w}
    BY <1>1, <2>4 DEF Sync
  <2> HIDE DEF new
  <2>7. TrackerType'
    BY <1>1, <1>4, <2>4, <2>5, <2>6, TypeSync
  <2> QED
    BY <1>1, <1>3, <2>1, <2>5, <2>7 DEF new, w
<1>6. CASE mine = {}
  <2> DEFINE new == [sync[s] EXCEPT !.todo = sync[s].todo \ {item},
                                    !.inserts = sync[s].inserts \cup {item}]
  <2>1. sync' = [sync EXCEPT ![s].todo = @ \ {item}, ![s].inserts = @ \cup {item}]
    BY <1>6 DEF Match
  <2>2. sync' = [sync EXCEPT ![s] = new]
    BY <2>1 DEF TrackerType, TypeOK
  <2>3. /\ new \in Sync /\ new.open /\ new.inserts = sync[s].inserts \cup {item}
        /\ new.updates = sync[s].updates /\ new.todo = sync[s].todo \ {item}
    BY <1>1, <1>2 DEF Sync
  <2>4. IsFiniteSet(new.inserts)
    BY <1>1, <2>3, FS_AddElement
  <2> HIDE DEF new
  <2>5. TrackerType'
    BY <1>1, <1>4, <2>2, <2>3, <2>4, TypeSync
  <2> QED
    BY <1>1, <1>3, <1>6, <2>2, <2>5 DEF new
<1> QED
    BY <1>5, <1>6

\* What a committed sync leaves: in each old row that an update names, the columns
\* of that update; behind the old rows, one new row for each insert.
LEMMA TypeCommitSync ==
    ASSUME TrackerType, NEW s \in Syncs, CommitSync(s)
    PROVE  /\ TrackerType' /\ RowsStay /\ sync' = [sync EXCEPT ![s] = NoJob]
           /\ sync[s] \in Sync
           /\ \A i \in Rows :
                \/ trades'[i] = trades[i]
                \/ \E w \in sync[s].updates :
                      w \in Write /\ w.row = i /\ trades'[i] = Flushed(trades, w)[i]
           /\ \E new \in SetToSeqs(sync[s].inserts) :
                /\ new \in Seq(Orders \X Answer)
                /\ Len(trades') = Len(trades) + Len(new)
                /\ \A i \in DOMAIN new :
                     trades'[Len(trades) + i] =
                        [order |-> new[i][1], status |-> new[i][2].status, filled |-> new[i][2].filled]
<1> USE DEF brokerVars
<1> DEFINE touched == {w.row : w \in sync[s].updates}
           update(i) == CHOOSE w \in sync[s].updates : w.row = i
           updated == [i \in Rows |-> IF i \in touched THEN Flushed(trades, update(i))[i]
                                      ELSE trades[i]]
           added(new) == [i \in DOMAIN new |->
                [order |-> new[i][1], status |-> new[i][2].status, filled |-> new[i][2].filled]]
           written(new) == touched \cup {Len(trades) + i : i \in DOMAIN new}
<1>1. /\ sync[s] \in Sync /\ IsFiniteSet(sync[s].inserts)
      /\ \A w \in sync[s].updates : w.row \in Rows /\ w \in Write
      /\ \A item \in sync[s].inserts : item[2].status # "UNKNOWN"
    BY DEF TrackerType, TypeOK, Sync
<1>2. trades \in Seq(Row) /\ Len(trades) \in Nat
    BY DEF TrackerType, TypeOK
<1>3. PICK new \in SetToSeqs(sync[s].inserts) :
        /\ trades' = updated \o added(new)
        /\ checked' \in Stamped(written(new), Len(trades) + Len(new))
        /\ recent' = recent \cup written(new)
    BY DEF CommitSync
<1>4. /\ writer' = NoSync /\ sync' = [sync EXCEPT ![s] = NoJob]
      /\ UNCHANGED <<submission, filled, canceled, agenda, poll, restarts>>
    BY DEF CommitSync
<1>5. /\ new \in Seq(sync[s].inserts) /\ Len(new) \in Nat /\ DOMAIN new = 1..Len(new)
      /\ \A i \in 1..Len(new) : new[i] \in Orders \X Answer /\ new[i][2].status # "UNKNOWN"
  <2>1. new \in Seq(sync[s].inserts) /\ Len(new) \in Nat /\ DOMAIN new = 1..Len(new)
    BY <1>1, InsertionOrders
  <2>2. sync[s].inserts \subseteq Orders \X Answer
    BY <1>1 DEF Sync
  <2>3. \A i \in 1..Len(new) : new[i] \in sync[s].inserts
    BY <2>1, ElementOfSeq
  <2> QED
    BY <1>1, <2>1, <2>2, <2>3
<1>6. \A i \in Rows :
        \/ i \notin touched /\ updated[i] = trades[i]
        \/ /\ update(i) \in sync[s].updates /\ update(i).row = i
           /\ updated[i] = Flushed(trades, update(i))[i]
    OBVIOUS
<1>7. updated \in Seq(Row) /\ Len(updated) = Len(trades) /\ \A i \in Rows : updated[i].order = trades[i].order
  <2>1. \A i \in Rows : updated[i] \in Row /\ updated[i].order = trades[i].order
    <3> SUFFICES ASSUME NEW i \in Rows PROVE updated[i] \in Row /\ updated[i].order = trades[i].order
      OBVIOUS
    <3> HIDE DEF updated, update, touched
    <3>1. CASE updated[i] = trades[i]
      BY <1>2, <3>1 DEF Rows
    <3>2. CASE /\ update(i) \in sync[s].updates /\ update(i).row = i
               /\ updated[i] = Flushed(trades, update(i))[i]
      BY <1>1, <1>2, <3>2, FlushedRows DEF Rows
    <3> QED
      BY <1>6, <3>1, <3>2
  <2>2. DOMAIN updated = 1..Len(trades) /\ updated = [i \in 1..Len(trades) |-> updated[i]]
    BY DEF Rows
  <2> HIDE DEF updated
  <2> QED
    BY <1>2, <2>1, <2>2 DEF Rows
<1>8. /\ added(new) \in Seq(Row) /\ Len(added(new)) = Len(new)
      /\ \A i \in 1..Len(new) : added(new)[i] =
            [order |-> new[i][1], status |-> new[i][2].status, filled |-> new[i][2].filled]
  <2>1. \A i \in 1..Len(new) :
            [order |-> new[i][1], status |-> new[i][2].status, filled |-> new[i][2].filled] \in Row
    BY <1>5, InsertType
  <2> QED
    BY <1>5, <2>1
<1> HIDE DEF updated, update, touched, added
<1>9. /\ trades' \in Seq(Row) /\ Len(trades') = Len(trades) + Len(new)
      /\ \A i \in Rows : trades'[i] = updated[i]
      /\ \A i \in 1..Len(new) : trades'[Len(trades) + i] = added(new)[i]
  <2> DEFINE behind == added(new)
  <2>1. updated \in Seq(Row) /\ behind \in Seq(Row) /\ trades' = updated \o behind
    BY <1>3, <1>7, <1>8
  <2>2. Len(updated) = Len(trades) /\ Len(behind) = Len(new)
    BY <1>7, <1>8
  <2> HIDE DEF behind
  <2>3. /\ updated \o behind \in Seq(Row)
        /\ Len(updated \o behind) = Len(updated) + Len(behind)
        /\ \A i \in 1..Len(updated) + Len(behind) : (updated \o behind)[i] =
              IF i <= Len(updated) THEN updated[i] ELSE behind[i - Len(updated)]
    BY <2>1, ConcatProperties
  <2>4. trades' \in Seq(Row) /\ Len(trades') = Len(trades) + Len(new)
    BY <2>1, <2>2, <2>3
  <2>5. \A i \in Rows : trades'[i] = updated[i]
    BY <1>2, <1>5, <2>1, <2>2, <2>3 DEF Rows
  <2>6. \A i \in 1..Len(new) : trades'[Len(trades) + i] = behind[i]
    <3> SUFFICES ASSUME NEW i \in 1..Len(new) PROVE trades'[Len(trades) + i] = behind[i]
      OBVIOUS
    <3>1. /\ Len(trades) + i \in 1..Len(updated) + Len(behind)
          /\ ~(Len(trades) + i <= Len(updated)) /\ (Len(trades) + i) - Len(updated) = i
      BY <1>2, <1>5, <2>2
    <3> QED
      BY <2>1, <2>3, <3>1
  <2> QED
    BY <2>4, <2>5, <2>6 DEF behind
<1>10. Rows' = 1..(Len(trades) + Len(new)) /\ Rows \subseteq Rows'
    BY <1>2, <1>5, <1>9 DEF Rows
<1>11. checked' \in [Rows' -> 0..Len(trades')]
    BY <1>3, <1>9, <1>10 DEF Stamped
<1>12. recent' \subseteq Rows'
  <2>1. written(new) \subseteq Rows'
    BY <1>1, <1>2, <1>5, <1>10 DEF touched, Rows
  <2> QED
    BY <1>3, <1>10, <2>1 DEF TrackerType, TypeOK
<1>13. agenda' \in Seq(Rows')
    BY <1>4, <1>10, SeqMonotonic DEF TrackerType, TypeOK
<1>14. /\ sync' \in [Syncs -> Sync]
       /\ \A t \in Syncs : sync'[t] = IF t = s THEN NoJob ELSE sync[t]
    BY <1>4, IdleType DEF TrackerType, TypeOK
<1>15. TypeOK'
    BY <1>4, <1>9, <1>10, <1>11, <1>12, <1>13, <1>14, TrackerAssumption DEF TrackerType, TypeOK
<1>16. TrackerType'
    BY <1>4, <1>10, <1>14, <1>15, IdleType DEF TrackerType
<1>17. RowsStay
    BY <1>7, <1>9, <1>10 DEF RowsStay
<1>18. \A i \in Rows :
          \/ trades'[i] = trades[i]
          \/ \E w \in sync[s].updates :
                w \in Write /\ w.row = i /\ trades'[i] = Flushed(trades, w)[i]
    BY <1>1, <1>6, <1>9
<1>19. /\ new \in Seq(Orders \X Answer)
       /\ Len(trades') = Len(trades) + Len(new)
       /\ \A i \in DOMAIN new :
            trades'[Len(trades) + i] =
               [order |-> new[i][1], status |-> new[i][2].status, filled |-> new[i][2].filled]
  <2>1. sync[s].inserts \subseteq Orders \X Answer
    BY <1>1 DEF Sync
  <2>2. new \in Seq(Orders \X Answer)
    BY <1>5, <2>1, SeqMonotonic
  <2> QED
    BY <1>5, <1>8, <1>9, <2>2
<1> QED
    BY <1>1, <1>4, <1>16, <1>17, <1>18, <1>19

LEMMA TypeRestart ==
    ASSUME TrackerType, Restart
    PROVE  TrackerType'
<1> USE DEF tableVars
<1>1. UNCHANGED <<filled, canceled, trades, checked, recent>>
    BY DEF Restart
<1>2. submission' \in [Orders -> {"none", "sent", "recorded", "lost", "outside"}]
    BY DEF TrackerType, TypeOK, Restart
<1>3. /\ poll' = [p \in Pollers |-> Idle] /\ sync' = [s \in Syncs |-> NoJob]
      /\ writer' = NoSync /\ agenda' = <<>>
    BY DEF Restart
<1>4. agenda' \in Seq(Rows)
    BY <1>3, EmptySeq
<1>5. restarts' \in 0..MaxRestarts
    BY TrackerAssumption DEF TrackerType, TypeOK, Restart
<1>6. TypeOK'
    BY <1>1, <1>2, <1>3, <1>4, <1>5, IdleType, TrackerAssumption DEF TrackerType, TypeOK, Rows
<1> QED
    BY <1>3, <1>6, IdleType DEF TrackerType

LEMMA TypeNext == TrackerType /\ [Next]_vars => TrackerType'
<1> SUFFICES ASSUME TrackerType, [Next]_vars PROVE TrackerType'
    OBVIOUS
<1>1. CASE UNCHANGED vars
    BY <1>1 DEF vars, brokerVars, tableVars, TrackerType, TypeOK, Rows
<1>2. CASE \E o \in Orders : Submit(o) \/ PlaceOutside(o) \/ Fill(o) \/ Cancel(o)
                              \/ Record(o) \/ RecordFails(o)
    BY <1>2, TypeOutside, TypeRecord
<1>3. CASE LoopStep
    BY <1>3, TypeSelect, TypeTakeNext DEF LoopStep
<1>4. CASE \E p \in Pollers : PollStep(p)
    BY <1>4, TypeLoad, TypeAsk, TypeReload, TypeCommit, TypeWake DEF PollStep
<1>5. CASE \E s \in Syncs : SyncStep(s)
    BY <1>5, TypeList, TypeFlush, TypeMatch, TypeCommitSync DEF SyncStep
<1>6. CASE Restart
    BY <1>6, TypeRestart
<1> QED
    BY <1>1, <1>2, <1>3, <1>4, <1>5, <1>6 DEF Next

\* The table, the pollers and the sync jobs keep their types, however the writers
\* overlap, fail and restart; no writer ever holds a row that is not in the table.
THEOREM TrackerTypeCorrect == Spec => []TypeOK
<1>1. Init => TrackerType
    BY TypeInit
<1>2. TrackerType /\ [Next]_vars => TrackerType'
    BY TypeNext
<1>3. TrackerType => TypeOK
    BY DEF TrackerType
<1> QED
    BY <1>1, <1>2, <1>3, PTL DEF Spec

-----------------------------------------------------------------------------
(* Truth.  What was true of an order stays true: fills and cancellations   *)
(* are never taken back.                                                   *)

BrokerGrows ==
    /\ \A o \in Orders : filled[o] <= filled'[o] /\ filled'[o] <= Qty
    /\ canceled \subseteq canceled'

LEMMA TruthStays ==
    ASSUME TypeOK, BrokerGrows, filled' \in [Orders -> 0..Qty],
           NEW o \in Orders, NEW status, NEW shares \in Nat, True(o, status, shares)
    PROVE  True(o, status, shares)'
<1>1. filled[o] \in Nat /\ filled'[o] \in Nat /\ Qty \in Nat
    BY TrackerAssumption DEF TypeOK
<1> QED
    BY <1>1 DEF BrokerGrows, True

LEMMA PollTruthStays ==
    ASSUME TruthInv, TrackerType', BrokerGrows, RowsStay,
           NEW p \in Pollers, poll'[p] = poll[p]
    PROVE  PollTrue(p)'
<1>1. /\ poll[p] \in Poll /\ filled' \in [Orders -> 0..Qty] /\ TypeOK
      /\ poll[p].at # "idle" => poll[p].row \in Rows
    BY DEF TruthInv, TrackerType, TypeOK
<1>2. CASE poll[p].at \notin {"reload", "commit"}
    BY <1>2 DEF PollTrue
<1>3. CASE poll[p].at \in {"reload", "commit"}
  <2> DEFINE o == trades[poll[p].row].order
  <2>1. trades'[poll[p].row].order = o /\ o \in Orders
    BY <1>1, <1>3, RowType DEF RowsStay
  <2>2. poll[p].answer.filled \in Nat /\ poll[p].write.filled \in Nat
    BY <1>1, TrackerAssumption DEF Poll, Answer, Write
  <2>3. /\ poll[p].at = "reload" => True(o, poll[p].answer.status, poll[p].answer.filled)
        /\ poll[p].at = "commit" => True(o, poll[p].write.status, poll[p].write.filled)
    BY DEF TruthInv, PollsTrue, PollTrue
  <2> HIDE DEF o
  <2>5. /\ poll[p].at = "reload" =>
              /\ poll[p].answer.filled <= filled'[o]
              /\ poll[p].answer.status = "FILLED" => filled'[o] = Qty
              /\ poll[p].answer.status = "CANCELED" => o \in canceled'
        /\ poll[p].at = "commit" =>
              /\ poll[p].write.filled <= filled'[o]
              /\ poll[p].write.status = "FILLED" => filled'[o] = Qty
              /\ poll[p].write.status = "CANCELED" => o \in canceled'
    BY <1>1, <2>1, <2>2, <2>3, TruthStays DEF True
  <2> QED
    BY <2>1, <2>5 DEF PollTrue, True
<1> QED
    BY <1>2, <1>3

LEMMA SyncTruthStays ==
    ASSUME TruthInv, TrackerType', BrokerGrows, RowsStay,
           NEW s \in Syncs, sync'[s] = sync[s]
    PROVE  SyncTrue(s)'
<1>1. /\ sync[s] \in Sync /\ filled' \in [Orders -> 0..Qty] /\ TypeOK
      /\ \A w \in sync[s].updates : w.row \in Rows
    BY DEF TruthInv, TrackerType, TypeOK
<1>2. ASSUME NEW item \in sync[s].todo \cup sync[s].inserts
      PROVE  True(item[1], item[2].status, item[2].filled)'
  <2>1. item[1] \in Orders /\ item[2].filled \in Nat
    BY <1>1, TrackerAssumption DEF Sync, Answer
  <2>2. True(item[1], item[2].status, item[2].filled)
    BY DEF TruthInv, SyncsTrue, SyncTrue
  <2> QED
    BY <1>1, <2>1, <2>2, TruthStays DEF True
<1>3. ASSUME NEW w \in sync[s].updates
      PROVE  True(trades[w.row].order, w.status, w.filled)'
  <2>1. w.row \in Rows /\ w.filled \in Nat
    BY <1>1, TrackerAssumption DEF Sync, Write
  <2>2. trades[w.row].order \in Orders /\ trades'[w.row].order = trades[w.row].order
    BY <1>1, <2>1, RowType DEF RowsStay
  <2>3. True(trades[w.row].order, w.status, w.filled)
    BY DEF TruthInv, SyncsTrue, SyncTrue
  <2> QED
    BY <1>1, <2>1, <2>2, <2>3, TruthStays DEF True
<1> QED
    BY <1>2, <1>3 DEF SyncTrue

LEMMA RowTruthStays ==
    ASSUME TruthInv, TrackerType', BrokerGrows,
           NEW i \in Rows, trades'[i] = trades[i]
    PROVE  RowTrue(i)'
<1>1. filled' \in [Orders -> 0..Qty] /\ TypeOK
    BY DEF TruthInv, TrackerType, TypeOK
<1>2. trades[i].order \in Orders /\ trades[i].filled \in Nat
    BY <1>1, RowType
<1>3. True(trades[i].order, trades[i].status, trades[i].filled)
    BY DEF TruthInv, RowsTrue, RowTrue
<1> QED
    BY <1>1, <1>2, <1>3, TruthStays DEF RowTrue, True

LEMMA TruthKept ==
    ASSUME TruthInv, TrackerType', BrokerGrows, RowsStay,
           \A p \in Pollers : poll'[p] = poll[p] \/ PollTrue(p)',
           \A s \in Syncs : sync'[s] = sync[s] \/ SyncTrue(s)',
           \A i \in Rows' : (i \in Rows /\ trades'[i] = trades[i]) \/ RowTrue(i)'
    PROVE  TruthInv'
<1>1. \A p \in Pollers : PollTrue(p)'
    BY PollTruthStays
<1>2. \A s \in Syncs : SyncTrue(s)'
    BY SyncTruthStays
<1>3. \A i \in Rows' : RowTrue(i)'
    BY RowTruthStays
<1> QED
    BY <1>1, <1>2, <1>3 DEF TruthInv, PollsTrue, SyncsTrue, RowsTrue

\* A step that moves only pollers and syncs that say nothing afterwards, or nobody.
LEMMA TruthQuiet ==
    ASSUME TruthInv, TrackerType', UNCHANGED <<filled, canceled, trades>>,
           \A p \in Pollers : poll'[p] = poll[p] \/ poll'[p].at \notin {"reload", "commit"},
           \A s \in Syncs : sync'[s] = sync[s] \/ sync'[s] = NoJob
    PROVE  TruthInv'
<1>1. BrokerGrows /\ RowsStay
    BY TrackerAssumption DEF BrokerGrows, RowsStay, TruthInv, TrackerType, TypeOK, Rows
<1>2. \A p \in Pollers : poll'[p] = poll[p] \/ PollTrue(p)'
    BY DEF PollTrue
<1>3. \A s \in Syncs : sync'[s] = sync[s] \/ SyncTrue(s)'
    BY IdleType DEF SyncTrue
<1>4. \A i \in Rows' : i \in Rows /\ trades'[i] = trades[i]
    BY DEF Rows
<1> QED
    BY <1>1, <1>2, <1>3, <1>4, TruthKept

LEMMA TruthOutside ==
    ASSUME TruthInv, NEW o \in Orders,
           Submit(o) \/ PlaceOutside(o) \/ Fill(o) \/ Cancel(o) \/ RecordFails(o)
    PROVE  TruthInv'
<1> USE DEF tableVars
<1>1. TrackerType'
    BY TypeOutside DEF TruthInv
<1>2. UNCHANGED <<trades, poll, sync>>
    BY DEF Submit, PlaceOutside, Fill, Cancel, RecordFails
<1>3. BrokerGrows
  <2>1. canceled \subseteq canceled'
    BY DEF Submit, PlaceOutside, Fill, Cancel, RecordFails
  <2>2. ASSUME NEW x \in Orders PROVE filled[x] <= filled'[x] /\ filled'[x] <= Qty
    <3>1. filled[x] \in 0..Qty /\ filled'[x] \in 0..Qty /\ Qty \in Nat
      BY <1>1, TrackerAssumption DEF TruthInv, TrackerType, TypeOK
    <3>2. filled' = filled \/ filled' = [filled EXCEPT ![o] = @ + 1]
      BY DEF Submit, PlaceOutside, Fill, Cancel, RecordFails
    <3>3. filled \in [Orders -> 0..Qty]
      BY DEF TruthInv, TrackerType, TypeOK
    <3>4. filled'[x] = filled[x] \/ filled'[x] = filled[x] + 1
      BY <3>2, <3>3
    <3> QED
      BY <3>1, <3>4
  <2> QED
    BY <2>1, <2>2 DEF BrokerGrows
<1>4. RowsStay /\ \A i \in Rows' : i \in Rows /\ trades'[i] = trades[i]
    BY <1>2 DEF RowsStay, Rows
<1> QED
    BY <1>1, <1>2, <1>3, <1>4, TruthKept

LEMMA TruthRecord ==
    ASSUME TruthInv, NEW o \in Orders, Record(o)
    PROVE  TruthInv'
<1> DEFINE n == Len(trades) + 1
<1>1. /\ TrackerType' /\ Len(trades') = n
      /\ \A i \in Rows : trades'[i] = trades[i]
      /\ trades'[n] = [order |-> o, status |-> "PENDING", filled |-> 0]
      /\ \A p \in Pollers : poll'[p] = poll[p] \/ poll'[p].at = "load"
    BY TypeRecord DEF TruthInv
<1>2. UNCHANGED <<filled, canceled, sync>>
    BY DEF Record
<1>3. Len(trades) \in Nat /\ filled \in [Orders -> 0..Qty]
    BY DEF TruthInv, TrackerType, TypeOK
<1>4. BrokerGrows
    BY <1>2, <1>3, TrackerAssumption DEF BrokerGrows
<1>5. RowsStay
    BY <1>1, <1>3 DEF RowsStay, Rows
<1>6. ASSUME NEW i \in Rows', i = n PROVE RowTrue(i)'
  <2>1. trades'[i] = [order |-> o, status |-> "PENDING", filled |-> 0]
    BY <1>1, <1>6
  <2>2. filled'[o] \in 0..Qty
    BY <1>2, <1>3
  <2> QED
    BY <2>1, <2>2, TrackerAssumption DEF RowTrue, True
<1>7. \A i \in Rows' : i \in Rows \/ i = n
    BY <1>1, <1>3 DEF Rows
<1>8. \A i \in Rows' : (i \in Rows /\ trades'[i] = trades[i]) \/ RowTrue(i)'
    BY <1>1, <1>6, <1>7
<1>9. \A p \in Pollers : poll'[p] = poll[p] \/ PollTrue(p)'
    BY <1>1 DEF PollTrue
<1> QED
    BY <1>1, <1>2, <1>4, <1>5, <1>8, <1>9, TruthKept

LEMMA TruthAsk ==
    ASSUME TruthInv, NEW p \in Pollers, Ask(p)
    PROVE  TruthInv'
<1> USE DEF brokerVars, tableVars
<1> DEFINE o == trades[poll[p].row].order
<1>1. TrackerType' /\ \E a \in {AnswerFor(o), Unknown} :
            poll' = [poll EXCEPT ![p] = [poll[p] EXCEPT !.at = "reload", !.answer = a]]
    BY TypeAsk DEF TruthInv
<1>2. PICK a \in {AnswerFor(o), Unknown} :
            poll' = [poll EXCEPT ![p] = [poll[p] EXCEPT !.at = "reload", !.answer = a]]
    BY <1>1
<1>3. UNCHANGED <<submission, filled, canceled, trades, sync>>
    BY DEF Ask
<1>4. /\ poll[p] \in Poll /\ poll[p].at = "ask" /\ poll[p].row \in Rows /\ TypeOK
      /\ poll \in [Pollers -> Poll]
    BY DEF TruthInv, TrackerType, TypeOK, Ask
<1>5. o \in Orders
    BY <1>4, RowType
<1>6. True(o, a.status, a.filled)
  <2>1. CASE a = AnswerFor(o)
    BY <1>4, <1>5, <2>1, AnswersAreTrue
  <2>2. CASE a = Unknown
    <3>1. filled[o] \in 0..Qty
      BY <1>4, <1>5 DEF TypeOK
    <3> QED
      BY <2>2, <3>1, TrackerAssumption DEF Unknown, True
  <2> QED
    BY <1>2, <2>1, <2>2
<1>7. /\ poll'[p].at = "reload" /\ poll'[p].row = poll[p].row /\ poll'[p].answer = a
      /\ \A q \in Pollers \ {p} : poll'[q] = poll[q]
    BY <1>2, <1>4 DEF Poll
<1>8. PollTrue(p)'
    BY <1>3, <1>6, <1>7 DEF PollTrue, True
<1>9. BrokerGrows /\ RowsStay
    BY <1>3, TrackerAssumption DEF BrokerGrows, RowsStay, TruthInv, TrackerType, TypeOK, Rows
<1>10. \A i \in Rows' : i \in Rows /\ trades'[i] = trades[i]
    BY <1>3 DEF Rows
<1> QED
    BY <1>1, <1>3, <1>7, <1>8, <1>9, <1>10, TruthKept

LEMMA AppliedTrue ==
    ASSUME TruthInv, NEW i \in Rows, NEW answer \in Answer,
           True(trades[i].order, answer.status, answer.filled)
    PROVE  True(trades[i].order, Applied(i, answer).status, Applied(i, answer).filled)
<1> DEFINE w == Applied(i, answer)
<1>1. /\ w.status = IF answer.status = "UNKNOWN" THEN trades[i].status ELSE answer.status
      /\ w.filled = IF answer.status = "UNKNOWN" \/ answer.filled <= trades[i].filled
                    THEN trades[i].filled ELSE answer.filled
    BY AppliedWrites DEF TruthInv, TrackerType, TypeOK
<1> HIDE DEF w
<1>2. True(trades[i].order, trades[i].status, trades[i].filled)
    BY DEF TruthInv, RowsTrue, RowTrue
<1>3. True(trades[i].order, w.status, w.filled)
    BY <1>1, <1>2 DEF True
<1> QED
    BY <1>3 DEF w

LEMMA TruthReload ==
    ASSUME TruthInv, NEW p \in Pollers, Reload(p)
    PROVE  TruthInv'
<1> USE DEF brokerVars, tableVars
<1> DEFINE w == Applied(poll[p].row, poll[p].answer)
<1>1. TrackerType' /\ poll' = [poll EXCEPT ![p] = [poll[p] EXCEPT
                          !.at = "commit", !.answer = Unknown, !.write = w]]
    BY TypeReload DEF TruthInv
<1>2. UNCHANGED <<filled, canceled, trades, sync>>
    BY DEF Reload
<1>3. /\ poll[p] \in Poll /\ poll[p].at = "reload" /\ poll[p].row \in Rows
      /\ poll \in [Pollers -> Poll]
    BY DEF TruthInv, TrackerType, TypeOK, Reload
<1>4. True(trades[poll[p].row].order, poll[p].answer.status, poll[p].answer.filled)
    BY <1>3 DEF TruthInv, PollsTrue, PollTrue
<1>5. True(trades[poll[p].row].order, w.status, w.filled)
    BY <1>3, <1>4, AppliedTrue DEF Poll
<1> HIDE DEF w
<1>6. /\ poll'[p].at = "commit" /\ poll'[p].row = poll[p].row /\ poll'[p].write = w
      /\ \A q \in Pollers \ {p} : poll'[q] = poll[q]
    BY <1>1, <1>3 DEF Poll
<1>7. PollTrue(p)'
    BY <1>2, <1>5, <1>6 DEF PollTrue, True
<1>8. BrokerGrows /\ RowsStay
    BY <1>2, TrackerAssumption DEF BrokerGrows, RowsStay, TruthInv, TrackerType, TypeOK, Rows
<1>9. \A i \in Rows' : i \in Rows /\ trades'[i] = trades[i]
    BY <1>2 DEF Rows
<1> QED
    BY <1>1, <1>2, <1>6, <1>7, <1>8, <1>9, TruthKept

\* A true write leaves a true row.
LEMMA WrittenTrue ==
    ASSUME TruthInv, UNCHANGED <<filled, canceled>>, NEW i \in Rows,
           NEW w \in Write, w.row = i, True(trades[i].order, w.status, w.filled),
           trades'[i] = Flushed(trades, w)[i]
    PROVE  RowTrue(i)'
<1> DEFINE new == Flushed(trades, w)[i]
<1>1. trades \in Seq(Row) /\ i \in 1..Len(trades)
    BY DEF TruthInv, TrackerType, TypeOK, Rows
<1>2. /\ new.order = trades[i].order
      /\ new.status = IF "status" \in w.cols THEN w.status ELSE trades[i].status
      /\ new.filled = IF "filled" \in w.cols THEN w.filled ELSE trades[i].filled
    BY <1>1, FlushedRows
<1>3. trades'[i] = new
    OBVIOUS
<1> HIDE DEF new
<1>4. True(trades[i].order, trades[i].status, trades[i].filled)
    BY DEF TruthInv, RowsTrue, RowTrue
<1> QED
    BY <1>2, <1>3, <1>4 DEF RowTrue, True

LEMMA TruthCommit ==
    ASSUME TruthInv, NEW p \in Pollers, Commit(p)
    PROVE  TruthInv'
<1> USE DEF brokerVars
<1> DEFINE w == poll[p].write
<1>1. /\ TrackerType' /\ RowsStay /\ Rows' = Rows
      /\ w \in Write /\ w.row = poll[p].row /\ w.row \in Rows
      /\ trades' = Flushed(trades, w)
      /\ \A q \in Pollers \ {p} : poll'[q] = poll[q]
      /\ poll'[p].at \in {"idle", "sleep"}
    BY TypeCommit DEF TruthInv
<1>2. UNCHANGED <<filled, canceled, sync>>
    BY DEF Commit
<1>3. poll[p].at = "commit" /\ trades \in Seq(Row)
    BY DEF Commit, TruthInv, TrackerType, TypeOK
<1>4. True(trades[w.row].order, w.status, w.filled)
    BY <1>1, <1>3 DEF TruthInv, PollsTrue, PollTrue
<1> HIDE DEF w
<1>5. BrokerGrows
    BY <1>2, TrackerAssumption DEF BrokerGrows, TruthInv, TrackerType, TypeOK
<1>6. \A q \in Pollers : poll'[q] = poll[q] \/ PollTrue(q)'
    BY <1>1 DEF PollTrue
<1>7. ASSUME NEW i \in Rows, i # w.row PROVE trades'[i] = trades[i]
    BY <1>1, <1>3, <1>7, FlushedRows DEF Rows
<1>8. ASSUME NEW i \in Rows, i = w.row PROVE RowTrue(i)'
    BY <1>1, <1>2, <1>3, <1>4, <1>8, WrittenTrue
<1> QED
    BY <1>1, <1>2, <1>5, <1>6, <1>7, <1>8, TruthKept

LEMMA TruthSync ==
    ASSUME TruthInv, TrackerType', UNCHANGED <<filled, canceled, trades, poll>>,
           NEW s \in Syncs, SyncTrue(s)', \A t \in Syncs \ {s} : sync'[t] = sync[t]
    PROVE  TruthInv'
<1>1. BrokerGrows /\ RowsStay
    BY TrackerAssumption DEF BrokerGrows, RowsStay, TruthInv, TrackerType, TypeOK, Rows
<1>2. \A i \in Rows' : i \in Rows /\ trades'[i] = trades[i]
    BY DEF Rows
<1> QED
    BY <1>1, <1>2, TruthKept

LEMMA TruthList ==
    ASSUME TruthInv, NEW s \in Syncs, List(s)
    PROVE  TruthInv'
<1> USE DEF brokerVars, tableVars
<1> DEFINE items == {<<o, AnswerFor(o)>> : o \in Listed(s)}
<1>1. /\ TrackerType' /\ Listed(s) \subseteq Orders
      /\ sync' = [sync EXCEPT ![s] = [NoJob EXCEPT !.open = TRUE, !.todo = items]]
    BY TypeList DEF TruthInv, Placed
<1>2. UNCHANGED <<filled, canceled, trades, poll>>
    BY DEF List
<1>3. \A item \in items : True(item[1], item[2].status, item[2].filled)
    BY <1>1, AnswersAreTrue DEF TruthInv, TrackerType
<1> HIDE DEF items
<1>4. sync'[s].todo = items /\ sync'[s].inserts = {} /\ sync'[s].updates = {}
    BY <1>1, IdleType DEF Sync, TruthInv, TrackerType, TypeOK
<1>5. SyncTrue(s)'
    BY <1>2, <1>3, <1>4 DEF SyncTrue, True
<1>6. \A t \in Syncs \ {s} : sync'[t] = sync[t]
    BY <1>1 DEF TruthInv, TrackerType, TypeOK
<1> QED
    BY <1>1, <1>2, <1>5, <1>6, TruthSync

LEMMA TruthMatch ==
    ASSUME TruthInv, NEW s \in Syncs, NEW item \in sync[s].todo, Match(s, item)
    PROVE  TruthInv'
<1> USE DEF brokerVars, tableVars
<1>1. /\ TrackerType' /\ sync[s] \in Sync /\ item[2] \in Answer /\ sync \in [Syncs -> Sync]
      /\ \/ \E i \in RowsOf(item[1]) :
               sync' = [sync EXCEPT ![s] = [sync[s] EXCEPT
                  !.todo = sync[s].todo \ {item},
                  !.updates = sync[s].updates \cup {Applied(i, item[2])}]]
         \/ /\ RowsOf(item[1]) = {}
            /\ sync' = [sync EXCEPT ![s] = [sync[s] EXCEPT
                  !.todo = sync[s].todo \ {item},
                  !.inserts = sync[s].inserts \cup {item}]]
    BY TypeMatch DEF TruthInv, TrackerType, TypeOK
<1>2. UNCHANGED <<filled, canceled, trades, poll>>
    BY DEF Match
<1>3. /\ \A told \in sync[s].todo \cup sync[s].inserts :
            True(told[1], told[2].status, told[2].filled)
      /\ \A w \in sync[s].updates : True(trades[w.row].order, w.status, w.filled)
    BY DEF TruthInv, SyncsTrue, SyncTrue
<1>4. CASE \E i \in RowsOf(item[1]) :
               sync' = [sync EXCEPT ![s] = [sync[s] EXCEPT
                  !.todo = sync[s].todo \ {item},
                  !.updates = sync[s].updates \cup {Applied(i, item[2])}]]
  <2>1. PICK i \in RowsOf(item[1]) :
               sync' = [sync EXCEPT ![s] = [sync[s] EXCEPT
                  !.todo = sync[s].todo \ {item},
                  !.updates = sync[s].updates \cup {Applied(i, item[2])}]]
    BY <1>4
  <2> DEFINE w == Applied(i, item[2])
  <2>2. i \in Rows /\ trades[i].order = item[1]
    BY DEF RowsOf
  <2>3. w.row = i /\ True(trades[i].order, w.status, w.filled)
    BY <1>1, <1>3, <2>2, AppliedTrue, AppliedWrites DEF TruthInv, TrackerType, TypeOK
  <2> HIDE DEF w
  <2>4. /\ sync'[s].todo = sync[s].todo \ {item} /\ sync'[s].inserts = sync[s].inserts
        /\ sync'[s].updates = sync[s].updates \cup {w}
        /\ \A t \in Syncs \ {s} : sync'[t] = sync[t]
    BY <1>1, <2>1 DEF Sync, w
  <2>5. SyncTrue(s)'
    BY <1>2, <1>3, <2>3, <2>4 DEF SyncTrue, True
  <2> QED
    BY <1>1, <1>2, <2>4, <2>5, TruthSync
<1>5. CASE sync' = [sync EXCEPT ![s] = [sync[s] EXCEPT
                  !.todo = sync[s].todo \ {item},
                  !.inserts = sync[s].inserts \cup {item}]]
  <2>1. /\ sync'[s].todo = sync[s].todo \ {item} /\ sync'[s].updates = sync[s].updates
        /\ sync'[s].inserts = sync[s].inserts \cup {item}
        /\ \A t \in Syncs \ {s} : sync'[t] = sync[t]
    BY <1>1, <1>5 DEF Sync
  <2>2. SyncTrue(s)'
    BY <1>2, <1>3, <2>1 DEF SyncTrue, True
  <2> QED
    BY <1>1, <1>2, <2>1, <2>2, TruthSync
<1> QED
    BY <1>1, <1>4, <1>5

LEMMA TruthCommitSync ==
    ASSUME TruthInv, NEW s \in Syncs, CommitSync(s)
    PROVE  TruthInv'
<1> USE DEF brokerVars
<1>1. /\ TrackerType' /\ RowsStay /\ sync' = [sync EXCEPT ![s] = NoJob]
      /\ sync[s] \in Sync
      /\ \A i \in Rows :
           \/ trades'[i] = trades[i]
           \/ \E w \in sync[s].updates :
                 w \in Write /\ w.row = i /\ trades'[i] = Flushed(trades, w)[i]
      /\ \E new \in SetToSeqs(sync[s].inserts) :
           /\ new \in Seq(Orders \X Answer)
           /\ Len(trades') = Len(trades) + Len(new)
           /\ \A i \in DOMAIN new :
                trades'[Len(trades) + i] =
                   [order |-> new[i][1], status |-> new[i][2].status, filled |-> new[i][2].filled]
    BY TypeCommitSync DEF TruthInv
<1>2. UNCHANGED <<filled, canceled, poll>>
    BY DEF CommitSync
<1>3. /\ trades \in Seq(Row) /\ IsFiniteSet(sync[s].inserts) /\ sync \in [Syncs -> Sync]
      /\ \A item \in sync[s].inserts : True(item[1], item[2].status, item[2].filled)
      /\ \A w \in sync[s].updates : True(trades[w.row].order, w.status, w.filled)
    BY DEF TruthInv, TrackerType, TypeOK, SyncsTrue, SyncTrue
<1>4. BrokerGrows
    BY <1>2, TrackerAssumption DEF BrokerGrows, TruthInv, TrackerType, TypeOK
<1>5. \A t \in Syncs : sync'[t] = sync[t] \/ SyncTrue(t)'
    BY <1>1, <1>3, IdleType DEF SyncTrue
<1>6. ASSUME NEW i \in Rows, trades'[i] # trades[i] PROVE RowTrue(i)'
  <2>1. PICK w \in sync[s].updates : w \in Write /\ w.row = i /\ trades'[i] = Flushed(trades, w)[i]
    BY <1>1, <1>6
  <2> QED
    BY <1>2, <1>3, <2>1, WrittenTrue
<1>7. ASSUME NEW i \in Rows', i \notin Rows PROVE RowTrue(i)'
  <2>1. PICK new \in SetToSeqs(sync[s].inserts) :
           /\ new \in Seq(Orders \X Answer)
           /\ Len(trades') = Len(trades) + Len(new)
           /\ \A k \in DOMAIN new :
                trades'[Len(trades) + k] =
                   [order |-> new[k][1], status |-> new[k][2].status, filled |-> new[k][2].filled]
    BY <1>1
  <2>2. new \in Seq(sync[s].inserts) /\ Len(new) \in Nat /\ DOMAIN new = 1..Len(new)
    BY <1>3, InsertionOrders
  <2>3. PICK k \in 1..Len(new) : i = Len(trades) + k
    <3>1. i \in 1..(Len(trades) + Len(new)) /\ i \notin 1..Len(trades) /\ Len(trades) \in Nat
      BY <1>3, <1>7, <2>1 DEF Rows
    <3>2. i - Len(trades) \in 1..Len(new) /\ i = Len(trades) + (i - Len(trades))
      BY <2>2, <3>1
    <3> QED
      BY <3>2
  <2>4. new[k] \in sync[s].inserts
    BY <2>2, ElementOfSeq
  <2>5. trades'[i] = [order |-> new[k][1], status |-> new[k][2].status, filled |-> new[k][2].filled]
    BY <2>1, <2>2, <2>3
  <2> QED
    BY <1>2, <1>3, <2>4, <2>5 DEF RowTrue, True
<1> QED
    BY <1>1, <1>2, <1>4, <1>5, <1>6, <1>7, TruthKept

LEMMA TruthInit == Init => TruthInv
<1> SUFFICES ASSUME Init PROVE TruthInv
    OBVIOUS
<1>1. TrackerType
    BY TypeInit
<1>2. PollsTrue
    BY IdleType DEF Init, PollsTrue, PollTrue
<1>3. SyncsTrue
    BY IdleType DEF Init, SyncsTrue, SyncTrue
<1>4. RowsTrue
    BY DEF Init, RowsTrue, Rows
<1> QED
    BY <1>1, <1>2, <1>3, <1>4 DEF TruthInv

LEMMA TruthNext == TruthInv /\ [Next]_vars => TruthInv'
<1> SUFFICES ASSUME TruthInv, [Next]_vars PROVE TruthInv'
    OBVIOUS
<1> USE DEF brokerVars, tableVars
<1>1. TrackerType' /\ poll \in [Pollers -> Poll]
    BY TypeNext DEF TruthInv, TrackerType, TypeOK
<1>2. CASE UNCHANGED vars
    BY <1>1, <1>2, TruthQuiet DEF vars
<1>3. CASE \E o \in Orders : Submit(o) \/ PlaceOutside(o) \/ Fill(o) \/ Cancel(o)
                              \/ Record(o) \/ RecordFails(o)
    BY <1>3, TruthOutside, TruthRecord
<1>4. CASE LoopStep
  <2>1. ASSUME NEW skipped, Select(skipped) PROVE TruthInv'
    BY <1>1, <2>1, TruthQuiet DEF Select
  <2>2. CASE TakeNext
    <3>1. \A p \in Pollers : poll'[p] = poll[p] \/ poll'[p].at = "load"
      BY <2>2, TypeTakeNext DEF TruthInv
    <3> QED
      BY <1>1, <2>2, <3>1, TruthQuiet DEF TakeNext
  <2> QED
    BY <1>4, <2>1, <2>2 DEF LoopStep
<1>5. ASSUME NEW p \in Pollers, PollStep(p) PROVE TruthInv'
  <2>1. poll[p] \in Poll
    BY <1>1
  <2>2. CASE Load(p)
    <3>1. \A q \in Pollers : poll'[q] = poll[q] \/ poll'[q].at \in {"idle", "ask"}
      BY <1>1, <2>1, <2>2, IdleType, TypeLoad DEF TruthInv, Poll
    <3> QED
      BY <1>1, <2>2, <3>1, TruthQuiet DEF Load
  <2>3. CASE Wake(p)
    <3>1. \A q \in Pollers : poll'[q] = poll[q] \/ poll'[q].at \in {"idle", "load"}
      BY <1>1, <2>1, <2>3, IdleType, TypeWake DEF TruthInv, Poll
    <3> QED
      BY <1>1, <2>3, <3>1, TruthQuiet DEF Wake
  <2> QED
    BY <1>5, <2>2, <2>3, TruthAsk, TruthReload, TruthCommit DEF PollStep
<1>6. ASSUME NEW s \in Syncs, SyncStep(s) PROVE TruthInv'
  <2>1. CASE Flush(s)
    BY <1>1, <2>1, TruthQuiet DEF Flush
  <2> QED
    BY <1>6, <2>1, TruthList, TruthMatch, TruthCommitSync DEF SyncStep
<1>7. CASE Restart
  <2>1. \A p \in Pollers : poll'[p].at = "idle"
    BY <1>7, IdleType DEF Restart
  <2> QED
    BY <1>1, <1>7, <2>1, TruthQuiet DEF Restart
<1> QED
    BY <1>2, <1>3, <1>4, <1>5, <1>6, <1>7 DEF Next

\* However stale the answers and however the writers race, whatever fails and
\* restarts: no trade row claims shares the broker has not filled, nor an end that
\* the order has not met.
THEOREM TrackerNeverOverstates == Spec => []NeverOverstated
<1>1. Init => TruthInv
    BY TruthInit
<1>2. TruthInv /\ [Next]_vars => TruthInv'
    BY TruthNext
<1>3. TruthInv => NeverOverstated
    BY DEF TruthInv, RowsTrue, RowTrue, True, NeverOverstated
<1> QED
    BY <1>1, <1>2, <1>3, PTL DEF Spec

-----------------------------------------------------------------------------
(* Exactness, when the writers take turns.                                 *)

Serial == "overlap" \notin Faults

\* The broker does not cancel what is filled: a terminal status is final.
BrokerFinal == \A o \in canceled : filled[o] < Qty

\* One writer at a row, and no poller and no submission beside a sync.
InTurn ==
    /\ \A p, q \in Pollers :
        p # q /\ poll[p].at \in Busy /\ poll[q].at \in Busy => poll[p].row # poll[q].row
    /\ \A s \in Syncs : sync[s].open =>
        /\ \A p \in Pollers : poll[p].at \notin Busy
        /\ \A t \in Syncs \ {s} : ~sync[t].open
        /\ \A o \in Orders : submission[o] # "sent"

\* A terminal status comes with the final number of shares.
Exact(o, status, shares) == status \in Terminal => shares = filled[o]

\* An answer that may be applied to row i: it does not take back a terminal status.
Fits(i, answer) ==
    /\ Exact(trades[i].order, answer.status, answer.filled)
    /\ trades[i].status \in Terminal => answer.status \in {"UNKNOWN", trades[i].status}

\* A write that turns row i, as it is now, into something that is exact and no
\* step back.
Advances(i, w) ==
    /\ w.row = i
    /\ "status" \notin w.cols => w.status = trades[i].status
    /\ "filled" \notin w.cols => w.filled = trades[i].filled
    /\ w.filled >= trades[i].filled
    /\ Exact(trades[i].order, w.status, w.filled)
    /\ trades[i].status \in Terminal => w.status = trades[i].status

PollExact(p) ==
    /\ poll[p].at = "reload" => Fits(poll[p].row, poll[p].answer)
    /\ poll[p].at = "commit" => Advances(poll[p].row, poll[p].write)

\* A sync has one item for an order, matched with its row at most once, and
\* inserts only orders that no row and no submission under way stands for.
ItemsExact(s) ==
    /\ \A item \in sync[s].todo \cup sync[s].inserts :
        /\ submission[item[1]] \notin {"none", "sent"}
        /\ Exact(item[1], item[2].status, item[2].filled)
    /\ \A item, other \in sync[s].todo \cup sync[s].inserts :
        item[1] = other[1] => item = other
    /\ \A item \in sync[s].todo, i \in Rows :
        trades[i].order = item[1] => Fits(i, item[2])
    /\ \A item \in sync[s].inserts, i \in Rows : trades[i].order # item[1]

UpdatesExact(s) ==
    \A w \in sync[s].updates :
        /\ Advances(w.row, w)
        /\ \A item \in sync[s].todo : trades[w.row].order # item[1]

SyncExact(s) == ItemsExact(s) /\ UpdatesExact(s)

RowExact(i) == Exact(trades[i].order, trades[i].status, trades[i].filled)

PollsExact == \A p \in Pollers : PollExact(p)
SyncsExact == \A s \in Syncs : SyncExact(s)
RowsExact == \A i \in Rows : RowExact(i)

\* Nothing stands for an order that is not recorded yet.
Unrecorded == \A o \in Orders : submission[o] \in {"none", "sent"} => RowsOf(o) = {}

SerialInv ==
    /\ TruthInv /\ BrokerFinal /\ InTurn /\ PollsExact /\ SyncsExact /\ RowsExact
    /\ Unrecorded /\ OneRowPerOrder

\* The broker leaves an order alone once it has ended.
EndsStay ==
    \A o \in Orders : filled[o] = Qty \/ o \in canceled => filled'[o] = filled[o]

LEMMA ExactStays ==
    ASSUME EndsStay, NEW o \in Orders, NEW status, NEW shares,
           True(o, status, shares), Exact(o, status, shares)
    PROVE  status \in Terminal => shares = filled'[o]
BY DEF EndsStay, True, Exact, Terminal

LEMMA PollExactStays ==
    ASSUME SerialInv, EndsStay, NEW p \in Pollers, poll'[p] = poll[p],
           poll[p].at \in {"reload", "commit"} => trades'[poll[p].row] = trades[poll[p].row]
    PROVE  PollExact(p)'
<1> DEFINE i == poll[p].row
<1>1. CASE poll[p].at \notin {"reload", "commit"}
    BY <1>1 DEF PollExact
<1>2. CASE poll[p].at = "reload"
  <2>1. trades[i].order \in Orders /\ trades'[i] = trades[i]
    BY <1>2, RowType DEF SerialInv, TruthInv, TrackerType, TypeOK
  <2>2. /\ True(trades[i].order, poll[p].answer.status, poll[p].answer.filled)
        /\ Fits(i, poll[p].answer)
    BY <1>2 DEF SerialInv, TruthInv, PollsTrue, PollTrue, PollsExact, PollExact
  <2>3. poll[p].answer.status \in Terminal => poll[p].answer.filled = filled'[trades[i].order]
    BY <2>1, <2>2, ExactStays DEF Fits
  <2> QED
    BY <1>2, <2>1, <2>2, <2>3 DEF PollExact, Fits, Exact
<1>3. CASE poll[p].at = "commit"
  <2>1. trades[i].order \in Orders /\ trades'[i] = trades[i]
    BY <1>3, RowType DEF SerialInv, TruthInv, TrackerType, TypeOK
  <2>2. /\ True(trades[i].order, poll[p].write.status, poll[p].write.filled)
        /\ Advances(i, poll[p].write)
    BY <1>3 DEF SerialInv, TruthInv, PollsTrue, PollTrue, PollsExact, PollExact
  <2>3. poll[p].write.status \in Terminal => poll[p].write.filled = filled'[trades[i].order]
    BY <2>1, <2>2, ExactStays DEF Advances
  <2> QED
    BY <1>3, <2>1, <2>2, <2>3 DEF PollExact, Advances, Exact
<1> QED
    BY <1>1, <1>2, <1>3

LEMMA SyncExactStays ==
    ASSUME SerialInv, EndsStay, NEW s \in Syncs, sync'[s] = sync[s], trades' = trades,
           \A o \in Orders : submission'[o] \in {"none", "sent"} =>
                                submission[o] \in {"none", "sent"}
    PROVE  SyncExact(s)'
<1>1. /\ sync[s] \in Sync /\ TypeOK /\ Rows' = Rows
      /\ \A w \in sync[s].updates : w.row \in Rows
    BY DEF SerialInv, TruthInv, TrackerType, TypeOK, Rows
<1>2. /\ \A item \in sync[s].todo \cup sync[s].inserts :
            True(item[1], item[2].status, item[2].filled)
      /\ \A w \in sync[s].updates : True(trades[w.row].order, w.status, w.filled)
      /\ ItemsExact(s) /\ UpdatesExact(s)
    BY DEF SerialInv, TruthInv, SyncsTrue, SyncTrue, SyncsExact, SyncExact
<1>3. \A item \in sync[s].todo \cup sync[s].inserts :
        /\ submission'[item[1]] \notin {"none", "sent"}
        /\ item[2].status \in Terminal => item[2].filled = filled'[item[1]]
  <2> SUFFICES ASSUME NEW item \in sync[s].todo \cup sync[s].inserts
               PROVE  /\ submission'[item[1]] \notin {"none", "sent"}
                      /\ item[2].status \in Terminal => item[2].filled = filled'[item[1]]
    OBVIOUS
  <2>1. item[1] \in Orders
    BY <1>1 DEF Sync
  <2> QED
    BY <1>2, <2>1, ExactStays DEF ItemsExact
<1>4. \A w \in sync[s].updates :
        w.status \in Terminal => w.filled = filled'[trades[w.row].order]
  <2> SUFFICES ASSUME NEW w \in sync[s].updates
               PROVE  w.status \in Terminal => w.filled = filled'[trades[w.row].order]
    OBVIOUS
  <2>1. trades[w.row].order \in Orders
    BY <1>1, RowType
  <2> QED
    BY <1>2, <2>1, ExactStays DEF UpdatesExact, Advances
<1>5. ItemsExact(s)'
    BY <1>1, <1>2, <1>3 DEF ItemsExact, Fits, Exact
<1>6. UpdatesExact(s)'
    BY <1>2, <1>4 DEF UpdatesExact, Advances, Exact
<1> QED
    BY <1>5, <1>6 DEF SyncExact

LEMMA RowExactStays ==
    ASSUME SerialInv, EndsStay, NEW i \in Rows, trades'[i] = trades[i]
    PROVE  RowExact(i)'
<1>1. trades[i].order \in Orders
    BY RowType DEF SerialInv, TruthInv, TrackerType
<1>2. True(trades[i].order, trades[i].status, trades[i].filled)
    BY DEF SerialInv, TruthInv, RowsTrue, RowTrue
<1>3. Exact(trades[i].order, trades[i].status, trades[i].filled)
    BY DEF SerialInv, RowsExact, RowExact
<1>4. trades[i].status \in Terminal => trades[i].filled = filled'[trades[i].order]
    BY <1>1, <1>2, <1>3, ExactStays
<1> QED
    BY <1>4 DEF RowExact, Exact

LEMMA ClosedSyncExact ==
    ASSUME NEW s \in Syncs, sync'[s] = NoJob
    PROVE  SyncExact(s)'
BY IdleType DEF SyncExact, ItemsExact, UpdatesExact

\* What is left to show of a step.
LEMMA SerialKept ==
    ASSUME SerialInv, TruthInv', EndsStay, BrokerFinal', InTurn', Unrecorded', OneRowPerOrder',
           \A p \in Pollers :
              \/ /\ poll'[p] = poll[p]
                 /\ poll[p].at \in Busy => trades'[poll[p].row] = trades[poll[p].row]
              \/ PollExact(p)',
           \A s \in Syncs :
              \/ /\ sync'[s] = sync[s]
                 /\ sync[s].open =>
                      /\ trades' = trades
                      /\ \A o \in Orders : submission'[o] \in {"none", "sent"} =>
                                              submission[o] \in {"none", "sent"}
              \/ SyncExact(s)',
           \A i \in Rows' : (i \in Rows /\ trades'[i] = trades[i]) \/ RowExact(i)'
    PROVE  SerialInv'
<1>1. \A p \in Pollers : PollExact(p)'
    BY PollExactStays DEF Busy
<1>2. \A s \in Syncs : SyncExact(s)'
  <2> SUFFICES ASSUME NEW s \in Syncs, ~SyncExact(s)' PROVE FALSE
    OBVIOUS
  <2>1. sync'[s] = sync[s] /\ sync[s].open
    BY ClosedSyncExact DEF SerialInv, TruthInv, TrackerType
  <2> QED
    BY <2>1, SyncExactStays
<1>3. \A i \in Rows' : RowExact(i)'
    BY RowExactStays
<1> QED
    BY <1>1, <1>2, <1>3 DEF SerialInv, PollsExact, SyncsExact, RowsExact

\* A step that touches no row and no broker, and starts or ends nothing in between.
LEMMA SerialQuiet ==
    ASSUME SerialInv, TruthInv', UNCHANGED <<submission, filled, canceled, trades, sync>>,
           \A p \in Pollers : poll'[p] = poll[p] \/ poll'[p].at \notin Busy
    PROVE  SerialInv'
<1>1. EndsStay /\ BrokerFinal'
    BY DEF EndsStay, BrokerFinal, SerialInv
<1>2. InTurn'
    BY DEF InTurn, SerialInv
<1>3. Unrecorded' /\ OneRowPerOrder'
    BY DEF Unrecorded, OneRowPerOrder, RowsOf, Rows, SerialInv
<1>4. \A p \in Pollers : poll'[p] = poll[p] \/ PollExact(p)'
    BY DEF PollExact, Busy
<1>5. \A i \in Rows' : i \in Rows /\ trades'[i] = trades[i]
    BY DEF Rows
<1> QED
    BY <1>1, <1>2, <1>3, <1>4, <1>5, SerialKept

LEMMA SerialOutside ==
    ASSUME Serial, SerialInv, NEW o \in Orders,
           Submit(o) \/ PlaceOutside(o) \/ Fill(o) \/ Cancel(o) \/ RecordFails(o)
    PROVE  SerialInv' /\ trades' = trades
<1> USE DEF tableVars
<1>1. TruthInv'
    BY TruthOutside DEF SerialInv
<1>2. UNCHANGED <<trades, poll, sync>>
    BY DEF Submit, PlaceOutside, Fill, Cancel, RecordFails
<1>3. /\ submission \in [Orders -> {"none", "sent", "recorded", "lost", "outside"}]
      /\ filled \in [Orders -> 0..Qty] /\ canceled \subseteq Orders
    BY DEF SerialInv, TruthInv, TrackerType, TypeOK
<1>4. \A x \in Orders : submission'[x] \in {"none", "sent"} => submission[x] \in {"none", "sent"}
    BY <1>3 DEF Submit, PlaceOutside, Fill, Cancel, RecordFails
<1>5. EndsStay
  <2>1. CASE filled' = filled
    BY <2>1 DEF EndsStay
  <2>2. CASE Fill(o)
    BY <1>3, <2>2, TrackerAssumption DEF EndsStay, Fill
  <2> QED
    BY <2>1, <2>2 DEF Submit, PlaceOutside, Cancel, RecordFails
<1>6. BrokerFinal'
  <2>1. CASE UNCHANGED <<filled, canceled>>
    BY <2>1 DEF BrokerFinal, SerialInv
  <2>2. CASE Fill(o)
    BY <1>3, <2>2, TrackerAssumption DEF BrokerFinal, SerialInv, Fill
  <2>3. CASE Cancel(o)
    BY <1>3, <2>3 DEF BrokerFinal, SerialInv, Cancel
  <2> QED
    BY <2>1, <2>2, <2>3 DEF Submit, PlaceOutside, RecordFails
<1>7. InTurn'
  <2>1. ASSUME NEW s \in Syncs, sync[s].open, NEW x \in Orders PROVE submission'[x] # "sent"
    <3>1. submission[x] # "sent"
      BY <2>1 DEF SerialInv, InTurn
    <3>2. CASE Submit(o)
      BY <2>1, <3>2 DEF Submit, Serial
    <3> QED
      BY <1>3, <3>1, <3>2 DEF PlaceOutside, Fill, Cancel, RecordFails
  <2> QED
    BY <1>2, <2>1 DEF SerialInv, InTurn
<1>8. Unrecorded' /\ OneRowPerOrder'
    BY <1>2, <1>4 DEF Unrecorded, OneRowPerOrder, RowsOf, Rows, SerialInv
<1>9. \A i \in Rows' : i \in Rows /\ trades'[i] = trades[i]
    BY <1>2 DEF Rows
<1> QED
    BY <1>1, <1>2, <1>4, <1>5, <1>6, <1>7, <1>8, <1>9, SerialKept

LEMMA SerialRecord ==
    ASSUME SerialInv, NEW o \in Orders, Record(o)
    PROVE  SerialInv' /\ \A i \in Rows : trades'[i] = trades[i]
<1> DEFINE n == Len(trades) + 1
<1>1. /\ Len(trades') = n
      /\ \A i \in Rows : trades'[i] = trades[i]
      /\ trades'[n] = [order |-> o, status |-> "PENDING", filled |-> 0]
      /\ \A p \in Pollers : poll'[p] = poll[p] \/ poll'[p].at = "load"
    BY TypeRecord DEF SerialInv, TruthInv
<1>2. /\ UNCHANGED <<filled, canceled, sync>> /\ submission[o] = "sent"
      /\ submission' = [submission EXCEPT ![o] = "recorded"]
    BY DEF Record
<1>3. /\ TruthInv' /\ Len(trades) \in Nat
      /\ submission \in [Orders -> {"none", "sent", "recorded", "lost", "outside"}]
      /\ \A p \in Pollers : poll[p].at # "idle" => poll[p].row \in Rows
    BY TruthRecord DEF SerialInv, TruthInv, TrackerType, TypeOK
<1>4. \A s \in Syncs : ~sync[s].open
    BY <1>2 DEF SerialInv, InTurn
<1>5. \A i \in Rows' : i \in Rows \/ i = n
    BY <1>1, <1>3 DEF Rows
<1>6. RowsOf(o) = {}
    BY <1>2 DEF SerialInv, Unrecorded
<1>7. EndsStay /\ BrokerFinal'
    BY <1>2 DEF EndsStay, BrokerFinal, SerialInv
<1>8. InTurn'
    BY <1>1, <1>2, <1>4 DEF InTurn, SerialInv, Busy
<1>9. Unrecorded'
  <2> SUFFICES ASSUME NEW x \in Orders, submission'[x] \in {"none", "sent"},
                      NEW i \in Rows', trades'[i].order = x
               PROVE  FALSE
    BY DEF Unrecorded, RowsOf
  <2>1. x # o /\ submission[x] \in {"none", "sent"}
    BY <1>2, <1>3
  <2>2. i \in Rows /\ trades[i].order = x
    BY <1>1, <1>5, <2>1
  <2> QED
    BY <2>1, <2>2 DEF SerialInv, Unrecorded, RowsOf
<1>10. OneRowPerOrder'
  <2> SUFFICES ASSUME NEW i \in Rows', NEW j \in Rows', trades'[i].order = trades'[j].order
               PROVE  i = j
    BY DEF OneRowPerOrder
  <2>1. CASE i \in Rows /\ j \in Rows
    BY <1>1, <2>1 DEF SerialInv, OneRowPerOrder
  <2>2. CASE i \in Rows /\ j = n
    BY <1>1, <1>6, <2>2 DEF RowsOf
  <2>3. CASE i = n /\ j \in Rows
    BY <1>1, <1>6, <2>3 DEF RowsOf
  <2> QED
    BY <1>5, <2>1, <2>2, <2>3
<1>11. \A i \in Rows' : (i \in Rows /\ trades'[i] = trades[i]) \/ RowExact(i)'
    BY <1>1, <1>5 DEF RowExact, Exact, Terminal
<1>12. \A p \in Pollers :
          \/ poll'[p] = poll[p] /\ (poll[p].at \in Busy => trades'[poll[p].row] = trades[poll[p].row])
          \/ PollExact(p)'
    BY <1>1, <1>3 DEF PollExact, Busy
<1>13. SerialInv'
    BY <1>2, <1>3, <1>4, <1>7, <1>8, <1>9, <1>10, <1>11, <1>12, SerialKept
<1> QED
    BY <1>1, <1>13

\* What the broker says of an order at this moment fits every row of the order: a
\* row that claims an end is right about it.
LEMMA AnswerFits ==
    ASSUME SerialInv, NEW i \in Rows
    PROVE  Fits(i, AnswerFor(trades[i].order)) /\ Fits(i, Unknown)
<1> DEFINE o == trades[i].order
<1>1. o \in Orders /\ filled[o] \in Nat /\ Qty \in Nat
    BY RowType, TrackerAssumption DEF SerialInv, TruthInv, TrackerType
<1>2. /\ trades[i].status = "FILLED" => filled[o] = Qty
      /\ trades[i].status = "CANCELED" => o \in canceled
      /\ o \in canceled => filled[o] < Qty
    BY DEF SerialInv, TruthInv, RowsTrue, RowTrue, True, BrokerFinal
<1>3. AnswerFor(o).status = ParseStatus(o) /\ AnswerFor(o).filled = filled[o]
    BY DEF AnswerFor
<1>4. trades[i].status \in Terminal => ParseStatus(o) = trades[i].status
    BY <1>1, <1>2 DEF ParseStatus, Terminal
<1> QED
    BY <1>3, <1>4 DEF Fits, Exact, Unknown, Terminal

\* An answer that fits is turned into a write that advances the row.
LEMMA AppliedAdvances ==
    ASSUME SerialInv, NEW i \in Rows, NEW answer \in Answer, Fits(i, answer),
           True(trades[i].order, answer.status, answer.filled)
    PROVE  Advances(i, Applied(i, answer))
<1> DEFINE w == Applied(i, answer)
<1>1. /\ w.row = i
      /\ "status" \notin w.cols => w.status = trades[i].status
      /\ "filled" \notin w.cols => w.filled = trades[i].filled
      /\ w.filled >= trades[i].filled
      /\ w.status = IF answer.status = "UNKNOWN" THEN trades[i].status ELSE answer.status
      /\ w.filled = IF answer.status = "UNKNOWN" \/ answer.filled <= trades[i].filled
                    THEN trades[i].filled ELSE answer.filled
    BY AppliedWrites DEF SerialInv, TruthInv, TrackerType, TypeOK
<1> HIDE DEF w
<1>2. trades[i].filled \in Nat /\ filled[trades[i].order] \in Nat /\ answer.filled \in Nat
    BY RowType, TrackerAssumption DEF SerialInv, TruthInv, TrackerType, Answer
<1>3. /\ trades[i].filled <= filled[trades[i].order]
      /\ trades[i].status \in Terminal => trades[i].filled = filled[trades[i].order]
    BY DEF SerialInv, TruthInv, RowsTrue, RowTrue, True, RowsExact, RowExact, Exact
<1>4. /\ answer.status \in Terminal => answer.filled = filled[trades[i].order]
      /\ trades[i].status \in Terminal => answer.status \in {"UNKNOWN", trades[i].status}
    BY DEF Fits, Exact
<1>5. w.status \in Terminal => w.filled = filled[trades[i].order]
    BY <1>1, <1>2, <1>3, <1>4
<1>6. trades[i].status \in Terminal => w.status = trades[i].status
    BY <1>1, <1>4
<1>7. Advances(i, w)
    BY <1>1, <1>5, <1>6 DEF Advances, Exact
<1> QED
    BY <1>7 DEF w

LEMMA SerialLoad ==
    ASSUME Serial, SerialInv, NEW p \in Pollers, Load(p)
    PROVE  SerialInv'
<1> USE DEF brokerVars, tableVars
<1>1. /\ TruthInv' /\ poll \in [Pollers -> Poll]
      /\ UNCHANGED <<submission, filled, canceled, trades, sync>>
    BY TruthNext DEF SerialInv, TruthInv, TrackerType, TypeOK, Next, PollStep, Load
<1>2. CASE poll' = [poll EXCEPT ![p] = Idle]
    BY <1>1, <1>2, IdleType, SerialQuiet DEF Busy
<1>3. CASE poll' = [poll EXCEPT ![p] = [poll[p] EXCEPT !.at = "ask"]]
  <2>1. /\ poll'[p].at = "ask" /\ poll'[p].row = poll[p].row
        /\ \A q \in Pollers \ {p} : poll'[q] = poll[q]
    BY <1>1, <1>3 DEF Poll
  <2>2. /\ \A q \in Pollers \ {p} : poll[q].at \in Busy => poll[q].row # poll[p].row
        /\ \A s \in Syncs : ~sync[s].open
    BY DEF Load, Undisturbed, Serial
  <2>3. EndsStay /\ BrokerFinal'
    BY <1>1 DEF EndsStay, BrokerFinal, SerialInv
  <2>4. InTurn'
    BY <1>1, <2>1, <2>2 DEF InTurn, SerialInv
  <2>5. Unrecorded' /\ OneRowPerOrder'
    BY <1>1 DEF Unrecorded, OneRowPerOrder, RowsOf, Rows, SerialInv
  <2>6. \A q \in Pollers : poll'[q] = poll[q] \/ PollExact(q)'
    BY <2>1 DEF PollExact
  <2>7. \A i \in Rows' : i \in Rows /\ trades'[i] = trades[i]
    BY <1>1 DEF Rows
  <2> QED
    BY <1>1, <2>3, <2>4, <2>5, <2>6, <2>7, SerialKept
<1> QED
    BY <1>2, <1>3, TypeLoad DEF SerialInv, TruthInv

\* A poller that goes on with the row it is at.
LEMMA SerialBusy ==
    ASSUME SerialInv, TruthInv', UNCHANGED <<submission, filled, canceled, trades, sync>>,
           NEW p \in Pollers, poll[p].at \in Busy, poll'[p].at \in Busy,
           poll'[p].row = poll[p].row, PollExact(p)',
           \A q \in Pollers \ {p} : poll'[q] = poll[q]
    PROVE  SerialInv'
<1>1. EndsStay /\ BrokerFinal'
    BY DEF EndsStay, BrokerFinal, SerialInv
<1>2. InTurn'
    BY DEF InTurn, SerialInv
<1>3. Unrecorded' /\ OneRowPerOrder'
    BY DEF Unrecorded, OneRowPerOrder, RowsOf, Rows, SerialInv
<1>4. \A i \in Rows' : i \in Rows /\ trades'[i] = trades[i]
    BY DEF Rows
<1> QED
    BY <1>1, <1>2, <1>3, <1>4, SerialKept

LEMMA SerialAsk ==
    ASSUME SerialInv, NEW p \in Pollers, Ask(p)
    PROVE  SerialInv'
<1> USE DEF brokerVars, tableVars
<1> DEFINE i == poll[p].row
<1>1. /\ TruthInv' /\ poll \in [Pollers -> Poll] /\ poll[p].at = "ask" /\ i \in Rows
      /\ UNCHANGED <<submission, filled, canceled, trades, sync>>
    BY TruthAsk DEF SerialInv, TruthInv, TrackerType, TypeOK, Ask
<1>2. PICK a \in {AnswerFor(trades[i].order), Unknown} :
            poll' = [poll EXCEPT ![p] = [poll[p] EXCEPT !.at = "reload", !.answer = a]]
    BY TypeAsk DEF SerialInv, TruthInv
<1>3. Fits(i, a)
    BY <1>1, <1>2, AnswerFits
<1>4. /\ poll'[p].at = "reload" /\ poll'[p].row = poll[p].row /\ poll'[p].answer = a
      /\ \A q \in Pollers \ {p} : poll'[q] = poll[q]
    BY <1>1, <1>2 DEF Poll
<1>5. PollExact(p)'
    BY <1>1, <1>3, <1>4 DEF PollExact, Fits, Exact
<1> QED
    BY <1>1, <1>4, <1>5, SerialBusy DEF Busy

LEMMA SerialReload ==
    ASSUME SerialInv, NEW p \in Pollers, Reload(p)
    PROVE  SerialInv'
<1> USE DEF brokerVars, tableVars
<1> DEFINE i == poll[p].row
           w == Applied(i, poll[p].answer)
<1>1. /\ TruthInv' /\ poll \in [Pollers -> Poll] /\ poll[p].at = "reload" /\ i \in Rows
      /\ UNCHANGED <<submission, filled, canceled, trades, sync>>
    BY TruthReload DEF SerialInv, TruthInv, TrackerType, TypeOK, Reload
<1>2. poll' = [poll EXCEPT ![p] = [poll[p] EXCEPT
                          !.at = "commit", !.answer = Unknown, !.write = w]]
    BY TypeReload DEF SerialInv, TruthInv
<1>3. /\ Fits(i, poll[p].answer)
      /\ True(trades[i].order, poll[p].answer.status, poll[p].answer.filled)
    BY <1>1 DEF SerialInv, PollsExact, PollExact, TruthInv, PollsTrue, PollTrue
<1>4. Advances(i, w)
    BY <1>1, <1>3, AppliedAdvances DEF Poll
<1> HIDE DEF w
<1>5. /\ poll'[p].at = "commit" /\ poll'[p].row = poll[p].row /\ poll'[p].write = w
      /\ \A q \in Pollers \ {p} : poll'[q] = poll[q]
    BY <1>1, <1>2 DEF Poll
<1>6. PollExact(p)'
    BY <1>1, <1>4, <1>5 DEF PollExact, Advances, Exact
<1> QED
    BY <1>1, <1>5, <1>6, SerialBusy DEF Busy

\* A write that advances its row leaves it exact, and no step behind.
LEMMA WrittenExact ==
    ASSUME SerialInv, UNCHANGED filled, NEW i \in Rows,
           NEW w \in Write, Advances(i, w), trades'[i] = Flushed(trades, w)[i]
    PROVE  /\ RowExact(i)'
           /\ trades'[i].filled >= trades[i].filled
           /\ trades[i].status \in Terminal => trades'[i].status = trades[i].status
<1>1. trades \in Seq(Row) /\ i \in 1..Len(trades) /\ w.row = i
    BY DEF SerialInv, TruthInv, TrackerType, TypeOK, Rows, Advances
<1>2. /\ trades'[i].order = trades[i].order
      /\ trades'[i].status = IF "status" \in w.cols THEN w.status ELSE trades[i].status
      /\ trades'[i].filled = IF "filled" \in w.cols THEN w.filled ELSE trades[i].filled
    BY <1>1, FlushedRows
<1>3. trades'[i].status = w.status /\ trades'[i].filled = w.filled
    BY <1>2 DEF Advances
<1> QED
    BY <1>2, <1>3 DEF RowExact, Exact, Advances

\* What a step may do to the rows that are there.
Advance ==
    \A i \in Rows :
        /\ trades'[i].filled >= trades[i].filled
        /\ trades[i].status \in Terminal => trades'[i].status = trades[i].status

LEMMA KeptAdvances ==
    ASSUME SerialInv, \A i \in Rows : trades'[i] = trades[i]
    PROVE  Advance
<1>1. \A i \in Rows : trades[i].filled \in Nat
    BY RowType DEF SerialInv, TruthInv, TrackerType
<1> QED
    BY <1>1 DEF Advance

LEMMA SerialCommit ==
    ASSUME SerialInv, NEW p \in Pollers, Commit(p)
    PROVE  SerialInv' /\ Advance
<1> USE DEF brokerVars
<1> DEFINE i == poll[p].row
           w == poll[p].write
<1>1. /\ RowsStay /\ Rows' = Rows /\ w \in Write /\ w.row = i /\ i \in Rows
      /\ trades' = Flushed(trades, w)
      /\ \A q \in Pollers \ {p} : poll'[q] = poll[q]
      /\ poll'[p].at \in {"idle", "sleep"}
    BY TypeCommit DEF SerialInv, TruthInv
<1>2. UNCHANGED <<submission, filled, canceled, sync>> /\ poll[p].at = "commit"
    BY DEF Commit
<1>3. TruthInv' /\ trades \in Seq(Row)
    BY TruthCommit DEF SerialInv, TruthInv, TrackerType, TypeOK
<1>4. Advances(i, w)
    BY <1>2 DEF SerialInv, PollsExact, PollExact
<1> HIDE DEF w, i
<1>5. \A k \in Rows : k # i => trades'[k] = trades[k]
    BY <1>1, <1>3, FlushedRows DEF Rows
<1>6. ASSUME NEW k \in Rows, k = i
      PROVE  /\ RowExact(k)' /\ trades'[k].filled >= trades[k].filled
             /\ trades[k].status \in Terminal => trades'[k].status = trades[k].status
    BY <1>6, <1>1, <1>2, <1>4, WrittenExact
<1>7. \A q \in Pollers \ {p} : poll[q].at \in Busy => poll[q].row # i
    BY <1>2 DEF SerialInv, InTurn, Busy, i
<1>8. \A s \in Syncs : ~sync[s].open
    BY <1>2 DEF SerialInv, InTurn, Busy
<1>9. EndsStay /\ BrokerFinal'
    BY <1>2 DEF EndsStay, BrokerFinal, SerialInv
<1>10. InTurn'
    BY <1>1, <1>2 DEF InTurn, SerialInv, Busy
<1>11. Unrecorded' /\ OneRowPerOrder'
    BY <1>1, <1>2 DEF Unrecorded, OneRowPerOrder, RowsOf, RowsStay, SerialInv
<1>12. \A q \in Pollers :
          \/ poll'[q] = poll[q] /\ (poll[q].at \in Busy => trades'[poll[q].row] = trades[poll[q].row])
          \/ PollExact(q)'
  <2>1. PollExact(p)'
    BY <1>1 DEF PollExact
  <2>2. ASSUME NEW q \in Pollers \ {p}, poll[q].at \in Busy
        PROVE  trades'[poll[q].row] = trades[poll[q].row]
    <3>1. poll[q].row \in Rows
      BY <2>2 DEF SerialInv, TruthInv, TrackerType, TypeOK, Busy
    <3> QED
      BY <1>5, <1>7, <2>2, <3>1
  <2> QED
    BY <1>1, <2>1, <2>2
<1>13. \A k \in Rows' : (k \in Rows /\ trades'[k] = trades[k]) \/ RowExact(k)'
  <2> SUFFICES ASSUME NEW k \in Rows', trades'[k] # trades[k] PROVE RowExact(k)'
    BY <1>1
  <2>1. k = i /\ k \in Rows
    BY <1>1, <1>5
  <2> QED
    BY <1>6, <2>1
<1>14. SerialInv'
    BY <1>2, <1>3, <1>8, <1>9, <1>10, <1>11, <1>12, <1>13, SerialKept
<1>15. \A k \in Rows : trades[k].filled \in Nat
    BY RowType DEF SerialInv, TruthInv, TrackerType
<1> QED
    BY <1>5, <1>6, <1>14, <1>15 DEF Advance

LEMMA SerialList ==
    ASSUME Serial, SerialInv, NEW s \in Syncs, List(s)
    PROVE  SerialInv'
<1> USE DEF brokerVars, tableVars
<1> DEFINE items == {<<o, AnswerFor(o)>> : o \in Listed(s)}
<1>1. /\ TruthInv' /\ Listed(s) \subseteq Placed
      /\ sync' = [sync EXCEPT ![s] = [NoJob EXCEPT !.open = TRUE, !.todo = items]]
    BY TruthList, TypeList DEF SerialInv, TruthInv
<1>2. UNCHANGED <<submission, filled, canceled, trades, poll>> /\ sync \in [Syncs -> Sync]
    BY DEF List, SerialInv, TruthInv, TrackerType, TypeOK
<1>3. /\ \A o \in Orders : submission[o] # "sent"
      /\ \A p \in Pollers : poll[p].at \notin Busy
      /\ \A t \in Syncs : ~sync[t].open
    BY DEF List, Serial
<1>4. /\ \A item \in items :
            /\ item[1] \in Orders /\ submission[item[1]] \notin {"none", "sent"}
            /\ item[2] = AnswerFor(item[1])
      /\ \A item, other \in items : item[1] = other[1] => item = other
    BY <1>1, <1>3 DEF Placed
<1> HIDE DEF items
<1>5. /\ sync'[s].todo = items /\ sync'[s].inserts = {} /\ sync'[s].updates = {} /\ sync'[s].open
      /\ \A t \in Syncs \ {s} : sync'[t] = sync[t]
    BY <1>1, <1>2, IdleType DEF Sync
<1>6. ItemsExact(s)'
  <2>1. \A item \in items : Exact(item[1], item[2].status, item[2].filled)
    <3>1. \A o \in Orders : AnswerFor(o).filled = filled[o]
      BY DEF AnswerFor
    <3> QED
      BY <1>4, <3>1 DEF Exact
  <2>2. \A item \in items, i \in Rows : trades[i].order = item[1] => Fits(i, item[2])
    BY <1>4, AnswerFits
  <2>3. Rows' = Rows
    BY <1>2 DEF Rows
  <2> QED
    BY <1>2, <1>4, <1>5, <2>1, <2>2, <2>3 DEF ItemsExact, Fits, Exact
<1>7. SyncExact(s)'
    BY <1>5, <1>6 DEF SyncExact, UpdatesExact
<1>8. EndsStay /\ BrokerFinal'
    BY <1>2 DEF EndsStay, BrokerFinal, SerialInv
<1>9. InTurn'
    BY <1>2, <1>3, <1>5 DEF InTurn, SerialInv
<1>10. Unrecorded' /\ OneRowPerOrder'
    BY <1>2 DEF Unrecorded, OneRowPerOrder, RowsOf, Rows, SerialInv
<1>11. \A i \in Rows' : i \in Rows /\ trades'[i] = trades[i]
    BY <1>2 DEF Rows
<1> QED
    BY <1>1, <1>2, <1>3, <1>5, <1>7, <1>8, <1>9, <1>10, <1>11, SerialKept

\* A sync that goes on with its items.
LEMMA SerialSync ==
    ASSUME SerialInv, TruthInv', UNCHANGED <<submission, filled, canceled, trades, poll>>,
           NEW s \in Syncs, sync[s].open, SyncExact(s)', sync'[s].open,
           \A t \in Syncs \ {s} : sync'[t] = sync[t]
    PROVE  SerialInv'
<1>1. EndsStay /\ BrokerFinal'
    BY DEF EndsStay, BrokerFinal, SerialInv
<1>2. InTurn'
    BY DEF InTurn, SerialInv
<1>3. Unrecorded' /\ OneRowPerOrder'
    BY DEF Unrecorded, OneRowPerOrder, RowsOf, Rows, SerialInv
<1>4. \A i \in Rows' : i \in Rows /\ trades'[i] = trades[i]
    BY DEF Rows
<1> QED
    BY <1>1, <1>2, <1>3, <1>4, SerialKept

LEMMA SerialMatch ==
    ASSUME SerialInv, NEW s \in Syncs, NEW item \in sync[s].todo, Match(s, item)
    PROVE  SerialInv'
<1> USE DEF brokerVars, tableVars
<1>1. /\ TruthInv' /\ sync[s] \in Sync /\ sync[s].open
      /\ item[1] \in Orders /\ item[2] \in Answer /\ sync \in [Syncs -> Sync]
      /\ \/ \E i \in RowsOf(item[1]) :
               sync' = [sync EXCEPT ![s] = [sync[s] EXCEPT
                  !.todo = sync[s].todo \ {item},
                  !.updates = sync[s].updates \cup {Applied(i, item[2])}]]
         \/ /\ RowsOf(item[1]) = {}
            /\ sync' = [sync EXCEPT ![s] = [sync[s] EXCEPT
                  !.todo = sync[s].todo \ {item},
                  !.inserts = sync[s].inserts \cup {item}]]
    BY TruthMatch, TypeMatch DEF SerialInv, TruthInv, TrackerType, TypeOK
<1>2. UNCHANGED <<submission, filled, canceled, trades, poll>> /\ Rows' = Rows
    BY DEF Match, Rows
<1>3. /\ ItemsExact(s) /\ UpdatesExact(s)
      /\ \A told \in sync[s].todo : True(told[1], told[2].status, told[2].filled)
    BY DEF SerialInv, SyncsExact, SyncExact, TruthInv, SyncsTrue, SyncTrue
<1>4. CASE \E i \in RowsOf(item[1]) :
               sync' = [sync EXCEPT ![s] = [sync[s] EXCEPT
                  !.todo = sync[s].todo \ {item},
                  !.updates = sync[s].updates \cup {Applied(i, item[2])}]]
  <2>1. PICK i \in RowsOf(item[1]) :
               sync' = [sync EXCEPT ![s] = [sync[s] EXCEPT
                  !.todo = sync[s].todo \ {item},
                  !.updates = sync[s].updates \cup {Applied(i, item[2])}]]
    BY <1>4
  <2> DEFINE w == Applied(i, item[2])
  <2>2. i \in Rows /\ trades[i].order = item[1]
    BY DEF RowsOf
  <2>3. Fits(i, item[2]) /\ True(trades[i].order, item[2].status, item[2].filled)
    BY <1>3, <2>2 DEF ItemsExact
  <2>4. Advances(i, w)
    BY <1>1, <2>2, <2>3, AppliedAdvances
  <2>5. /\ sync'[s].todo = sync[s].todo \ {item} /\ sync'[s].inserts = sync[s].inserts
        /\ sync'[s].updates = sync[s].updates \cup {w} /\ sync'[s].open
        /\ \A t \in Syncs \ {s} : sync'[t] = sync[t]
    BY <1>1, <2>1 DEF Sync
  <2> HIDE DEF w
  <2>6. ItemsExact(s)'
    BY <1>2, <1>3, <2>5 DEF ItemsExact, Fits, Exact
  <2>7. \A other \in sync[s].todo \ {item} : trades[i].order # other[1]
    BY <1>3, <2>2 DEF ItemsExact
  <2>8. w.row = i /\ Advances(w.row, w)
    BY <2>4 DEF Advances
  <2>9. \A v \in sync[s].updates \cup {w} :
            /\ Advances(v.row, v)
            /\ \A other \in sync[s].todo \ {item} : trades[v.row].order # other[1]
    BY <1>3, <2>7, <2>8 DEF UpdatesExact
  <2>10. UpdatesExact(s)'
    BY <1>2, <2>5, <2>9 DEF UpdatesExact, Advances, Exact
  <2> QED
    BY <1>1, <1>2, <2>5, <2>6, <2>10, SerialSync DEF SyncExact
<1>5. CASE /\ RowsOf(item[1]) = {}
           /\ sync' = [sync EXCEPT ![s] = [sync[s] EXCEPT
                  !.todo = sync[s].todo \ {item},
                  !.inserts = sync[s].inserts \cup {item}]]
  <2>1. /\ sync'[s].todo = sync[s].todo \ {item} /\ sync'[s].updates = sync[s].updates
        /\ sync'[s].inserts = sync[s].inserts \cup {item} /\ sync'[s].open
        /\ \A t \in Syncs \ {s} : sync'[t] = sync[t]
    BY <1>1, <1>5 DEF Sync
  <2>2. \A i \in Rows : trades[i].order # item[1]
    BY <1>5 DEF RowsOf
  <2>3. ItemsExact(s)'
    BY <1>2, <1>3, <2>1, <2>2 DEF ItemsExact, Fits, Exact
  <2>4. UpdatesExact(s)'
    BY <1>2, <1>3, <2>1 DEF UpdatesExact, Advances, Exact
  <2> QED
    BY <1>1, <1>2, <2>1, <2>3, <2>4, SerialSync DEF SyncExact
<1> QED
    BY <1>1, <1>4, <1>5

LEMMA SerialCommitSync ==
    ASSUME SerialInv, NEW s \in Syncs, CommitSync(s)
    PROVE  SerialInv' /\ Advance
<1> USE DEF brokerVars
<1> DEFINE n == Len(trades)
<1>1. /\ RowsStay /\ sync' = [sync EXCEPT ![s] = NoJob] /\ sync[s] \in Sync
      /\ \A i \in Rows :
           \/ trades'[i] = trades[i]
           \/ \E w \in sync[s].updates :
                 w \in Write /\ w.row = i /\ trades'[i] = Flushed(trades, w)[i]
      /\ \E new \in SetToSeqs(sync[s].inserts) :
           /\ new \in Seq(Orders \X Answer)
           /\ Len(trades') = n + Len(new)
           /\ \A i \in DOMAIN new :
                trades'[n + i] =
                   [order |-> new[i][1], status |-> new[i][2].status, filled |-> new[i][2].filled]
    BY TypeCommitSync DEF SerialInv, TruthInv
<1>2. PICK new \in SetToSeqs(sync[s].inserts) :
           /\ new \in Seq(Orders \X Answer)
           /\ Len(trades') = n + Len(new)
           /\ \A i \in DOMAIN new :
                trades'[n + i] =
                   [order |-> new[i][1], status |-> new[i][2].status, filled |-> new[i][2].filled]
    BY <1>1
<1>3. UNCHANGED <<submission, filled, canceled, poll>> /\ sync[s].open
    BY DEF CommitSync
<1>4. /\ TruthInv' /\ n \in Nat /\ IsFiniteSet(sync[s].inserts) /\ sync \in [Syncs -> Sync]
    BY TruthCommitSync DEF SerialInv, TruthInv, TrackerType, TypeOK
<1>5. /\ new \in Seq(sync[s].inserts) /\ Len(new) \in Nat /\ DOMAIN new = 1..Len(new)
      /\ \A i, j \in 1..Len(new) : new[i] = new[j] => i = j
      /\ \A i \in 1..Len(new) : new[i] \in sync[s].inserts
  <2>1. /\ new \in Seq(sync[s].inserts) /\ Len(new) \in Nat /\ DOMAIN new = 1..Len(new)
        /\ \A i, j \in 1..Len(new) : new[i] = new[j] => i = j
    BY <1>4, InsertionOrders
  <2> QED
    BY <2>1, ElementOfSeq
<1>6. ItemsExact(s) /\ UpdatesExact(s)
    BY DEF SerialInv, SyncsExact, SyncExact
<1>7. /\ \A t \in Syncs \ {s} : ~sync[t].open
      /\ \A p \in Pollers : poll[p].at \notin Busy
    BY <1>3 DEF SerialInv, InTurn
<1>8. sync'[s] = NoJob /\ \A t \in Syncs \ {s} : sync'[t] = sync[t]
    BY <1>1, <1>4
<1>9. ASSUME NEW i \in Rows
      PROVE  /\ trades'[i] = trades[i] \/ RowExact(i)'
             /\ trades'[i].filled >= trades[i].filled
             /\ trades[i].status \in Terminal => trades'[i].status = trades[i].status
  <2>1. CASE trades'[i] = trades[i]
    <3>1. trades[i].filled \in Nat
      BY RowType DEF SerialInv, TruthInv, TrackerType
    <3> QED
      BY <2>1, <3>1
  <2>2. CASE \E w \in sync[s].updates :
                w \in Write /\ w.row = i /\ trades'[i] = Flushed(trades, w)[i]
    <3>1. PICK w \in sync[s].updates :
                w \in Write /\ w.row = i /\ trades'[i] = Flushed(trades, w)[i]
      BY <2>2
    <3>2. Advances(i, w)
      BY <1>6, <3>1 DEF UpdatesExact
    <3> QED
      BY <1>3, <3>1, <3>2, WrittenExact
  <2> QED
    BY <1>1, <2>1, <2>2
<1>10. ASSUME NEW i \in Rows', i \notin Rows
       PROVE  \E k \in 1..Len(new) : i = n + k /\ trades'[i].order = new[k][1] /\ RowExact(i)'
  <2>1. i \in 1..(n + Len(new)) /\ i \notin 1..n
    BY <1>2, <1>10 DEF Rows
  <2>2. i - n \in 1..Len(new) /\ i = n + (i - n)
    BY <1>4, <1>5, <2>1
  <2>3. PICK k \in 1..Len(new) : i = n + k
    BY <2>2
  <2>4. trades'[i] = [order |-> new[k][1], status |-> new[k][2].status, filled |-> new[k][2].filled]
    BY <1>2, <1>5, <2>3
  <2>5. Exact(new[k][1], new[k][2].status, new[k][2].filled)
    BY <1>5, <1>6 DEF ItemsExact
  <2> QED
    BY <1>3, <2>3, <2>4, <2>5 DEF RowExact, Exact
<1> HIDE DEF n
<1>11. OneRowPerOrder'
  <2> SUFFICES ASSUME NEW i \in Rows', NEW j \in Rows', trades'[i].order = trades'[j].order
               PROVE  i = j
    BY DEF OneRowPerOrder
  <2>1. \A k \in 1..Len(new), x \in Rows : trades'[x].order # new[k][1]
    BY <1>1, <1>5, <1>6 DEF ItemsExact, RowsStay
  <2>2. \A k, l \in 1..Len(new) : new[k][1] = new[l][1] => k = l
    BY <1>5, <1>6 DEF ItemsExact
  <2>3. CASE i \in Rows /\ j \in Rows
    BY <1>1, <2>3 DEF SerialInv, OneRowPerOrder, RowsStay
  <2>4. CASE i \notin Rows
    BY <1>10, <2>1, <2>2, <2>4
  <2>5. CASE j \notin Rows
    BY <1>10, <2>1, <2>2, <2>5
  <2> QED
    BY <2>3, <2>4, <2>5
<1>12. Unrecorded'
  <2> SUFFICES ASSUME NEW x \in Orders, submission[x] \in {"none", "sent"},
                      NEW i \in Rows', trades'[i].order = x
               PROVE  FALSE
    BY <1>3 DEF Unrecorded, RowsOf
  <2>1. CASE i \in Rows
    BY <1>1, <2>1 DEF SerialInv, Unrecorded, RowsOf, RowsStay
  <2>2. CASE i \notin Rows
    BY <1>5, <1>6, <1>10, <2>2 DEF ItemsExact
  <2> QED
    BY <2>1, <2>2
<1>13. EndsStay /\ BrokerFinal'
    BY <1>3 DEF EndsStay, BrokerFinal, SerialInv
<1>14. InTurn'
    BY <1>3, <1>7, <1>8, IdleType DEF InTurn, SerialInv
<1>15. \A t \in Syncs : (sync'[t] = sync[t] /\ ~sync[t].open) \/ SyncExact(t)'
    BY <1>7, <1>8, ClosedSyncExact
<1>16. SerialInv'
    BY <1>3, <1>4, <1>7, <1>9, <1>10, <1>11, <1>12, <1>13, <1>14, <1>15, SerialKept
<1> QED
    BY <1>9, <1>16 DEF Advance

LEMMA SerialRestart ==
    ASSUME SerialInv, Restart
    PROVE  SerialInv'
<1> USE DEF tableVars
<1>1. UNCHANGED <<filled, canceled, trades>>
    BY DEF Restart
<1>2. /\ \A p \in Pollers : poll'[p].at = "idle"
      /\ \A s \in Syncs : sync'[s] = NoJob
      /\ \A o \in Orders : submission'[o] \in {"none", "sent"} => submission[o] \in {"none", "sent"}
    BY IdleType DEF Restart
<1>3. TruthInv'
    BY TruthNext DEF SerialInv, Next
<1>4. EndsStay /\ BrokerFinal'
    BY <1>1 DEF EndsStay, BrokerFinal, SerialInv
<1>5. InTurn'
    BY <1>2, IdleType DEF InTurn, Busy
<1>6. Unrecorded' /\ OneRowPerOrder'
    BY <1>1, <1>2 DEF Unrecorded, OneRowPerOrder, RowsOf, Rows, SerialInv
<1>7. \A i \in Rows' : i \in Rows /\ trades'[i] = trades[i]
    BY <1>1 DEF Rows
<1>8. \A p \in Pollers : PollExact(p)'
    BY <1>2 DEF PollExact
<1>9. \A s \in Syncs : SyncExact(s)'
    BY <1>2, ClosedSyncExact
<1> QED
    BY <1>3, <1>4, <1>5, <1>6, <1>7, <1>8, <1>9, SerialKept

LEMMA SerialInit == Init => SerialInv
<1> SUFFICES ASSUME Init PROVE SerialInv
    OBVIOUS
<1>1. TruthInv
    BY TruthInit
<1>2. /\ Rows = {} /\ \A p \in Pollers : poll[p].at = "idle"
      /\ \A s \in Syncs : sync[s] = NoJob
    BY IdleType DEF Init, Rows
<1>3. BrokerFinal
    BY DEF Init, BrokerFinal
<1>4. InTurn
    BY <1>2, IdleType DEF InTurn, Busy
<1>5. PollsExact /\ RowsExact
    BY <1>2 DEF PollsExact, PollExact, RowsExact
<1>6. SyncsExact
    BY <1>2, IdleType DEF SyncsExact, SyncExact, ItemsExact, UpdatesExact
<1>7. Unrecorded /\ OneRowPerOrder
    BY <1>2 DEF Unrecorded, OneRowPerOrder, RowsOf
<1> QED
    BY <1>1, <1>3, <1>4, <1>5, <1>6, <1>7 DEF SerialInv

LEMMA SerialNext ==
    ASSUME Serial, SerialInv, [Next]_vars
    PROVE  SerialInv' /\ Advance
<1> USE DEF brokerVars, tableVars
<1>1. TruthInv' /\ poll \in [Pollers -> Poll]
    BY TruthNext DEF SerialInv, TruthInv, TrackerType, TypeOK
<1>2. CASE UNCHANGED vars
    BY <1>1, <1>2, SerialQuiet, KeptAdvances DEF vars
<1>3. ASSUME NEW o \in Orders, Submit(o) \/ PlaceOutside(o) \/ Fill(o) \/ Cancel(o) \/ RecordFails(o)
      PROVE  SerialInv' /\ Advance
    BY <1>3, SerialOutside, KeptAdvances
<1>4. ASSUME NEW o \in Orders, Record(o) PROVE SerialInv' /\ Advance
    BY <1>4, SerialRecord, KeptAdvances
<1>5. CASE LoopStep
  <2>1. ASSUME NEW skipped, Select(skipped) PROVE SerialInv' /\ Advance
    BY <1>1, <2>1, SerialQuiet, KeptAdvances DEF Select
  <2>2. CASE TakeNext
    <3>1. \A p \in Pollers : poll'[p] = poll[p] \/ poll'[p].at = "load"
      BY <2>2, TypeTakeNext DEF SerialInv, TruthInv
    <3> QED
      BY <1>1, <2>2, <3>1, SerialQuiet, KeptAdvances DEF TakeNext, Busy
  <2> QED
    BY <1>5, <2>1, <2>2 DEF LoopStep
<1>6. ASSUME NEW p \in Pollers, PollStep(p) PROVE SerialInv' /\ Advance
  <2>1. poll[p] \in Poll
    BY <1>1
  <2>2. CASE Load(p)
    BY <2>2, SerialLoad, KeptAdvances DEF Load
  <2>3. CASE Ask(p)
    BY <2>3, SerialAsk, KeptAdvances DEF Ask
  <2>4. CASE Reload(p)
    BY <2>4, SerialReload, KeptAdvances DEF Reload
  <2>5. CASE Commit(p)
    BY <2>5, SerialCommit
  <2>6. CASE Wake(p)
    <3>1. \A q \in Pollers : poll'[q] = poll[q] \/ poll'[q].at \in {"idle", "load"}
      BY <1>1, <2>1, <2>6, IdleType, TypeWake DEF SerialInv, TruthInv, Poll
    <3> QED
      BY <1>1, <2>6, <3>1, SerialQuiet, KeptAdvances DEF Wake, Busy
  <2> QED
    BY <1>6, <2>2, <2>3, <2>4, <2>5, <2>6 DEF PollStep
<1>7. ASSUME NEW s \in Syncs, SyncStep(s) PROVE SerialInv' /\ Advance
  <2>1. CASE List(s)
    BY <2>1, SerialList, KeptAdvances DEF List
  <2>2. CASE Flush(s)
    BY <1>1, <2>2, SerialQuiet, KeptAdvances DEF Flush
  <2>3. CASE CommitSync(s)
    BY <2>3, SerialCommitSync
  <2>4. ASSUME NEW item \in sync[s].todo, Match(s, item) PROVE SerialInv' /\ Advance
    BY <2>4, SerialMatch, KeptAdvances DEF Match
  <2> QED
    BY <1>7, <2>1, <2>2, <2>3, <2>4 DEF SyncStep
<1>8. CASE Restart
    BY <1>8, SerialRestart, KeptAdvances DEF Restart
<1> QED
    BY <1>2, <1>3, <1>4, <1>5, <1>6, <1>7, <1>8 DEF Next

LEMMA SerialInvariant == ASSUME Serial PROVE Spec => []SerialInv
<1>1. Init => SerialInv
    BY SerialInit
<1>2. SerialInv /\ [Next]_vars => SerialInv'
    BY SerialNext
<1> QED
    BY <1>1, <1>2, PTL DEF Spec

\* When the writers take turns, a row in a terminal status, which nobody polls
\* again, holds the broker's final number of shares, whatever fails and restarts.
THEOREM SerialTerminalRowsExact == ASSUME Serial PROVE Spec => []TerminalRowsExact
<1>1. SerialInv => TerminalRowsExact
    BY DEF SerialInv, RowsExact, RowExact, Exact, TerminalRowsExact
<1> QED
    BY <1>1, SerialInvariant, PTL

\* When the writers take turns, an order has one row: a sync imports no order that
\* the app is about to record, and never the same order twice.
THEOREM SerialOneRowPerOrder == ASSUME Serial PROVE Spec => []OneRowPerOrder
<1>1. SerialInv => OneRowPerOrder
    BY DEF SerialInv
<1> QED
    BY <1>1, SerialInvariant, PTL

\* When the writers take turns, a row's shares never shrink and a terminal row is
\* never reopened.
THEOREM SerialRowsOnlyAdvance == ASSUME Serial PROVE Spec => RowsOnlyAdvance
<1>1. SerialInv /\ [Next]_vars =>
        [\A i \in Rows :
            /\ trades'[i].filled >= trades[i].filled
            /\ trades[i].status \in Terminal => trades'[i].status = trades[i].status]_vars
    BY SerialNext DEF Advance
<1> QED
    BY <1>1, SerialInvariant, PTL DEF Spec, RowsOnlyAdvance

=============================================================================
