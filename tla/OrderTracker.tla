----------------------------- MODULE OrderTracker -----------------------------
(***************************************************************************)
(* Reconciliation of the trades table with the brokers                     *)
(* (backend/app/services/kis/order_tracker.py and                          *)
(* services/batch/toss_order_sync.py).                                     *)
(*                                                                         *)
(* Three kinds of writers update the same rows: the background loop, one   *)
(* short-lived task per order the app submitted, and the sync jobs that    *)
(* list the broker's orders.  Each reads a row, asks the broker, reads the *)
(* row again and writes back the columns it changed, with an await between *)
(* any two of these.  A row's id is its position in the table.             *)
(***************************************************************************)
EXTENDS Naturals, Sequences, FiniteSets, SequencesExt

CONSTANTS
    KisOrders, TossOrders,   \* orders that may appear at the two brokers
    KisSyncs, TossSyncs,     \* sync jobs and endpoint calls
    Loop,                    \* the task of OrderTrackerService
    NoSync,
    Qty,                     \* shares of every order: the bound on fills
    MaxTaskPolls,            \* bound: polls of a per-order task before its deadline
    Limit,                   \* trades one iteration of the loop takes
    ClosedListing,           \* whether Toss serves status=CLOSED
    Faults, MaxRestarts      \* what the environment may do, and how often it restarts

Orders == KisOrders \cup TossOrders
Syncs == KisSyncs \cup TossSyncs
Pollers == {Loop} \cup KisOrders    \* the task of a KIS order goes by the order

\* "overlap": two writers work on one row at once, or a sync lists the orders
\* while a submission is not recorded.  "poll": KIS answers with an error or
\* does not find the order.  "insert": a trade row cannot be stored.
FaultKinds == {"overlap", "poll", "insert", "restart"}

ASSUME TrackerAssumption ==
    /\ KisOrders \cap TossOrders = {}
    /\ KisSyncs \cap TossSyncs = {}
    /\ Loop \notin Orders
    /\ NoSync \notin Syncs
    /\ Qty \in Nat \ {0}
    /\ MaxTaskPolls \in Nat \ {0}
    /\ Limit \in Nat \ {0}
    /\ ClosedListing \in BOOLEAN
    /\ Faults \subseteq FaultKinds
    /\ MaxRestarts \in Nat

VARIABLES
    submission,   \* what became of an order's submission by this app
    filled,       \* shares of an order the broker has filled
    canceled,     \* orders the broker has canceled
    trades,       \* the trades table
    checked,      \* the rank of a row's last_checked_at, 0 when it is NULL
    recent,       \* rows somebody checked since the loop last selected
    agenda,       \* rows the loop has still to poll in this iteration
    poll,         \* where each poller stands
    sync,         \* where each sync stands
    writer,       \* the sync whose transaction holds the database's write lock
    restarts

brokerVars == <<submission, filled, canceled>>
tableVars == <<trades, checked>>
vars == <<brokerVars, tableVars, recent, agenda, poll, sync, writer, restarts>>

Statuses == {"PENDING", "PARTIALLY_FILLED", "PARTIAL_FILLED", "FILLED", "CANCELED"}
Trackable == {"PENDING", "PARTIALLY_FILLED"}
Terminal == {"FILLED", "CANCELED"}

Row == [order : Orders, status : Statuses, filled : 0..Qty]
Rows == 1..Len(trades)

\* An answer of the broker about an order; "UNKNOWN" when there is none to use.
Answer == [status : Statuses \cup {"UNKNOWN"}, filled : 0..Qty]
Unknown == [status |-> "UNKNOWN", filled |-> 0]

\* The UPDATE a session is about to flush: the columns it changed, with their values.
Write == [row : Nat, status : Statuses, filled : 0..Qty, cols : SUBSET {"status", "filled"}]
NoWrite == [row |-> 0, status |-> "PENDING", filled |-> 0, cols |-> {}]

Poll == [at : {"idle", "load", "ask", "reload", "commit", "sleep"},
         row : Nat, answer : Answer, write : Write, left : 0..MaxTaskPolls]
Idle == [at |-> "idle", row |-> 0, answer |-> Unknown, write |-> NoWrite, left |-> 0]

Sync == [todo : SUBSET (Orders \X Answer), updates : SUBSET Write,
         inserts : SUBSET (Orders \X Answer), open : BOOLEAN]
NoJob == [todo |-> {}, updates |-> {}, inserts |-> {}, open |-> FALSE]

TypeOK ==
    /\ submission \in [Orders -> {"none", "sent", "recorded", "lost", "outside"}]
    /\ filled \in [Orders -> 0..Qty]
    /\ canceled \subseteq Orders
    /\ trades \in Seq(Row)
    /\ checked \in [Rows -> 0..Len(trades)]
    /\ agenda \in Seq(Rows) /\ recent \subseteq Rows
    /\ poll \in [Pollers -> Poll]
    /\ sync \in [Syncs -> Sync]
    /\ writer \in Syncs \cup {NoSync}
    /\ restarts \in 0..MaxRestarts
    /\ \A p \in Pollers : poll[p].at # "idle" => poll[p].row \in Rows
    /\ \A s \in Syncs : writer = s => sync[s].open

Init ==
    /\ submission = [o \in Orders |-> "none"]
    /\ filled = [o \in Orders |-> 0]
    /\ canceled = {}
    /\ trades = <<>>
    /\ checked = <<>>
    /\ recent = {}
    /\ agenda = <<>>
    /\ poll = [p \in Pollers |-> Idle]
    /\ sync = [s \in Syncs |-> NoJob]
    /\ writer = NoSync
    /\ restarts = 0

-----------------------------------------------------------------------------
(* The brokers (external) and the submission of an order by this app.      *)

Placed == {o \in Orders : submission[o] # "none"}

\* Mutant of ParseStatus: the share counts are compared the wrong way round.
ParseAnyFill(o) ==
    IF o \in canceled THEN "CANCELED" ELSE IF filled[o] > 0 THEN "FILLED" ELSE "PENDING"

\* _parse_order_status: the cancel flag wins over the share counts.  Toss has a
\* word of its own for a partial fill.
ParseStatus(o) ==
    IF o \in canceled THEN "CANCELED"
    ELSE IF filled[o] = Qty THEN "FILLED"
    ELSE IF filled[o] = 0 THEN "PENDING"
    ELSE IF o \in TossOrders THEN "PARTIAL_FILLED" ELSE "PARTIALLY_FILLED"

AnswerFor(o) == [status |-> ParseStatus(o), filled |-> filled[o]]

\* The order is at the broker; the app has yet to store its trade row.
Submit(o) ==
    /\ submission[o] = "none"
    /\ "overlap" \in Faults \/ \A s \in Syncs : ~sync[s].open
    /\ submission' = [submission EXCEPT ![o] = "sent"]
    /\ UNCHANGED <<filled, canceled, tableVars, recent, agenda, poll, sync, writer, restarts>>

\* The user orders in the broker's own app.
PlaceOutside(o) ==
    /\ submission[o] = "none"
    /\ submission' = [submission EXCEPT ![o] = "outside"]
    /\ UNCHANGED <<filled, canceled, tableVars, recent, agenda, poll, sync, writer, restarts>>

Fill(o) ==
    /\ o \in Placed \ canceled
    /\ filled[o] < Qty
    /\ filled' = [filled EXCEPT ![o] = @ + 1]
    /\ UNCHANGED <<submission, canceled, tableVars, recent, agenda, poll, sync, writer, restarts>>

Cancel(o) ==
    /\ o \in Placed \ canceled
    /\ filled[o] < Qty
    /\ canceled' = canceled \cup {o}
    /\ UNCHANGED <<submission, filled, tableVars, recent, agenda, poll, sync, writer, restarts>>

\* _persist_trade_skeleton, then the tracking task that only KIS orders get.
Record(o) ==
    /\ submission[o] = "sent"
    /\ writer = NoSync
    /\ trades' = Append(trades, [order |-> o, status |-> "PENDING", filled |-> 0])
    /\ checked' = Append(checked, 0)
    /\ submission' = [submission EXCEPT ![o] = "recorded"]
    /\ poll' = IF o \in KisOrders
               THEN [poll EXCEPT ![o] = [Idle EXCEPT !.at = "load", !.row = Len(trades) + 1,
                                                     !.left = MaxTaskPolls]]
               ELSE poll
    /\ UNCHANGED <<filled, canceled, recent, agenda, sync, writer, restarts>>

RecordFails(o) ==
    /\ "insert" \in Faults
    /\ submission[o] = "sent"
    /\ submission' = [submission EXCEPT ![o] = "lost"]
    /\ UNCHANGED <<filled, canceled, tableVars, recent, agenda, poll, sync, writer, restarts>>

-----------------------------------------------------------------------------
(* Writes to the table.                                                    *)

\* Mutant of Applied: an answer that was not found overwrites the row as well.
AppliedAsIs(i, answer) ==
    [row |-> i, cols |-> {"status", "filled"}, filled |-> answer.filled,
     status |-> IF answer.status = "UNKNOWN" THEN "PENDING" ELSE answer.status]

\* Mutant of Applied: a canceled order is not looked at any further.
AppliedCancelFirst(i, answer) ==
    LET old == trades[i]
        new == IF answer.status = "UNKNOWN" THEN old
               ELSE IF answer.status = "CANCELED" THEN [old EXCEPT !.status = "CANCELED"]
               ELSE [old EXCEPT !.status = answer.status,
                                !.filled = IF answer.filled > @ THEN answer.filled ELSE @]
    IN  [row |-> i, status |-> new.status, filled |-> new.filled,
         cols |-> {c \in {"status", "filled"} : new[c] # old[c]}]

\* _apply_execution and _apply_toss_execution on the row as this session loaded
\* it.  The session flushes the columns whose value differs from the loaded one.
Applied(i, answer) ==
    LET old == trades[i]
        new == IF answer.status = "UNKNOWN" THEN old
               ELSE [old EXCEPT !.status = answer.status,
                                !.filled = IF answer.filled > @ THEN answer.filled ELSE @]
    IN  [row |-> i, status |-> new.status, filled |-> new.filled,
         cols |-> {c \in {"status", "filled"} : new[c] # old[c]}]

Flushed(table, w) ==
    [table EXCEPT ![w.row].status = IF "status" \in w.cols THEN w.status ELSE @,
                  ![w.row].filled = IF "filled" \in w.cols THEN w.filled ELSE @]

\* last_checked_at of n rows once these rows have got the latest of all, in any order.
Stamped(touched, n) ==
    LET old == [i \in 1..n |-> IF i <= Len(checked) THEN checked[i] ELSE 0]
        kept == (1..n) \ touched
    IN  {new \in [1..n -> 0..n] :
            /\ \A i \in 1..n : new[i] = 0 <=> i \in kept /\ old[i] = 0
            /\ \A i, j \in kept : old[i] < old[j] => new[i] < new[j]
            /\ \A i \in touched : \A j \in kept : new[j] < new[i]
            /\ \A i, j \in touched : new[i] = new[j] => i = j
            /\ \A i \in 1..n : \A k \in 1..new[i] : \E j \in 1..n : new[j] = k}

-----------------------------------------------------------------------------
(* track_trade_once, run by the loop and by the task of an order.          *)

\* Between reading a row and writing it back.
Busy == {"ask", "reload", "commit"}

\* Nobody else is at row i.
Undisturbed(p, i) ==
    /\ \A q \in Pollers \ {p} : poll[q].at \in Busy => poll[q].row # i
    /\ \A s \in Syncs : ~sync[s].open

\* The selects of an iteration take the rows they want, never checked first, then
\* the longest unchecked.
Queues(wanted) ==
    {queue \in UNION {[1..n -> wanted] : n \in 0..Limit} :
        LET Before(i, j) == checked[i] < checked[j] \/ (checked[i] = checked[j] /\ i < j)
            taken == DOMAIN queue
        IN  /\ \A a, b \in taken : a < b => Before(queue[a], queue[b])
            /\ \A i \in wanted :
                  (\A a \in taken : queue[a] # i) =>
                      Limit \in taken /\ \A a \in taken : Before(queue[a], i)}

\* Mutant of Due: only rows nobody has checked are selected.
DueUnseen(skipped) ==
    Queues({i \in Rows : trades[i].status \in Trackable /\ checked[i] = 0})

\* Rows checked within the last interval are not due yet.
Due(skipped) == Queues({i \in Rows : trades[i].status \in Trackable /\ i \notin skipped})

Select(skipped) ==
    /\ poll[Loop].at = "idle" /\ agenda = <<>>
    /\ agenda' \in Due(skipped)
    /\ recent' = {}
    /\ agenda' # <<>> \/ recent # {}
    /\ UNCHANGED <<brokerVars, tableVars, poll, sync, writer, restarts>>

TakeNext ==
    /\ poll[Loop].at = "idle" /\ agenda # <<>>
    /\ poll' = [poll EXCEPT ![Loop] = [Idle EXCEPT !.at = "load", !.row = Head(agenda)]]
    /\ agenda' = Tail(agenda)
    /\ UNCHANGED <<brokerVars, tableVars, recent, sync, writer, restarts>>

\* A Toss row has no account_type, so that AccountType(None) raises out of the
\* iteration and the rest of the agenda is dropped.
Load(p) ==
    LET i == poll[p].row IN
    /\ poll[p].at = "load"
    /\ "overlap" \in Faults \/ Undisturbed(p, i)
    /\ IF trades[i].order \in TossOrders
       THEN poll' = [poll EXCEPT ![p] = Idle] /\ agenda' = <<>>
       ELSE poll' = [poll EXCEPT ![p].at = "ask"] /\ UNCHANGED agenda
    /\ UNCHANGED <<brokerVars, tableVars, recent, sync, writer, restarts>>

\* get_order_execution answers with the state of the order at this moment, with
\* an error, or with nothing that matches.
Ask(p) ==
    LET o == trades[poll[p].row].order IN
    /\ poll[p].at = "ask"
    /\ \E a \in {AnswerFor(o)} \cup (IF "poll" \in Faults THEN {Unknown} ELSE {}) :
            poll' = [poll EXCEPT ![p].at = "reload", ![p].answer = a]
    /\ UNCHANGED <<brokerVars, tableVars, recent, agenda, sync, writer, restarts>>

\* The second session.get and _apply_execution.
Reload(p) ==
    /\ poll[p].at = "reload"
    /\ poll' = [poll EXCEPT ![p].at = "commit",
                            ![p].answer = Unknown,
                            ![p].write = Applied(poll[p].row, poll[p].answer)]
    /\ UNCHANGED <<brokerVars, tableVars, recent, agenda, sync, writer, restarts>>

\* The loop goes on to its next row; a task sleeps, or ends on a terminal status.
Commit(p) ==
    LET w == poll[p].write
        next == IF p = Loop \/ w.status \in Terminal THEN Idle
                ELSE [poll[p] EXCEPT !.at = "sleep", !.write = NoWrite, !.left = @ - 1]
    IN
    /\ poll[p].at = "commit"
    /\ writer = NoSync
    /\ trades' = Flushed(trades, w)
    /\ checked' \in Stamped({w.row}, Len(trades))
    /\ recent' = IF p = Loop THEN recent ELSE recent \cup {w.row}
    /\ poll' = [poll EXCEPT ![p] = next]
    /\ UNCHANGED <<brokerVars, agenda, sync, writer, restarts>>

\* track_trade_until_terminal polls again until its deadline.
Wake(p) ==
    /\ poll[p].at = "sleep"
    /\ \/ poll[p].left > 0 /\ poll' = [poll EXCEPT ![p].at = "load"]
       \/ poll' = [poll EXCEPT ![p] = Idle]
    /\ UNCHANGED <<brokerVars, tableVars, recent, agenda, sync, writer, restarts>>

-----------------------------------------------------------------------------
(* sync_external_orders_once and sync_toss_orders_once.                    *)

\* Toss lists its open orders, and the closed ones where it can; the job keeps
\* those with a fill.
Listed(s) ==
    IF s \in KisSyncs THEN Placed \cap KisOrders
    ELSE {o \in Placed \cap TossOrders :
            /\ filled[o] > 0 /\ o \notin canceled
            /\ filled[o] < Qty \/ ClosedListing}

List(s) ==
    /\ ~sync[s].open
    /\ Listed(s) # {}
    /\ "overlap" \in Faults \/ /\ \A o \in Orders : submission[o] # "sent"
                               /\ \A p \in Pollers : poll[p].at \notin Busy
                               /\ \A t \in Syncs : ~sync[t].open
    /\ sync' = [sync EXCEPT ![s] = [NoJob EXCEPT !.open = TRUE,
                                       !.todo = {<<o, AnswerFor(o)>> : o \in Listed(s)}]]
    /\ UNCHANGED <<brokerVars, tableVars, recent, agenda, poll, writer, restarts>>

Unflushed(s) == writer # s /\ (sync[s].updates # {} \/ sync[s].inserts # {})

\* The first pending change reaches the database: its write lock is taken.
Flush(s) ==
    /\ Unflushed(s)
    /\ writer = NoSync
    /\ writer' = s
    /\ UNCHANGED <<brokerVars, tableVars, recent, agenda, poll, sync, restarts>>

RowsOf(o) == {i \in Rows : trades[i].order = o}

\* Mutant of Match: the order is inserted without looking for its row.
MatchNothing(s, item) ==
    /\ item \in sync[s].todo
    /\ ~Unflushed(s)
    /\ sync' = [sync EXCEPT ![s].todo = @ \ {item}, ![s].inserts = @ \cup {item}]
    /\ UNCHANGED <<brokerVars, tableVars, recent, agenda, poll, writer, restarts>>

\* Mutant of Match: orders without a row are skipped.
MatchOnly(s, item) ==
    LET mine == RowsOf(item[1]) IN
    /\ item \in sync[s].todo
    /\ ~Unflushed(s)
    /\ IF mine # {}
       THEN LET latest == CHOOSE i \in mine : \A j \in mine : j <= i IN
            sync' = [sync EXCEPT ![s].todo = @ \ {item},
                                 ![s].updates = @ \cup {Applied(latest, item[2])}]
       ELSE sync' = [sync EXCEPT ![s].todo = @ \ {item}]
    /\ UNCHANGED <<brokerVars, tableVars, recent, agenda, poll, writer, restarts>>

\* _find_trade_by_order_no: the latest row of the order is updated, and a new one
\* is inserted when there is none.
Match(s, item) ==
    LET mine == RowsOf(item[1]) IN
    /\ item \in sync[s].todo
    /\ ~Unflushed(s)
    /\ IF mine # {}
       THEN LET latest == CHOOSE i \in mine : \A j \in mine : j <= i IN
            sync' = [sync EXCEPT ![s].todo = @ \ {item},
                                 ![s].updates = @ \cup {Applied(latest, item[2])}]
       ELSE sync' = [sync EXCEPT ![s].todo = @ \ {item}, ![s].inserts = @ \cup {item}]
    /\ UNCHANGED <<brokerVars, tableVars, recent, agenda, poll, writer, restarts>>

\* Every change of the job becomes visible; its rows now have a last_checked_at.
CommitSync(s) ==
    LET touched == {w.row : w \in sync[s].updates}
        update(i) == CHOOSE w \in sync[s].updates : w.row = i
        updated == [i \in Rows |-> IF i \in touched THEN Flushed(trades, update(i))[i]
                                   ELSE trades[i]]
    IN
    /\ sync[s].open /\ sync[s].todo = {}
    /\ ~Unflushed(s)
    /\ \E new \in SetToSeqs(sync[s].inserts) :
            LET written == touched \cup {Len(trades) + i : i \in DOMAIN new} IN
            /\ trades' = updated \o [i \in DOMAIN new |->
                    [order |-> new[i][1], status |-> new[i][2].status, filled |-> new[i][2].filled]]
            /\ checked' \in Stamped(written, Len(trades) + Len(new))
            /\ recent' = recent \cup written
    /\ writer' = NoSync
    /\ sync' = [sync EXCEPT ![s] = NoJob]
    /\ UNCHANGED <<brokerVars, agenda, poll, restarts>>

\* The process stops and starts again: tasks and open transactions are gone.
Restart ==
    /\ "restart" \in Faults
    /\ restarts < MaxRestarts
    /\ restarts' = restarts + 1
    /\ submission' = [o \in Orders |-> IF submission[o] = "sent" THEN "lost" ELSE submission[o]]
    /\ poll' = [p \in Pollers |-> Idle]
    /\ sync' = [s \in Syncs |-> NoJob]
    /\ writer' = NoSync
    /\ agenda' = <<>>
    /\ UNCHANGED <<filled, canceled, tableVars, recent>>

LoopStep == TakeNext \/ \E skipped \in SUBSET recent : Select(skipped)
PollStep(p) == Load(p) \/ Ask(p) \/ Reload(p) \/ Commit(p) \/ Wake(p)
SyncStep(s) == List(s) \/ Flush(s) \/ CommitSync(s) \/ \E item \in sync[s].todo : Match(s, item)

Next ==
    \/ \E o \in Orders : Submit(o) \/ PlaceOutside(o) \/ Fill(o) \/ Cancel(o)
                         \/ Record(o) \/ RecordFails(o)
    \/ LoopStep
    \/ \E p \in Pollers : PollStep(p)
    \/ \E s \in Syncs : SyncStep(s)
    \/ Restart

Spec == Init /\ [][Next]_vars

\* The event loop runs the tracker, the tasks and the handlers that wait to
\* record an order; the sync jobs run on their crons.  A commit waits for the
\* write lock up to the busy timeout of 60 seconds, which outlasts the few
\* statements of a job, so that it cannot be passed over for ever.  Brokers owe
\* nothing.
Fairness ==
    /\ WF_vars(LoopStep)
    /\ \A p \in Pollers : WF_vars(PollStep(p)) /\ SF_vars(Commit(p))
    /\ \A s \in Syncs : WF_vars(SyncStep(s)) /\ SF_vars(Flush(s))
    /\ \A o \in Orders : SF_vars(Record(o))

FairSpec == Spec /\ Fairness

-----------------------------------------------------------------------------
(* Properties.                                                             *)

\* However stale the answers and however the writers race, a trade row never
\* claims more than happened: no shares beyond the broker's, no FILLED or CANCELED
\* for an order that is not.
NeverOverstated ==
    \A i \in Rows :
        LET o == trades[i].order IN
        /\ trades[i].filled <= filled[o]
        /\ trades[i].status = "FILLED" => filled[o] = Qty
        /\ trades[i].status = "CANCELED" => o \in canceled

\* A row in a terminal status, which the tracker never polls again, holds the
\* broker's final number of filled shares.
TerminalRowsExact ==
    \A i \in Rows : trades[i].status \in Terminal => trades[i].filled = filled[trades[i].order]

\* One broker order has one trade row, whoever recorded it first.
OneRowPerOrder ==
    \A i, j \in Rows : trades[i].order = trades[j].order => i = j

\* A row's filled quantity never shrinks and a terminal row is never reopened.
RowsOnlyAdvance ==
    [][\A i \in Rows :
        /\ trades'[i].filled >= trades[i].filled
        /\ trades[i].status \in Terminal => trades'[i].status = trades[i].status]_vars

\* Whatever became of the app's own bookkeeping, an order placed at KIS ends up
\* with a trade row: the sync jobs recover the submissions a crash forgot.
EveryOrderRecorded ==
    \A o \in KisOrders : o \in Placed ~> RowsOf(o) # {}

\* Once KIS has filled or canceled an order, its trade rows come to say so.
RowsSettle ==
    \A o \in KisOrders :
        ParseStatus(o) \in Terminal ~> \A i \in RowsOf(o) : trades[i].status = ParseStatus(o)
=============================================================================
