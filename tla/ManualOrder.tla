------------------------------ MODULE ManualOrder ------------------------------
(***************************************************************************)
(* Orders entered by hand: POST /api/portfolio/orders                      *)
(* (backend/app/api/portfolio.py, services/orders/guard.py).               *)
(*                                                                         *)
(* A submission looks its client_order_id up among the trades, passes the  *)
(* guard, sends the order to the broker of its code and stores a trade     *)
(* row.  Submissions with one key are retries of one another: the app      *)
(* sends the key again after an error, a lost connection or a second tap.  *)
(***************************************************************************)
EXTENDS Integers, FiniteSets

CONSTANTS
    Submissions,     \* requests
    OrderKeys,       \* client_order_ids
    NoKey,           \* a request without one
    OrderForms,      \* the orders tried
    MaxFaults        \* bound: lost answers, failed inserts, restarts

\* A KIS order for a code that is not all digits goes to Toss.  Paper orders are
\* KIS orders that pass no gate; an unverified account gets none.
OrderForm == [key : OrderKeys \cup {NoKey}, broker : {"KIS", "TOSS"}, digits : BOOLEAN,
              account : {"paper", "live", "unverified"}, side : {"BUY", "SELL"}]

ASSUME ManualOrderAssumption ==
    NoKey \notin OrderKeys /\ OrderForms \subseteq OrderForm /\ MaxFaults \in Nat

VARIABLES
    form,            \* what a submission asks for
    at,              \* where its handler stands
    reply,           \* what its caller was told
    killed,          \* the kill switch
    lossy,           \* the realized loss of the day is past the limit
    taken,           \* submissions that became orders at the broker (external)
    records,            \* submissions with a trade row
    faults,          \* what the bound counts
    told             \* history: submissions answered with a stored row when this one came

manualVars == <<form, at, reply, killed, lossy, taken, records, faults, told>>

BrokerOf(s) == IF form[s].broker = "KIS" /\ ~form[s].digits THEN "TOSS" ELSE form[s].broker

Replies == {"none", "replayed", "blocked", "failed", "stored", "unstored"}

ManualTypeOK ==
    /\ form \in [Submissions -> OrderForms]
    /\ at \in [Submissions -> {"new", "looked up", "sent", "accepted", "done"}]
    /\ reply \in [Submissions -> Replies]
    /\ killed \in BOOLEAN /\ lossy \in BOOLEAN
    /\ taken \subseteq Submissions /\ records \subseteq Submissions
    /\ faults \in 0..MaxFaults
    /\ told \in [Submissions -> SUBSET Submissions]
-----------------------------------------------------------------------------
Go(s, place) == at' = [at EXCEPT ![s] = place]
Answer(s, what) == Go(s, "done") /\ reply' = [reply EXCEPT ![s] = what]
Fault == faults < MaxFaults /\ faults' = faults + 1

Same(s, t) == form[s].key = form[t].key /\ form[s].key # NoKey

\* Mutant of Found: the look-up is limited to orders at KIS.
FoundAtKIS(s) == \E t \in records : Same(s, t) /\ BrokerOf(t) = "KIS"

\* _find_trade_by_client_order_id.
Found(s) == \E t \in records : Same(s, t)

\* A trade with the key is the answer to a retry.
LookUp(s) ==
    /\ at[s] = "new"
    /\ told' = [told EXCEPT ![s] = {t \in Submissions : reply[t] = "stored"}]
    /\ IF Found(s) THEN Answer(s, "replayed") ELSE Go(s, "looked up") /\ UNCHANGED reply
    /\ UNCHANGED <<form, killed, lossy, taken, records, faults>>

\* guard_order and assert_daily_loss_ok, after the broker has been chosen.
Live(s) == BrokerOf(s) = "TOSS" \/ form[s].account # "paper"
Refused(s) == \/ BrokerOf(s) = "KIS" /\ form[s].account = "unverified"
              \/ Live(s) /\ killed
              \/ Live(s) /\ lossy /\ form[s].side = "BUY"

Guard(s) ==
    /\ at[s] = "looked up"
    /\ IF Refused(s) THEN Answer(s, "blocked") ELSE Go(s, "sent") /\ UNCHANGED reply
    /\ UNCHANGED <<form, killed, lossy, taken, records, faults, told>>

\* The brokers know nothing of the key.
BrokerTakes(s) ==
    /\ at[s] = "sent" /\ s \notin taken
    /\ taken' = taken \cup {s}
    /\ UNCHANGED <<form, at, reply, killed, lossy, records, faults, told>>

Accepted(s) ==
    /\ at[s] = "sent" /\ s \in taken /\ Go(s, "accepted")
    /\ UNCHANGED <<form, reply, killed, lossy, taken, records, faults, told>>

\* A refusal, a time-out before the order arrived or an answer that was lost.
OrderFails(s) ==
    /\ at[s] = "sent" /\ Answer(s, "failed")
    /\ \/ s \notin taken /\ UNCHANGED faults
       \/ s \in taken /\ Fault
    /\ UNCHANGED <<form, killed, lossy, taken, records, told>>

\* The unique index on client_order_id admits one row for a key.
Conflict(s) == \E t \in records : Same(s, t)

\* _persist_trade_skeleton; an insert that fails leaves the order without a row.
\* What follows a stored row, the tracking of a KIS order, is in OrderTracker.
Persist(s) ==
    /\ at[s] = "accepted"
    /\ \/ /\ ~Conflict(s)
          /\ records' = records \cup {s} /\ Answer(s, "stored") /\ UNCHANGED faults
       \/ /\ Conflict(s) /\ Answer(s, "unstored")
          /\ UNCHANGED <<records, faults>>
       \/ Fault /\ Answer(s, "unstored") /\ UNCHANGED records
    /\ UNCHANGED <<form, killed, lossy, taken, told>>

\* What was under way is gone; its callers get no answer.
RestartServer ==
    /\ Fault
    /\ at' = [s \in Submissions |-> IF at[s] = "new" THEN "new" ELSE "done"]
    /\ UNCHANGED <<form, reply, killed, lossy, taken, records, told>>

Toggle ==
    /\ \/ killed' = ~killed /\ UNCHANGED lossy
       \/ lossy' = ~lossy /\ UNCHANGED killed
    /\ UNCHANGED <<form, at, reply, taken, records, faults, told>>

ManualInit ==
    /\ form \in [Submissions -> OrderForms]
    /\ \A s, t \in Submissions : Same(s, t) => form[s] = form[t]
    /\ at = [s \in Submissions |-> "new"] /\ reply = [s \in Submissions |-> "none"]
    /\ killed \in BOOLEAN /\ lossy \in BOOLEAN
    /\ taken = {} /\ records = {} /\ faults = 0
    /\ told = [s \in Submissions |-> {}]

ManualNext ==
    \/ \E s \in Submissions : \/ LookUp(s) \/ Guard(s) \/ BrokerTakes(s) \/ Accepted(s)
                              \/ OrderFails(s) \/ Persist(s)
    \/ RestartServer \/ Toggle

ManualSpec == ManualInit /\ [][ManualNext]_manualVars
-----------------------------------------------------------------------------
(* Properties.                                                             *)

\* Once a submission has been answered with a stored row, no later one with its
\* key becomes an order, after a restart either; two that overlap, and one whose
\* predecessor ended without a row, may.
NoRepeatOfStored ==
    \A s \in taken : \A t \in told[s] : ~Same(s, t)
=============================================================================
