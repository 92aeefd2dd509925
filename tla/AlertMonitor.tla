----------------------------- MODULE AlertMonitor -----------------------------
(***************************************************************************)
(* Price alerts that place an order when they trigger                      *)
(* (backend/app/services/alerts/monitor.py), under the kill switch.        *)
(*                                                                         *)
(* A round reads the alerts that have not triggered, in the order of their *)
(* ids, and handles one after the other: quote, condition, claim (an       *)
(* UPDATE that only one round can win), safety gateway, order.  The        *)
(* background loop and POST /api/alerts/evaluate run rounds independently. *)
(* What a round notes on an alert is written by the next claim or by the   *)
(* commit that ends the round, and lost if that transaction fails.         *)
(***************************************************************************)
EXTENDS KillSwitch, FiniteSets

CONSTANTS
    Alerts,          \* ids, in the order in which a round handles them
    Loop,            \* the rounds of AlertMonitorService
    Buttons,         \* the rounds of POST /api/alerts/evaluate
    Action,          \* Action[a]: "NOTIFY", "SELL" or "BUY"
    Live,            \* alerts on an account that the switch applies to
    Broken           \* alerts whose evaluation always raises

Rounds == {Loop} \cup Buttons

ASSUME AlertAssumption ==
    /\ Alerts \subseteq Nat /\ IsFiniteSet(Alerts)
    /\ Loop \notin Buttons
    /\ Action \in [Alerts -> {"NOTIFY", "SELL", "BUY"}]
    /\ Live \subseteq Alerts /\ Broken \subseteq Alerts

VARIABLES
    made,          \* alerts created so far
    present,       \* alerts that have a row
    fired,         \* alerts claimed: triggered_at is set
    erred,         \* rows with a last_error
    pc,            \* where each round stands
    todo,          \* alerts the round has still to handle, the current one included
    touched,       \* alerts with changes the round has not written
    read, noted,   \* last_error as the round knows it written, and as it will write it
    orders,        \* orders the broker accepted for an alert (external)
    excused        \* history: blocked, interrupted, or loaded by two rounds when claimed

rowVars == <<made, present, fired, erred>>
roundVars == <<pc, todo, touched, read, noted>>
vars == <<switchVars, rowVars, roundVars, orders, excused>>

RoundSteps == {"off", "quote", "claim", "guard", "loss", "submit", "commit"}

TypeOK ==
    /\ SwitchTypeOK
    /\ present \subseteq made /\ made \subseteq Alerts
    /\ fired \subseteq Alerts /\ erred \subseteq Alerts
    /\ pc \in [Rounds -> RoundSteps]
    /\ todo \in [Rounds -> SUBSET Alerts] /\ touched \in [Rounds -> SUBSET Alerts]
    /\ read \in [Rounds -> SUBSET Alerts] /\ noted \in [Rounds -> SUBSET Alerts]
    /\ \A e \in Rounds : pc[e] \in {"off", "commit"} <=> todo[e] = {}
    /\ orders \in [Alerts -> Nat]
    /\ excused \subseteq Alerts

Init ==
    /\ SwitchInit
    /\ made = {} /\ present = {} /\ fired = {} /\ erred = {}
    /\ pc = [e \in Rounds |-> "off"]
    /\ todo = [e \in Rounds |-> {}] /\ touched = todo /\ read = todo /\ noted = todo
    /\ orders = [a \in Alerts |-> 0]
    /\ excused = {}

-----------------------------------------------------------------------------
(* A round.                                                                *)

\* Round e stands at a step of handling alert a, the first one left.
First(e, a) == a \in todo[e] /\ \A b \in todo[e] : a <= b
At(e, a, step) == pc[e] = step /\ First(e, a)

\* An alert whose outcome round e has still to write.
Holding(e, a) ==
    \/ \E step \in {"guard", "loss", "submit"} : At(e, a, step)
    \/ a \in touched[e] \cap noted[e]

Goto(e, step) == pc' = [pc EXCEPT ![e] = step]

\* Mutant of Advance: the end of the list is missed.
AdvanceOn(e, a) ==
    /\ todo' = [todo EXCEPT ![e] = @ \ {a}]
    /\ Goto(e, "quote")

\* On to the next alert.
Advance(e, a) ==
    /\ todo' = [todo EXCEPT ![e] = @ \ {a}]
    /\ Goto(e, IF todo[e] = {a} THEN "commit" ELSE "quote")

\* last_checked_at and last_error are set on the alert in memory.
Note(e, a, isError) ==
    /\ touched' = [touched EXCEPT ![e] = @ \cup {a}]
    /\ noted' = [noted EXCEPT ![e] = IF isError THEN @ \cup {a} ELSE @ \ {a}]
    /\ UNCHANGED read

\* The round is over: its objects are gone, and with them what was not written.
Leave(e) ==
    /\ Goto(e, "off")
    /\ todo' = [todo EXCEPT ![e] = {}] /\ touched' = [touched EXCEPT ![e] = {}]
    /\ read' = [read EXCEPT ![e] = {}] /\ noted' = [noted EXCEPT ![e] = {}]

\* The SELECT of evaluate_alerts_once.
Begin(e) ==
    /\ pc[e] = "off"
    /\ present \ fired # {}
    /\ Goto(e, "quote")
    /\ todo' = [todo EXCEPT ![e] = present \ fired]
    /\ read' = [read EXCEPT ![e] = erred \ fired]
    /\ noted' = [noted EXCEPT ![e] = erred \ fired]
    /\ UNCHANGED <<switchVars, rowVars, touched, orders, excused>>

\* Mutant of Fails: the first alert that raises ends the round.
FailsAll(e, a) ==
    /\ At(e, a, "quote")
    /\ Leave(e)
    /\ UNCHANGED <<switchVars, rowVars, orders, excused>>

\* The quote or the condition raises: the error is noted, the round goes on.
Fails(e, a) ==
    /\ At(e, a, "quote")
    /\ Note(e, a, TRUE)
    /\ Advance(e, a)
    /\ UNCHANGED <<switchVars, rowVars, orders, excused>>

\* The quote is there and the condition does not hold.
Misses(e, a) ==
    /\ At(e, a, "quote")
    /\ a \notin Broken
    /\ Note(e, a, FALSE)
    /\ Advance(e, a)
    /\ UNCHANGED <<switchVars, rowVars, orders, excused>>

\* The quote is there and the condition holds.
Hits(e, a) ==
    /\ At(e, a, "quote")
    /\ a \notin Broken
    /\ Note(e, a, FALSE)
    /\ Goto(e, "claim")
    /\ UNCHANGED <<switchVars, rowVars, todo, orders, excused>>

\* The session writes what changed in memory; it can do so unless a row is gone
\* (StaleDataError) or the database stays locked, and then the round dies of it.
CanFlush(e) == touched[e] \subseteq present

Flush(e) == erred' = (erred \ (touched[e] \cap (read[e] \ noted[e]))) \cup (touched[e] \cap noted[e])

\* Mutant of Wins: no WHERE triggered_at IS NULL.
WinsAlways(e, a) == TRUE

Wins(e, a) == a \notin fired

\* _claim_alert: flush, conditional UPDATE and commit; only the winner goes on.
Claim(e, a) ==
    /\ At(e, a, "claim")
    /\ CanFlush(e)
    /\ Flush(e)
    /\ touched' = [touched EXCEPT ![e] = {}]
    /\ read' = [read EXCEPT ![e] = noted[e] \cap todo[e]]
    /\ noted' = [noted EXCEPT ![e] = @ \cap todo[e]]
    /\ IF Wins(e, a)
       THEN /\ fired' = fired \cup {a}
            /\ excused' = excused \cup {b \in {a} : \E f \in Rounds \ {e} : b \in read[f]}
            /\ Goto(e, "guard")
            /\ UNCHANGED todo
       ELSE Advance(e, a) /\ UNCHANGED <<fired, excused>>
    /\ UNCHANGED <<switchVars, made, present, orders>>

\* Mutant of Guarded: an order that opens a position is let through.
GuardedSelling(a) == a \in Live /\ enabled /\ Action[a] = "SELL"

\* assert_order_allowed: the switch stops every order but those of a paper account.
Guarded(a) == a \in Live /\ enabled

\* _maybe_place_alert_order up to its first await: no order is wanted, or the switch
\* or the cap on its value blocks it; or it goes on.
Guard(e, a) ==
    /\ At(e, a, "guard")
    /\ \/ /\ Action[a] = "NOTIFY" \/ a \in Live
          /\ Advance(e, a)
          /\ excused' = excused \cup {a}
       \/ /\ Action[a] # "NOTIFY" /\ ~Guarded(a)
          /\ Goto(e, IF Action[a] = "BUY" /\ a \in Live THEN "loss" ELSE "submit")
          /\ UNCHANGED <<todo, excused>>
    /\ UNCHANGED <<switchVars, rowVars, touched, read, noted, orders>>

\* assert_daily_loss_ok: today's realized loss may block a BUY.
CheckLoss(e, a) ==
    /\ At(e, a, "loss")
    /\ \/ Goto(e, "submit") /\ UNCHANGED <<todo, excused>>
       \/ Advance(e, a) /\ excused' = excused \cup {a}
    /\ UNCHANGED <<switchVars, rowVars, touched, read, noted, orders>>

\* place_order is answered with a receipt.
Ordered(e, a) ==
    /\ At(e, a, "submit")
    /\ orders' = [orders EXCEPT ![a] = @ + 1]
    /\ Advance(e, a)
    /\ UNCHANGED <<switchVars, rowVars, touched, read, noted, excused>>

\* Mutant of OrderRaises: the error is not noted.
OrderRaisesQuietly(e, a) ==
    /\ At(e, a, "submit")
    /\ Advance(e, a)
    /\ UNCHANGED <<switchVars, rowVars, touched, read, noted, orders, excused>>

\* place_order raises: refused, or accepted with the answer lost.
OrderRaises(e, a) ==
    /\ At(e, a, "submit")
    /\ \/ UNCHANGED orders
       \/ orders' = [orders EXCEPT ![a] = @ + 1]
    /\ Note(e, a, TRUE)
    /\ Advance(e, a)
    /\ UNCHANGED <<switchVars, rowVars, excused>>

\* session.commit() at the end of evaluate_alerts_once.
Finish(e) ==
    /\ pc[e] = "commit"
    /\ CanFlush(e)
    /\ Flush(e)
    /\ Leave(e)
    /\ UNCHANGED <<switchVars, made, present, fired, orders, excused>>

\* The claim's or the last transaction fails: the handler trips over the
\* expired objects and the exception ends the round.
Dies(e) ==
    /\ pc[e] \in {"claim", "commit"}
    /\ \/ ~CanFlush(e) /\ UNCHANGED locks
       \/ "locked" \in Faults /\ locks < MaxLocks /\ locks' = locks + 1
    /\ excused' = excused \cup (fired \cap touched[e] \cap noted[e])
    /\ Leave(e)
    /\ UNCHANGED <<enabled, stored, call, newest, armed, restarts, rowVars, orders>>

-----------------------------------------------------------------------------
(* The user and the process.                                               *)

Create(a) ==
    /\ a \notin made /\ \A b \in Alerts \ made : a <= b
    /\ made' = made \cup {a} /\ present' = present \cup {a}
    /\ UNCHANGED <<switchVars, fired, erred, roundVars, orders, excused>>

Delete(a) ==
    /\ a \in present
    /\ present' = present \ {a}
    /\ UNCHANGED <<switchVars, made, fired, erred, roundVars, orders, excused>>

\* The rounds die with the process; claims are durable, notes are not.
Restart ==
    /\ RestartSwitch
    /\ excused' = excused \cup {a \in fired : \E e \in Rounds : Holding(e, a)}
    /\ pc' = [e \in Rounds |-> "off"]
    /\ todo' = [e \in Rounds |-> {}] /\ touched' = todo' /\ read' = todo' /\ noted' = todo'
    /\ UNCHANGED <<rowVars, orders>>

SwitchStep(t) ==
    /\ (\E on \in BOOLEAN : SetSwitch(t, on)) \/ CallStep(t)
    /\ UNCHANGED <<rowVars, roundVars, orders, excused>>

AlertStep(e, a) ==
    \/ Fails(e, a) \/ Misses(e, a) \/ Hits(e, a) \/ Claim(e, a) \/ Guard(e, a)
    \/ CheckLoss(e, a) \/ Ordered(e, a) \/ OrderRaises(e, a)

RoundStep(e) == (\E a \in Alerts : AlertStep(e, a)) \/ Finish(e) \/ Dies(e)

Next ==
    \/ \E e \in Rounds : Begin(e) \/ RoundStep(e)
    \/ \E a \in Alerts : Create(a) \/ Delete(a)
    \/ \E t \in Requests : SwitchStep(t)
    \/ Restart

Spec == Init /\ [][Next]_vars

\* The loop runs rounds for ever; a condition that holds again and again when
\* the loop looks is met at one of those looks.
FairSpec ==
    /\ Spec
    /\ WF_vars(Begin(Loop)) /\ WF_vars(RoundStep(Loop))
    /\ \A a \in Alerts : SF_vars(Hits(Loop, a))

-----------------------------------------------------------------------------
(* Properties.                                                             *)

\* An alert places at most one order, and only once it is claimed, whichever
\* rounds, restarts, deletions and lost answers come together.
OneOrderPerAlert == \A a \in Alerts : orders[a] <= 1 /\ (orders[a] = 1 => a \in fired)

\* No live order passes the gateway while the switch is on for good.
ArmedBlocks ==
    [][\A e \in Rounds, a \in Live :
         (At(e, a, "guard") /\ pc'[e] \in {"loss", "submit"}) => ~armed]_vars

\* An alert that is spent was ordered, or its row says what went wrong, unless it
\* was blocked or asked for no order, the round was cut short before it wrote the
\* error, or another round held an older error of the alert and wiped it out.
SpentIsAccountedFor ==
    \A a \in fired \cap present :
        \/ orders[a] = 1
        \/ a \in erred
        \/ a \in excused
        \/ \E e \in Rounds : Holding(e, a)

\* An alert whose condition keeps holding fires in the end, whatever the others
\* do before it in the same round.
RipeFires ==
    \A a \in Alerts \ Broken :
        a \in present ~> (a \in fired \/ a \notin present)
=============================================================================
