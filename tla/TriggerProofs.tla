---------------------------- MODULE TriggerProofs -----------------------------
(***************************************************************************)
(* Proofs about the two that order by themselves when a price is reached:  *)
(* the AlertMonitor, with the KillSwitch it obeys, for any alerts, rounds, *)
(* requests and faults, and the stop-loss of RealTime, with the quote feed *)
(* it listens to, for any stocks, clients and bounds.                      *)
(***************************************************************************)
EXTENDS AlertMonitor, RealTime, FiniteSetTheorems, SequenceTheorems, TLAPS

-----------------------------------------------------------------------------
(* The kill switch: if the requests do not overlap, one that is on for good    *)
(* stays on.                                                                   *)

\* A request under way is the only one and the last word; memory already shows
\* what it asks for, and what it read is still in the table.
Serial ==
    \A t \in Requests : InFlight(t) =>
        /\ \A u \in Requests \ {t} : ~InFlight(u)
        /\ ~armed
        /\ enabled = call[t].on
        /\ call[t].pc = "write" => call[t].seen = stored

\* SwitchHolds is not inductive: a restart needs the row.
Mirrored == armed => enabled /\ stored = "true"

SwitchInv == SwitchTypeOK /\ Serial /\ Mirrored

USE DEF switchVars, Stored, CallSteps, InFlight

LEMMA SwitchInitInv == SwitchInit => SwitchInv
<1> SUFFICES ASSUME SwitchInit PROVE SwitchInv
  OBVIOUS
<1>1. \A t \in Requests : call[t] = [pc |-> "new", on |-> FALSE, seen |-> "absent"]
  BY DEF SwitchInit, Over
<1>2. SwitchTypeOK
  <2>1. enabled \in BOOLEAN /\ armed \in BOOLEAN
    BY SwitchAssumption, Zenon DEF SwitchInit
  <2>2. call \in [Requests -> [pc : CallSteps, on : BOOLEAN, seen : Stored]]
    BY DEF SwitchInit, Over
  <2>3. restarts \in 0..MaxRestarts /\ locks \in 0..MaxLocks
    BY SwitchAssumption DEF SwitchInit
  <2> QED
    BY <2>1, <2>2, <2>3 DEF SwitchInit, SwitchTypeOK
<1>3. Serial /\ Mirrored
  BY <1>1 DEF SwitchInit, Serial, Mirrored
<1> QED
  BY <1>2, <1>3 DEF SwitchInv

LEMMA SwitchTyping ==
    ASSUME SwitchTypeOK, SwitchNext \/ UNCHANGED switchVars
    PROVE  SwitchTypeOK'
<1>1. ASSUME NEW t \in Requests, NEW on \in BOOLEAN, SetSwitch(t, on)
      PROVE  SwitchTypeOK'
  BY <1>1 DEF SwitchTypeOK, SetSwitch
<1>2. ASSUME NEW t \in Requests, ReadStored(t)
      PROVE  SwitchTypeOK'
  BY <1>2 DEF SwitchTypeOK, ReadStored
<1>3. ASSUME NEW t \in Requests, WriteStored(t)
      PROVE  SwitchTypeOK'
  BY <1>3 DEF SwitchTypeOK, WriteStored, Answer, Shown, Over
<1>4. ASSUME NEW t \in Requests, WriteFails(t)
      PROVE  SwitchTypeOK'
  <2>1. call' \in [Requests -> [pc : CallSteps, on : BOOLEAN, seen : Stored]]
    BY <1>4 DEF WriteFails, Over, SwitchTypeOK
  <2>2. locks' \in 0..MaxLocks
    BY <1>4, SwitchAssumption DEF WriteFails, SwitchTypeOK
  <2> QED
    BY <1>4, <2>1, <2>2 DEF WriteFails, SwitchTypeOK
<1>5. ASSUME RestartSwitch
      PROVE  SwitchTypeOK'
  <2>1. call' \in [Requests -> [pc : CallSteps, on : BOOLEAN, seen : Stored]]
    BY <1>5 DEF SwitchTypeOK, RestartSwitch, Over
  <2>2. Restored \in BOOLEAN
    BY SwitchAssumption, Zenon DEF Restored
  <2>3. enabled' \in BOOLEAN /\ armed' \in BOOLEAN
    BY <1>5, <2>2, SwitchAssumption, Zenon DEF SwitchTypeOK, RestartSwitch
  <2>4. restarts' \in 0..MaxRestarts
    BY <1>5, SwitchAssumption DEF SwitchTypeOK, RestartSwitch
  <2> QED
    BY <1>5, <2>1, <2>3, <2>4 DEF SwitchTypeOK, RestartSwitch
<1>6. CASE UNCHANGED switchVars
  BY <1>6 DEF SwitchTypeOK
<1> QED
  BY <1>1, <1>2, <1>3, <1>4, <1>5, <1>6 DEF SwitchNext, CallStep

LEMMA SwitchStepInv ==
    ASSUME SwitchInv, Overlapping = FALSE, SwitchNext \/ UNCHANGED switchVars
    PROVE  SwitchInv'
<1>0. SwitchTypeOK /\ SwitchTypeOK'
  BY SwitchTyping DEF SwitchInv
<1> SUFFICES Serial' /\ Mirrored'
  BY <1>0 DEF SwitchInv
<1>1. ASSUME NEW t \in Requests, NEW on \in BOOLEAN, SetSwitch(t, on)
      PROVE  Serial' /\ Mirrored'
  BY <1>0, <1>1 DEF SwitchInv, SwitchTypeOK, Serial, Mirrored, SetSwitch
<1>2. ASSUME NEW t \in Requests, ReadStored(t)
      PROVE  Serial' /\ Mirrored'
  BY <1>0, <1>2 DEF SwitchInv, SwitchTypeOK, Serial, Mirrored, ReadStored
<1>3. ASSUME NEW t \in Requests, WriteStored(t)
      PROVE  Serial' /\ Mirrored'
  BY <1>0, <1>3 DEF SwitchInv, SwitchTypeOK, Serial, Mirrored, WriteStored, Answer, Shown, Over
<1>4. ASSUME NEW t \in Requests, WriteFails(t)
      PROVE  Serial' /\ Mirrored'
  <2>1. call' = [call EXCEPT ![t] = [pc |-> "failed", on |-> FALSE, seen |-> "absent"]]
    BY <1>4 DEF WriteFails, Over
  <2> QED
    BY <1>0, <1>4, <2>1 DEF WriteFails, SwitchInv, SwitchTypeOK, Serial, Mirrored
<1>5. ASSUME RestartSwitch
      PROVE  Serial' /\ Mirrored'
  <2>1. \A t \in Requests : ~InFlight(t)'
    BY <1>5 DEF RestartSwitch, Over
  <2>2. Mirrored'
    BY <1>5 DEF SwitchInv, Mirrored, RestartSwitch, Restored
  <2> QED
    BY <2>1, <2>2 DEF Serial
<1>6. CASE UNCHANGED switchVars
  BY <1>6 DEF SwitchInv, Serial, Mirrored
<1> QED
  BY <1>1, <1>2, <1>3, <1>4, <1>5, <1>6 DEF SwitchNext, CallStep

\* With one request at a time, turning the switch on holds across every restart
\* that can read the row, and whatever write failed.
THEOREM SerialSwitchHolds ==
    ASSUME Overlapping = FALSE
    PROVE  SwitchSpec => []SwitchHolds
<1>1. SwitchInit => SwitchInv
  BY SwitchInitInv
<1>2. SwitchInv /\ [SwitchNext]_switchVars => SwitchInv'
  BY SwitchStepInv
<1>3. SwitchInv => SwitchHolds
  BY DEF SwitchInv, Mirrored, SwitchHolds
<1> QED
  BY <1>1, <1>2, <1>3, PTL DEF SwitchSpec

-----------------------------------------------------------------------------
(* The monitor.                                                                *)

\* Where a round stands that has won an alert and not yet decided its order.
Spending == {"guard", "loss", "submit"}

\* At most one round is about to order for an alert.
OneClaimer ==
    \A e, f \in Rounds, a \in Alerts :
        /\ pc[e] \in Spending /\ First(e, a)
        /\ pc[f] \in Spending /\ First(f, a)
        => e = f

\* A round that is about to order has claimed the alert, and nobody ordered before.
Unspent ==
    \A e \in Rounds, a \in Alerts :
        pc[e] \in Spending /\ First(e, a) => a \in fired /\ orders[a] = 0

AlertInv == TypeOK /\ OneClaimer /\ Unspent /\ OneOrderPerAlert

LEMMA FirstUnique ==
    ASSUME TypeOK, NEW e \in Rounds, NEW a \in Alerts, NEW b \in Alerts, First(e, a), First(e, b)
    PROVE  a = b
BY AlertAssumption DEF First, TypeOK

LEMMA AlertInitInv == Init => AlertInv
<1> SUFFICES ASSUME Init PROVE AlertInv
  OBVIOUS
<1>1. SwitchTypeOK
  BY SwitchInitInv DEF Init, SwitchInv
<1>2. TypeOK
  BY <1>1 DEF Init, TypeOK, RoundSteps
<1>3. OneClaimer /\ Unspent /\ OneOrderPerAlert
  BY DEF Init, OneClaimer, Unspent, OneOrderPerAlert, Spending
<1> QED
  BY <1>2, <1>3 DEF AlertInv

-----------------------------------------------------------------------------
(* Type correctness.                                                       *)

LEMMA AdvanceTyping ==
    ASSUME TypeOK, NEW e \in Rounds, NEW a \in Alerts, Advance(e, a), pc[e] \notin {"off", "commit"}
    PROVE  /\ pc' \in [Rounds -> RoundSteps]
           /\ todo' \in [Rounds -> SUBSET Alerts]
           /\ \A f \in Rounds : pc'[f] \in {"off", "commit"} <=> todo'[f] = {}
BY DEF TypeOK, Advance, Goto, RoundSteps

LEMMA LeaveTyping ==
    ASSUME TypeOK, NEW e \in Rounds, Leave(e)
    PROVE  /\ pc' \in [Rounds -> RoundSteps]
           /\ todo' \in [Rounds -> SUBSET Alerts] /\ touched' \in [Rounds -> SUBSET Alerts]
           /\ read' \in [Rounds -> SUBSET Alerts] /\ noted' \in [Rounds -> SUBSET Alerts]
           /\ \A f \in Rounds : pc'[f] \in {"off", "commit"} <=> todo'[f] = {}
BY DEF TypeOK, Leave, Goto, RoundSteps

LEMMA NoteTyping ==
    ASSUME TypeOK, NEW e \in Rounds, NEW a \in Alerts, NEW isError \in BOOLEAN, Note(e, a, isError)
    PROVE  /\ touched' \in [Rounds -> SUBSET Alerts]
           /\ read' \in [Rounds -> SUBSET Alerts] /\ noted' \in [Rounds -> SUBSET Alerts]
BY DEF TypeOK, Note

LEMMA AlertStepTyping ==
    ASSUME TypeOK, NEW e \in Rounds, NEW a \in Alerts, AlertStep(e, a)
    PROVE  TypeOK'
<1> USE DEF switchVars, rowVars
<1>0. SwitchTypeOK'
  <2>1. UNCHANGED switchVars
    BY DEF AlertStep, Fails, Misses, Hits, Claim, Guard, CheckLoss, Ordered, OrderRaises
  <2> QED
    BY <2>1, SwitchTyping DEF TypeOK
<1>1. CASE Fails(e, a)
  BY <1>0, <1>1, AdvanceTyping, NoteTyping DEF Fails, At, TypeOK
<1>2. CASE Misses(e, a)
  BY <1>0, <1>2, AdvanceTyping, NoteTyping DEF Misses, At, TypeOK
<1>3. CASE Hits(e, a)
  BY <1>0, <1>3, NoteTyping DEF Hits, At, TypeOK, Goto, RoundSteps
<1>4. CASE Claim(e, a)
  <2>1. fired' \subseteq Alerts /\ erred' \subseteq Alerts /\ excused' \subseteq Alerts
    <3>1. fired' \subseteq fired \cup {a} /\ excused' \subseteq excused \cup {a}
      BY <1>4 DEF Claim
    <3>2. erred' \subseteq Alerts
      BY <1>4 DEF Claim, CanFlush, Flush, TypeOK
    <3> QED
      BY <3>1, <3>2 DEF TypeOK
  <2>2. /\ touched' \in [Rounds -> SUBSET Alerts]
        /\ read' \in [Rounds -> SUBSET Alerts] /\ noted' \in [Rounds -> SUBSET Alerts]
    BY <1>4 DEF Claim, TypeOK
  <2>3. CASE Goto(e, "guard") /\ UNCHANGED todo
    BY <1>0, <1>4, <2>1, <2>2, <2>3 DEF Claim, At, TypeOK, Goto, RoundSteps
  <2>4. CASE Advance(e, a)
    BY <1>0, <1>4, <2>1, <2>2, <2>4, AdvanceTyping DEF Claim, At, TypeOK
  <2> QED
    BY <1>4, <2>3, <2>4 DEF Claim
<1>5. CASE Guard(e, a)
  <2>1. CASE Advance(e, a) /\ excused' = excused \cup {a}
    BY <1>0, <1>5, <2>1, AdvanceTyping DEF Guard, At, TypeOK
  <2>2. ASSUME NEW s \in {"loss", "submit"}, Goto(e, s), UNCHANGED <<todo, excused>>
        PROVE  TypeOK'
    BY <1>0, <1>5, <2>2 DEF Guard, At, TypeOK, Goto, RoundSteps
  <2> QED
    BY <1>5, <2>1, <2>2 DEF Guard
<1>6. CASE CheckLoss(e, a)
  <2>1. CASE Advance(e, a) /\ excused' = excused \cup {a}
    BY <1>0, <1>6, <2>1, AdvanceTyping DEF CheckLoss, At, TypeOK
  <2>2. CASE Goto(e, "submit") /\ UNCHANGED <<todo, excused>>
    BY <1>0, <1>6, <2>2 DEF CheckLoss, At, TypeOK, Goto, RoundSteps
  <2> QED
    BY <1>6, <2>1, <2>2 DEF CheckLoss
<1>7. CASE Ordered(e, a)
  BY <1>0, <1>7, AdvanceTyping DEF Ordered, At, TypeOK
<1>8. CASE OrderRaises(e, a)
  <2>1. orders' \in [Alerts -> Nat]
    BY <1>8 DEF OrderRaises, TypeOK
  <2> QED
    BY <1>0, <1>8, <2>1, AdvanceTyping, NoteTyping DEF OrderRaises, At, TypeOK
<1> QED
  BY <1>1, <1>2, <1>3, <1>4, <1>5, <1>6, <1>7, <1>8 DEF AlertStep

LEMMA OtherStepTyping ==
    ASSUME TypeOK,
           \/ \E e \in Rounds : Begin(e) \/ Finish(e) \/ Dies(e)
           \/ \E a \in Alerts : Create(a) \/ Delete(a)
           \/ \E t \in Requests : SwitchStep(t)
           \/ Restart
           \/ UNCHANGED vars
    PROVE  TypeOK'
<1> USE DEF rowVars, roundVars
<1>1. ASSUME NEW e \in Rounds, Begin(e)
      PROVE  TypeOK'
  <2>1. SwitchTypeOK'
    BY <1>1, SwitchTyping DEF Begin, TypeOK
  <2> QED
    BY <1>1, <2>1 DEF Begin, Goto, TypeOK, RoundSteps
<1>2. ASSUME NEW e \in Rounds, Finish(e)
      PROVE  TypeOK'
  <2>1. SwitchTypeOK'
    BY <1>2, SwitchTyping DEF Finish, TypeOK
  <2>2. erred' \subseteq Alerts
    BY <1>2 DEF Finish, CanFlush, Flush, TypeOK
  <2> QED
    BY <1>2, <2>1, <2>2, LeaveTyping DEF Finish, TypeOK
<1>3. ASSUME NEW e \in Rounds, Dies(e)
      PROVE  TypeOK'
  <2>1. locks' \in 0..MaxLocks
    BY <1>3, SwitchAssumption DEF Dies, TypeOK, SwitchTypeOK
  <2>2. SwitchTypeOK'
    BY <1>3, <2>1 DEF Dies, TypeOK, SwitchTypeOK
  <2> QED
    BY <1>3, <2>2, LeaveTyping DEF Dies, TypeOK
<1>4. ASSUME NEW a \in Alerts, Create(a) \/ Delete(a)
      PROVE  TypeOK'
  <2>1. SwitchTypeOK'
    BY <1>4, SwitchTyping DEF Create, Delete, TypeOK
  <2> QED
    BY <1>4, <2>1 DEF Create, Delete, TypeOK
<1>5. ASSUME NEW t \in Requests, SwitchStep(t)
      PROVE  TypeOK'
  <2>1. SwitchTypeOK'
    BY <1>5, SwitchTyping DEF SwitchStep, SwitchNext, TypeOK
  <2> QED
    BY <1>5, <2>1 DEF SwitchStep, TypeOK
<1>6. CASE Restart
  <2>1. SwitchTypeOK'
    BY <1>6, SwitchTyping DEF Restart, SwitchNext, TypeOK
  <2> QED
    BY <1>6, <2>1 DEF Restart, TypeOK, RoundSteps
<1>7. CASE UNCHANGED vars
  <2>1. SwitchTypeOK'
    BY <1>7, SwitchTyping DEF vars, TypeOK
  <2> QED
    BY <1>7, <2>1 DEF vars, TypeOK
<1> QED
  BY <1>1, <1>2, <1>3, <1>4, <1>5, <1>6, <1>7

\* Every variable keeps its type, whatever the requests, rounds and faults do.
THEOREM AlertsTypeCorrect == Spec => []TypeOK
<1>1. Init => TypeOK
  BY AlertInitInv DEF AlertInv
<1>2. TypeOK /\ [Next]_vars => TypeOK'
  BY AlertStepTyping, OtherStepTyping DEF Next, RoundStep
<1> QED
  BY <1>1, <1>2, PTL DEF Spec

-----------------------------------------------------------------------------
(* One order per alert.                                                    *)

\* What the steps other than AlertStep leave alone: they start or end rounds
\* and take no decision on an order.
Quiet ==
    /\ orders' = orders /\ fired' = fired
    /\ \A e \in Rounds : pc'[e] \in Spending => pc'[e] = pc[e] /\ todo'[e] = todo[e]

LEMMA OtherStepQuiet ==
    ASSUME TypeOK,
           \/ \E e \in Rounds : Begin(e) \/ Finish(e) \/ Dies(e)
           \/ \E a \in Alerts : Create(a) \/ Delete(a)
           \/ \E t \in Requests : SwitchStep(t)
           \/ Restart
           \/ UNCHANGED vars
    PROVE  Quiet
<1> USE DEF rowVars, roundVars, Quiet, Spending
<1>1. ASSUME NEW e \in Rounds, Begin(e) \/ Finish(e) \/ Dies(e)
      PROVE  Quiet
  BY <1>1 DEF TypeOK, Begin, Finish, Dies, Leave, Goto
<1>2. CASE \E a \in Alerts : Create(a) \/ Delete(a)
  BY <1>2 DEF Create, Delete
<1>3. CASE \E t \in Requests : SwitchStep(t)
  BY <1>3 DEF SwitchStep
<1>4. CASE Restart
  BY <1>4 DEF Restart
<1>5. CASE UNCHANGED vars
  BY <1>5 DEF vars
<1> QED
  BY <1>1, <1>2, <1>3, <1>4, <1>5

LEMMA QuietInv ==
    ASSUME AlertInv, TypeOK', Quiet
    PROVE  AlertInv'
BY DEF AlertInv, OneClaimer, Unspent, OneOrderPerAlert, Quiet, First

\* The steps of a round on one alert keep the invariant: only the winner of a claim
\* comes to order, and it has not ordered before.
LEMMA AlertStepInv ==
    ASSUME AlertInv, TypeOK', NEW e \in Rounds, NEW a \in Alerts, AlertStep(e, a)
    PROVE  AlertInv'
<1> USE DEF Spending, AlertInv, rowVars
<1>0. \A f \in Rounds \ {e} : pc'[f] = pc[f] /\ todo'[f] = todo[f]
  BY DEF AlertStep, Fails, Misses, Hits, Claim, Guard, CheckLoss, Ordered, OrderRaises,
         Advance, Goto, TypeOK
<1>1. CASE Fails(e, a) \/ Misses(e, a) \/ Hits(e, a)
  <2>1. pc'[e] \notin Spending /\ orders' = orders /\ fired' = fired
    BY <1>1 DEF Fails, Misses, Hits, Advance, Goto, TypeOK
  <2> QED
    BY <1>0, <2>1 DEF OneClaimer, Unspent, OneOrderPerAlert, First
<1>2. CASE Claim(e, a)
  <2>1. CASE Wins(e, a)
    <3>1. pc' = [pc EXCEPT ![e] = "guard"] /\ todo' = todo /\ orders' = orders
          /\ fired' = fired \cup {a} /\ a \notin fired /\ First(e, a)
      BY <1>2, <2>1 DEF Claim, Goto, Wins, At
    <3>2. orders[a] = 0
      BY <3>1 DEF OneOrderPerAlert, TypeOK
    <3>3. \A f \in Rounds : ~(pc[f] \in Spending /\ First(f, a))
      BY <3>1 DEF Unspent
    <3>4. \A b \in Alerts : First(e, b) => b = a
      BY <3>1, FirstUnique
    <3>5. OneClaimer' /\ Unspent'
      BY <3>1, <3>2, <3>3, <3>4 DEF OneClaimer, Unspent, First, TypeOK
    <3> QED
      BY <3>1, <3>5 DEF OneOrderPerAlert
  <2>2. CASE ~Wins(e, a)
    <3>1. pc'[e] \notin Spending /\ orders' = orders /\ fired' = fired
      BY <1>2, <2>2 DEF Claim, Advance, Goto, TypeOK
    <3> QED
      BY <1>0, <3>1 DEF OneClaimer, Unspent, OneOrderPerAlert, First
  <2> QED
    BY <2>1, <2>2
<1>3. CASE Guard(e, a) \/ CheckLoss(e, a)
  <2>1. orders' = orders /\ fired' = fired /\ pc[e] \in Spending
    BY <1>3 DEF Guard, CheckLoss, At
  <2>2. pc'[e] \in Spending => todo'[e] = todo[e]
    BY <1>3 DEF Guard, CheckLoss, Advance, Goto, TypeOK
  <2> QED
    BY <1>0, <2>1, <2>2 DEF OneClaimer, Unspent, OneOrderPerAlert, First
<1>4. CASE Ordered(e, a) \/ OrderRaises(e, a)
  <2>1. /\ fired' = fired /\ pc[e] \in Spending /\ First(e, a)
        /\ pc'[e] \notin Spending
        /\ orders' = orders \/ orders' = [orders EXCEPT ![a] = @ + 1]
    BY <1>4 DEF Ordered, OrderRaises, At, Advance, Goto, TypeOK
  <2>2. a \in fired /\ orders[a] = 0
    BY <2>1 DEF Unspent
  <2>3. OneOrderPerAlert'
    BY <2>1, <2>2 DEF OneOrderPerAlert, TypeOK
  <2>4. \A f \in Rounds \ {e} : ~(pc[f] \in Spending /\ First(f, a))
    BY <2>1 DEF OneClaimer
  <2>5. OneClaimer'
    BY <1>0, <2>1 DEF OneClaimer, First
  <2>6. \A b \in Alerts \ {a} : orders'[b] = orders[b]
    BY <2>1 DEF TypeOK
  <2>7. Unspent'
    BY <1>0, <2>1, <2>4, <2>6 DEF Unspent, First
  <2> QED
    BY <2>3, <2>5, <2>7
<1> QED
  BY <1>1, <1>2, <1>3, <1>4 DEF AlertStep

LEMMA AlertNextInv == AlertInv /\ [Next]_vars => AlertInv'
<1> SUFFICES ASSUME AlertInv, [Next]_vars PROVE AlertInv'
  OBVIOUS
<1>1. TypeOK'
  BY AlertStepTyping, OtherStepTyping DEF Next, RoundStep, AlertInv
<1>2. CASE \E e \in Rounds, a \in Alerts : AlertStep(e, a)
  BY <1>1, <1>2, AlertStepInv
<1>3. CASE ~\E e \in Rounds, a \in Alerts : AlertStep(e, a)
  BY <1>1, <1>3, OtherStepQuiet, QuietInv DEF Next, RoundStep, AlertInv
<1> QED
  BY <1>2, <1>3

\* No alert is ever ordered twice, nor without its claim, for any number of
\* rounds and restarts, whatever deletions and failures come between.
THEOREM AlertsOrderOnce == Spec => []OneOrderPerAlert
<1>1. AlertInv => OneOrderPerAlert
  BY DEF AlertInv
<1> QED
  BY <1>1, AlertInitInv, AlertNextInv, PTL DEF Spec

-----------------------------------------------------------------------------
(* The kill switch.                                                        *)

LEMMA AlertSwitchInv ==
    ASSUME Overlapping = FALSE
    PROVE  SwitchInv /\ [Next]_vars => SwitchInv'
<1> SUFFICES ASSUME SwitchInv, [Next]_vars PROVE SwitchInv'
  OBVIOUS
<1> USE DEF rowVars, roundVars
<1>1. ASSUME NEW e \in Rounds, Dies(e)
      PROVE  SwitchInv'
  <2>1. locks' \in 0..MaxLocks
    BY <1>1, SwitchAssumption DEF Dies, SwitchInv, SwitchTypeOK
  <2>2. SwitchTypeOK'
    BY <1>1, <2>1 DEF Dies, SwitchInv, SwitchTypeOK
  <2>3. UNCHANGED <<enabled, stored, call, newest, armed, restarts>>
    BY <1>1 DEF Dies
  <2>4. Serial' /\ Mirrored'
    BY <2>3 DEF SwitchInv, Serial, Mirrored, InFlight
  <2> QED
    BY <2>2, <2>4 DEF SwitchInv
<1>2. CASE \E t \in Requests : SwitchStep(t)
  BY <1>2, SwitchStepInv DEF SwitchStep, SwitchNext
<1>3. CASE Restart
  BY <1>3, SwitchStepInv DEF Restart, SwitchNext
<1>4. ASSUME NEW e \in Rounds, NEW a \in Alerts, AlertStep(e, a)
      PROVE  UNCHANGED switchVars
  BY <1>4 DEF AlertStep, Fails, Misses, Hits, Claim, Guard, CheckLoss, Ordered, OrderRaises
<1>5. ASSUME NEW e \in Rounds, Begin(e) \/ Finish(e)
      PROVE  UNCHANGED switchVars
  BY <1>5 DEF Begin, Finish
<1>6. ASSUME NEW a \in Alerts, Create(a) \/ Delete(a)
      PROVE  UNCHANGED switchVars
  BY <1>6 DEF Create, Delete
<1>7. CASE UNCHANGED vars
  BY <1>7, SwitchStepInv DEF vars
<1> QED
  BY <1>1, <1>2, <1>3, <1>4, <1>5, <1>6, <1>7, SwitchStepInv DEF Next, RoundStep

\* If requests to the switch do not overlap, no live order passes the gateway
\* once the switch is on for good, across every restart that can read the row.
THEOREM ArmedSwitchBlocks ==
    ASSUME Overlapping = FALSE
    PROVE  Spec => ArmedBlocks
<1>1. Init => SwitchInv
  BY SwitchInitInv DEF Init
<1>2. SwitchInv /\ [Next]_vars => SwitchInv'
  BY AlertSwitchInv
<1>3. AlertInv /\ SwitchInv /\ [Next]_vars =>
        [\A e \in Rounds, a \in Live :
           (At(e, a, "guard") /\ pc'[e] \in {"loss", "submit"}) => ~armed]_vars
  <2> SUFFICES ASSUME AlertInv, SwitchInv, Next, NEW e \in Rounds, NEW a \in Live,
                      At(e, a, "guard"), pc'[e] \in {"loss", "submit"}
               PROVE  ~armed
    BY DEF AlertInv
  <2>1. a \in Alerts
    BY AlertAssumption
  <2>2. CASE \E f \in Rounds, b \in Alerts : AlertStep(f, b)
    <3> PICK f \in Rounds, b \in Alerts : AlertStep(f, b)
      BY <2>2
    <3>1. f = e
      BY DEF AlertStep, Fails, Misses, Hits, Claim, Guard, CheckLoss, Ordered, OrderRaises,
             Advance, Goto, At, AlertInv, TypeOK
    <3>2. Guard(e, b)
      BY <3>1 DEF AlertStep, Fails, Misses, Hits, Claim, CheckLoss, Ordered, OrderRaises, At
    <3>3. b = a
      BY <2>1, <3>2, FirstUnique DEF Guard, At, AlertInv
    <3>4. ~enabled
      BY <3>2, <3>3 DEF Guard, Guarded, Advance, Goto, AlertInv, TypeOK
    <3> QED
      BY <3>4 DEF SwitchInv, Mirrored
  <2>3. CASE ~\E f \in Rounds, b \in Alerts : AlertStep(f, b)
    <3>1. Quiet
      BY <2>3, OtherStepQuiet DEF Next, RoundStep, AlertInv
    <3> QED
      BY <3>1 DEF Quiet, Spending, At
  <2> QED
    BY <2>2, <2>3
<1> QED
  BY <1>1, <1>2, <1>3, AlertInitInv, AlertNextInv, PTL DEF Spec, ArmedBlocks
-----------------------------------------------------------------------------
(* What becomes of a spent alert.                                          *)

\* What a round knows of alerts it has not written: it has changed nothing of an
\* alert that is still to come, an alert it wins has no error in memory, and an
\* error of an alert to come is one that was read.
Unwritten(e) ==
    /\ pc[e] = "off" => touched[e] = {}
    /\ \A a \in touched[e] \cap todo[e] : At(e, a, "claim")
    /\ \A a \in todo[e] : At(e, a, "claim") => a \notin noted[e]
    /\ noted[e] \cap todo[e] \subseteq read[e]

\* A round handles, and claims, what has been created.
Created == fired \subseteq made /\ \A e \in Rounds : todo[e] \subseteq made

\* Only of an alert that is excused can a round wipe out the error.
Unread == \A e \in Rounds : read[e] \cap fired \subseteq excused

AccountInv ==
    /\ AlertInv
    /\ \A e \in Rounds : Unwritten(e)
    /\ Created /\ Unread
    /\ SpentIsAccountedFor

\* A round holds an alert that it decides on, or whose error it has not written.
LEMMA HoldingMeans ==
    ASSUME NEW e \in Rounds, NEW a \in Alerts
    PROVE  Holding(e, a) <=> (pc[e] \in Spending /\ First(e, a)) \/ a \in touched[e] \cap noted[e]
BY DEF Holding, At, Spending

\* A flush wipes out no error that counts, and writes what is noted.
LEMMA FlushKeeps ==
    ASSUME AccountInv, NEW e \in Rounds, Flush(e), NEW b \in fired, b \notin excused,
           b \in erred \/ b \in touched[e] \cap noted[e]
    PROVE  b \in erred'
BY DEF AccountInv, Unread, Flush

\* A step of one round leaves what the others hold and know.
LEMMA AlertStepFrame ==
    ASSUME TypeOK, NEW e \in Rounds, NEW a \in Alerts, AlertStep(e, a)
    PROVE  /\ \A f \in Rounds \ {e} : /\ pc'[f] = pc[f] /\ todo'[f] = todo[f]
                                      /\ touched'[f] = touched[f] /\ read'[f] = read[f]
                                      /\ noted'[f] = noted[f]
           /\ todo'[e] \subseteq todo[e]
           /\ fired' \subseteq fired \cup {a} /\ excused \subseteq excused'
           /\ a \in todo[e]
           /\ UNCHANGED <<made, present>>
<1> USE DEF TypeOK, rowVars, roundVars, Note, Advance, Goto, At, First
<1>1. CASE Fails(e, a)
  BY <1>1 DEF Fails
<1>2. CASE Misses(e, a)
  BY <1>2 DEF Misses
<1>3. CASE Hits(e, a)
  BY <1>3 DEF Hits
<1>4. CASE Claim(e, a)
  BY <1>4 DEF Claim
<1>5. CASE Guard(e, a)
  BY <1>5 DEF Guard
<1>6. CASE CheckLoss(e, a)
  BY <1>6 DEF CheckLoss
<1>7. CASE Ordered(e, a)
  BY <1>7 DEF Ordered
<1>8. CASE OrderRaises(e, a)
  BY <1>8 DEF OrderRaises
<1> QED
  BY <1>1, <1>2, <1>3, <1>4, <1>5, <1>6, <1>7, <1>8 DEF AlertStep

LEMMA UnwrittenFrame ==
    ASSUME NEW f \in Rounds, Unwritten(f), pc'[f] = pc[f], todo'[f] = todo[f],
           touched'[f] = touched[f], read'[f] = read[f], noted'[f] = noted[f]
    PROVE  Unwritten(f)'
BY DEF Unwritten, At, First

LEMMA HoldingFrame ==
    ASSUME NEW f \in Rounds, NEW b \in Alerts, Holding(f, b), pc'[f] = pc[f], todo'[f] = todo[f],
           touched'[f] = touched[f], noted'[f] = noted[f]
    PROVE  Holding(f, b)'
BY DEF Holding, At, First

\* What is left to show of a step of round e: what it knows, and what becomes of the
\* alerts that it holds.
LEMMA AccountStep ==
    ASSUME AccountInv, AlertInv', NEW e \in Rounds, NEW a \in Alerts, AlertStep(e, a),
           Unwritten(e)', Unread',
           \A b \in fired' \cap present :
              \/ b \notin fired \/ orders[b] = 1 \/ b \in erred \/ Holding(e, b)
              => orders'[b] = 1 \/ b \in erred' \/ b \in excused' \/ Holding(e, b)'
    PROVE  AccountInv'
<1>1. \A f \in Rounds : Unwritten(f)'
  BY AlertStepFrame, UnwrittenFrame DEF AccountInv, AlertInv
<1>2. Created'
  BY AlertStepFrame DEF AccountInv, AlertInv, Created
<1>3. ASSUME NEW b \in fired' \cap present'
      PROVE  \/ orders'[b] = 1 \/ b \in erred' \/ b \in excused'
             \/ \E f \in Rounds : Holding(f, b)'
  <2>1. b \in Alerts /\ b \in present /\ b \in fired' /\ excused \subseteq excused'
    BY AlertStepFrame DEF AccountInv, AlertInv, TypeOK
  <2>2. CASE \E f \in Rounds \ {e} : Holding(f, b)
    <3> PICK f \in Rounds \ {e} : Holding(f, b)
      BY <2>2
    <3>1. Holding(f, b)'
      BY <2>1, AlertStepFrame, HoldingFrame DEF AccountInv, AlertInv
    <3> QED
      BY <3>1
  <2>3. CASE ~\E f \in Rounds \ {e} : Holding(f, b)
    <3>1. \/ b \notin fired \/ orders[b] = 1 \/ b \in erred \/ Holding(e, b) \/ b \in excused
      BY <2>1, <2>3 DEF AccountInv, SpentIsAccountedFor
    <3> QED
      BY <2>1, <3>1
  <2> QED
    BY <2>2, <2>3
<1> QED
  BY <1>1, <1>2, <1>3 DEF AccountInv, SpentIsAccountedFor

LEMMA QuoteAccount ==
    ASSUME AccountInv, AlertInv', NEW e \in Rounds, NEW a \in Alerts,
           Fails(e, a) \/ Misses(e, a) \/ Hits(e, a)
    PROVE  AccountInv'
<1> USE DEF AccountInv, AlertInv
<1>1. /\ pc[e] = "quote" /\ First(e, a) /\ touched'[e] = touched[e] \cup {a} /\ read' = read
      /\ noted'[e] \in {noted[e] \cup {a}, noted[e] \ {a}}
      /\ UNCHANGED <<fired, orders, erred, excused>>
  BY DEF Fails, Misses, Hits, At, Note, TypeOK, rowVars
<1>2. \/ pc'[e] \in {"quote", "commit"} /\ todo'[e] = todo[e] \ {a}
      \/ pc'[e] = "claim" /\ todo'[e] = todo[e] /\ noted'[e] = noted[e] \ {a}
  BY DEF Fails, Misses, Hits, Note, Advance, Goto, TypeOK
<1>3. touched[e] \cap todo[e] = {}
  BY <1>1 DEF Unwritten, At
<1>4. Unwritten(e)'
  <2>1. CASE pc'[e] \in {"quote", "commit"} /\ todo'[e] = todo[e] \ {a}
    BY <1>1, <1>3, <2>1 DEF Unwritten, At
  <2>2. CASE pc'[e] = "claim" /\ todo'[e] = todo[e] /\ noted'[e] = noted[e] \ {a}
    <3>1. \A b \in Alerts : First(e, b)' => b = a
      BY <1>1, <2>2, FirstUnique DEF First
    <3>2. First(e, a)'
      BY <1>1, <2>2 DEF First
    <3> QED
      BY <1>1, <1>3, <2>2, <3>1, <3>2 DEF Unwritten, At, TypeOK
  <2> QED
    BY <1>2, <2>1, <2>2
<1>5. Unread'
  BY <1>1 DEF Unread
<1>6. ASSUME NEW b \in fired, Holding(e, b) PROVE Holding(e, b)'
  <2>1. b \in Alerts /\ b \in touched[e] \cap noted[e]
    BY <1>1, <1>6, HoldingMeans DEF Spending, TypeOK
  <2>2. b # a
    BY <1>1, <1>3, <2>1 DEF First
  <2> QED
    BY <1>1, <2>1, <2>2 DEF Holding
<1> QED
  BY <1>1, <1>4, <1>5, <1>6, AccountStep DEF AlertStep

LEMMA ClaimAccount ==
    ASSUME AccountInv, AlertInv', NEW e \in Rounds, NEW a \in Alerts, Claim(e, a)
    PROVE  AccountInv'
<1> USE DEF AccountInv, AlertInv
<1>1. /\ At(e, a, "claim") /\ Flush(e) /\ touched'[e] = {} /\ orders' = orders
      /\ read'[e] = noted[e] \cap todo[e] /\ noted'[e] = noted[e] \cap todo[e]
      /\ \A f \in Rounds \ {e} : read'[f] = read[f]
      /\ a \in todo[e] /\ pc[e] = "claim"
  BY DEF Claim, At, First, TypeOK
<1>2. a \notin noted[e]
  BY <1>1 DEF Unwritten
<1>3. \/ /\ a \notin fired /\ fired' = fired \cup {a} /\ pc'[e] = "guard" /\ todo' = todo
         /\ excused' = excused \cup {b \in {a} : \E f \in Rounds \ {e} : b \in read[f]}
      \/ /\ a \in fired /\ fired' = fired /\ pc'[e] \in {"quote", "commit"}
         /\ todo'[e] = todo[e] \ {a} /\ excused' = excused
  BY DEF Claim, Wins, Advance, Goto, TypeOK
<1>4. Unwritten(e)'
  BY <1>1, <1>3 DEF Unwritten, At
<1>5. Unread'
  <2> SUFFICES ASSUME NEW f \in Rounds, NEW b \in read'[f] \cap fired' PROVE b \in excused'
    BY DEF Unread
  <2>1. b \in read[f]
    BY <1>1 DEF Unwritten
  <2>2. CASE b \in fired
    BY <1>3, <2>1, <2>2 DEF Unread
  <2>3. CASE b \notin fired
    <3>1. b = a /\ f # e
      BY <1>1, <1>2, <1>3, <2>3
    <3> QED
      BY <1>3, <2>1, <2>3, <3>1
  <2> QED
    BY <2>2, <2>3
<1>6. ASSUME NEW b \in fired' \cap present,
             \/ b \notin fired \/ orders[b] = 1 \/ b \in erred \/ Holding(e, b)
      PROVE  orders'[b] = 1 \/ b \in erred' \/ b \in excused' \/ Holding(e, b)'
  <2>1. CASE b \notin fired
    <3>1. b = a /\ pc'[e] = "guard" /\ First(e, a)'
      BY <1>1, <1>3, <2>1 DEF At, First
    <3> QED
      BY <3>1 DEF Holding, At
  <2>2. CASE b \in fired /\ (b \in erred \/ Holding(e, b))
    <3>1. b \in erred \/ b \in touched[e] \cap noted[e]
      BY <1>1, <2>2, HoldingMeans DEF Spending, TypeOK
    <3>2. b \in excused \/ b \in erred'
      BY <1>1, <2>2, <3>1, FlushKeeps
    <3> QED
      BY <1>3, <3>2
  <2> QED
    BY <1>1, <1>6, <2>1, <2>2
<1> QED
  BY <1>4, <1>5, <1>6, AccountStep DEF AlertStep

LEMMA DecideAccount ==
    ASSUME AccountInv, AlertInv', NEW e \in Rounds, NEW a \in Alerts,
           Guard(e, a) \/ CheckLoss(e, a)
    PROVE  AccountInv'
<1> USE DEF AccountInv, AlertInv
<1>1. /\ pc[e] \in Spending /\ First(e, a)
      /\ UNCHANGED <<touched, read, noted, fired, orders, erred>>
  BY DEF Guard, CheckLoss, At, Spending, rowVars
<1>2. \/ /\ a \in excused' /\ excused \subseteq excused' /\ todo'[e] = todo[e] \ {a}
         /\ pc'[e] \in {"quote", "commit"}
      \/ /\ excused' = excused /\ todo' = todo /\ pc'[e] \in Spending
  BY DEF Guard, CheckLoss, Advance, Goto, TypeOK, Spending
<1>3. touched[e] \cap todo[e] = {}
  BY <1>1 DEF Unwritten, At, Spending
<1>4. Unwritten(e)'
  BY <1>1, <1>2, <1>3 DEF Unwritten, At, Spending
<1>5. Unread'
  BY <1>1, <1>2 DEF Unread
<1>6. ASSUME NEW b \in fired, Holding(e, b) PROVE b \in excused' \/ Holding(e, b)'
  <2>1. b \in Alerts
    BY DEF TypeOK
  <2>2. CASE b \in touched[e] \cap noted[e]
    BY <1>1, <2>2 DEF Holding
  <2>3. CASE First(e, b)
    <3>1. b = a
      BY <1>1, <2>1, <2>3, FirstUnique
    <3>2. CASE pc'[e] \in Spending /\ todo' = todo
      BY <1>1, <3>1, <3>2 DEF Holding, At, Spending, First
    <3> QED
      BY <1>2, <3>1, <3>2
  <2> QED
    BY <1>6, <2>1, <2>2, <2>3, HoldingMeans
<1> QED
  BY <1>1, <1>4, <1>5, <1>6, AccountStep DEF AlertStep

LEMMA OrderAccount ==
    ASSUME AccountInv, AlertInv', NEW e \in Rounds, NEW a \in Alerts,
           Ordered(e, a) \/ OrderRaises(e, a)
    PROVE  AccountInv'
<1> USE DEF AccountInv, AlertInv
<1>1. /\ pc[e] = "submit" /\ First(e, a) /\ pc'[e] \in {"quote", "commit"}
      /\ todo'[e] = todo[e] \ {a} /\ UNCHANGED <<read, fired, erred, excused>>
  BY DEF Ordered, OrderRaises, At, Advance, Goto, Note, TypeOK, rowVars
<1>2. touched[e] \cap todo[e] = {}
  BY <1>1 DEF Unwritten, At
<1>3. orders[a] = 0
  BY <1>1 DEF Unspent, Spending
<1>4. \/ UNCHANGED <<touched, noted>> /\ orders' = [orders EXCEPT ![a] = orders[a] + 1]
      \/ /\ touched'[e] = touched[e] \cup {a} /\ noted'[e] = noted[e] \cup {a}
         /\ orders' = orders \/ orders' = [orders EXCEPT ![a] = orders[a] + 1]
  BY DEF Ordered, OrderRaises, Note, TypeOK
<1>5. Unwritten(e)'
  BY <1>1, <1>2, <1>4 DEF Unwritten, At
<1>6. Unread'
  BY <1>1 DEF Unread
<1>7. ASSUME NEW b \in fired, orders[b] = 1 \/ Holding(e, b)
      PROVE  orders'[b] = 1 \/ Holding(e, b)'
  <2>1. b \in Alerts /\ orders \in [Alerts -> Nat]
    BY DEF TypeOK
  <2>2. CASE b = a
    <3>1. orders'[b] = 1 \/ b \in touched'[e] \cap noted'[e]
      BY <1>3, <1>4, <2>1, <2>2
    <3> QED
      BY <3>1 DEF Holding
  <2>3. CASE b # a
    <3>1. ~First(e, b)
      BY <1>1, <2>1, <2>3, FirstUnique
    <3>2. orders[b] = 1 \/ b \in touched[e] \cap noted[e]
      BY <1>7, <2>1, <3>1, HoldingMeans
    <3>3. orders'[b] = orders[b] /\ touched[e] \subseteq touched'[e] /\ noted[e] \subseteq noted'[e]
      BY <1>4, <2>1, <2>3
    <3> QED
      BY <3>2, <3>3 DEF Holding
  <2> QED
    BY <2>2, <2>3
<1> QED
  BY <1>1, <1>5, <1>6, <1>7, AccountStep DEF AlertStep

\* The beginning and the end of a round.
LEMMA RoundAccount ==
    ASSUME AccountInv, AlertInv', NEW e \in Rounds, Begin(e) \/ Finish(e) \/ Dies(e)
    PROVE  AccountInv'
<1> USE DEF AccountInv, AlertInv
<1>1. /\ \A f \in Rounds \ {e} : /\ pc'[f] = pc[f] /\ todo'[f] = todo[f]
                                 /\ touched'[f] = touched[f] /\ read'[f] = read[f]
                                 /\ noted'[f] = noted[f]
      /\ excused \subseteq excused' /\ UNCHANGED <<fired, orders, made, present>>
      /\ touched'[e] = {} /\ todo'[e] \subseteq made /\ noted'[e] = read'[e]
      /\ read'[e] \cap fired = {} /\ pc'[e] \in {"off", "quote"}
  <2>1. CASE Begin(e)
    <3>1. touched[e] = {}
      BY <2>1 DEF Begin, Unwritten
    <3>2. present \ fired \subseteq made
      BY DEF TypeOK
    <3> QED
      BY <2>1, <3>1, <3>2 DEF Begin, Goto, TypeOK, rowVars
  <2>2. CASE Finish(e) \/ Dies(e)
    <3>1. Leave(e) /\ excused \subseteq excused' /\ UNCHANGED <<fired, orders, made, present>>
      BY <2>2 DEF Finish, Dies, rowVars
    <3> QED
      BY <3>1 DEF Leave, Goto, TypeOK
  <2> QED
    BY <2>1, <2>2
<1>2. \A f \in Rounds : Unwritten(f)'
  BY <1>1, UnwrittenFrame DEF Unwritten, At
<1>3. Created'
  BY <1>1 DEF Created
<1>4. Unread'
  BY <1>1 DEF Unread
<1>5. ASSUME NEW b \in fired, b \in erred \/ Holding(e, b)
      PROVE  b \in erred' \/ b \in excused'
  <2>1. b \in Alerts
    BY DEF TypeOK
  <2>2. CASE Begin(e)
    BY <2>1, <2>2, <1>5, HoldingMeans DEF Begin, Unwritten, Spending, rowVars
  <2>3. CASE Finish(e)
    BY <2>1, <2>3, <1>5, HoldingMeans, FlushKeeps DEF Finish, Spending
  <2>4. CASE Dies(e)
    BY <2>1, <2>4, <1>5, HoldingMeans DEF Dies, Spending, rowVars
  <2> QED
    BY <2>2, <2>3, <2>4
<1>6. ASSUME NEW b \in fired' \cap present'
      PROVE  \/ orders'[b] = 1 \/ b \in erred' \/ b \in excused'
             \/ \E f \in Rounds : Holding(f, b)'
  <2>1. b \in Alerts /\ b \in fired \cap present
    BY <1>1 DEF TypeOK
  <2>2. CASE \E f \in Rounds \ {e} : Holding(f, b)
    BY <1>1, <2>1, <2>2, HoldingFrame
  <2>3. CASE ~\E f \in Rounds \ {e} : Holding(f, b)
    <3>1. orders[b] = 1 \/ b \in erred \/ b \in excused \/ Holding(e, b)
      BY <2>1, <2>3 DEF SpentIsAccountedFor
    <3> QED
      BY <1>1, <1>5, <2>1, <3>1
  <2> QED
    BY <2>2, <2>3
<1> QED
  BY <1>2, <1>3, <1>4, <1>6 DEF SpentIsAccountedFor

\* The user, the switch and the process.
LEMMA WorldAccount ==
    ASSUME AccountInv, AlertInv',
           \/ \E a \in Alerts : Create(a) \/ Delete(a)
           \/ \E t \in Requests : SwitchStep(t)
           \/ Restart
           \/ UNCHANGED vars
    PROVE  AccountInv'
<1> USE DEF AccountInv, AlertInv, rowVars, roundVars
<1>1. ASSUME NEW a \in Alerts, Create(a) \/ Delete(a) PROVE AccountInv'
  <2>1. /\ UNCHANGED <<fired, erred, roundVars, orders, excused>>
        /\ made \subseteq made' /\ present' \cap made \subseteq present
    BY <1>1 DEF Create, Delete
  <2>2. \A f \in Rounds : Unwritten(f)'
    BY <2>1 DEF Unwritten, At, First
  <2>3. Created' /\ Unread'
    BY <2>1 DEF Created, Unread
  <2>4. fired' \cap present' \subseteq fired \cap present
    BY <2>1 DEF Created
  <2>5. SpentIsAccountedFor'
    BY <2>1, <2>4 DEF SpentIsAccountedFor, Holding, At, First
  <2> QED
    BY <2>2, <2>3, <2>5
<1>2. CASE (\E t \in Requests : SwitchStep(t)) \/ UNCHANGED vars
  <2>1. UNCHANGED <<rowVars, roundVars, orders, excused>>
    BY <1>2 DEF SwitchStep, vars
  <2>2. \A f \in Rounds : Unwritten(f)'
    BY <2>1 DEF Unwritten, At, First
  <2>3. Created' /\ Unread'
    BY <2>1 DEF Created, Unread
  <2>4. SpentIsAccountedFor'
    BY <2>1 DEF SpentIsAccountedFor, Holding, At, First
  <2> QED
    BY <2>2, <2>3, <2>4
<1>3. CASE Restart
  <2>1. /\ UNCHANGED <<rowVars, orders>>
        /\ excused' = excused \cup {a \in fired : \E e \in Rounds : Holding(e, a)}
        /\ \A f \in Rounds : todo'[f] = {} /\ touched'[f] = {} /\ read'[f] = {} /\ noted'[f] = {}
    BY <1>3 DEF Restart
  <2>2. \A f \in Rounds : Unwritten(f)'
    BY <2>1 DEF Unwritten
  <2>3. Created' /\ Unread'
    BY <2>1 DEF Created, Unread
  <2>4. SpentIsAccountedFor'
    BY <2>1 DEF SpentIsAccountedFor
  <2> QED
    BY <2>2, <2>3, <2>4
<1> QED
  BY <1>1, <1>2, <1>3

LEMMA AccountNextInv == AccountInv /\ [Next]_vars => AccountInv'
<1> SUFFICES ASSUME AccountInv, [Next]_vars PROVE AccountInv'
  OBVIOUS
<1>1. AlertInv'
  BY AlertNextInv DEF AccountInv
<1>2. ASSUME NEW e \in Rounds, NEW a \in Alerts, AlertStep(e, a) PROVE AccountInv'
  BY <1>1, <1>2, QuoteAccount, ClaimAccount, DecideAccount, OrderAccount DEF AlertStep
<1>3. ASSUME NEW e \in Rounds, Begin(e) \/ Finish(e) \/ Dies(e) PROVE AccountInv'
  BY <1>1, <1>3, RoundAccount
<1>4. CASE \/ \E a \in Alerts : Create(a) \/ Delete(a)
           \/ \E t \in Requests : SwitchStep(t)
           \/ Restart
           \/ UNCHANGED vars
  BY <1>1, <1>4, WorldAccount
<1> QED
  BY <1>2, <1>3, <1>4 DEF Next, RoundStep

\* For any alerts, rounds, deletions and failures: an alert that is spent was
\* ordered, or its row says why not, or it is excused or still being handled.
THEOREM SpentAlertsAccountedFor == Spec => []SpentIsAccountedFor
<1>1. Init => AccountInv
  <2> SUFFICES ASSUME Init PROVE AccountInv
    OBVIOUS
  <2>1. \A e \in Rounds : Unwritten(e)
    BY DEF Init, Unwritten
  <2>2. Created /\ Unread /\ SpentIsAccountedFor
    BY DEF Init, Created, Unread, SpentIsAccountedFor
  <2> QED
    BY <2>1, <2>2, AlertInitInv DEF AccountInv
<1>2. AccountInv => SpentIsAccountedFor
  BY DEF AccountInv
<1> QED
  BY <1>1, <1>2, AccountNextInv, PTL DEF Spec

-----------------------------------------------------------------------------
(* The stop-loss and the feed.                                             *)

\* A stock with an accepted sale stays triggered, unless the handler failed after
\* it; for the one that is being ordered it has failed after each.
Once ==
    /\ \A s \in Stocks : sales[s] <= lapsed[s] + (IF s \in triggered THEN 1 ELSE 0)
    /\ stage \in {"order", "sold"} => tick \in triggered
    /\ stage = "order" => sales[tick] <= lapsed[tick]

\* The requests for a code that are still to be sent.
Pending(s) == {i \in DOMAIN sends : sends[i].code = s}

\* What a queue of requests is about to do to a code: from some request for it on,
\* they all ask for what _subscribed_codes says, so that the last one does.
Settles(s) ==
    IF Pending(s) = {}
    THEN s \in live <=> s \in subscribed
    ELSE \E i \in Pending(s) : \A j \in Pending(s) : j >= i => (sends[j].on <=> s \in subscribed)

\* An open socket settles to what _subscribed_codes says; a closed one is empty.
Fed ==
    /\ link = "up" => \A s \in Stocks : Settles(s)
    /\ link = "down" => sends = <<>> /\ live = {}

\* Nothing that anybody watches or holds is forgotten.
Remembered ==
    /\ defaults \subseteq subscribed
    /\ \A c \in online : watch[c] \subseteq subscribed \cup released
    /\ reconciled \subseteq subscribed \cup released
    /\ reconciling \in {"subscribing", "letting go"} => Latest \subseteq subscribed \cup released

RealTimeInv == RealTimeTypeOK /\ Once /\ Fed /\ Remembered
-----------------------------------------------------------------------------
(* Requests.                                                               *)

Request == [by : Clients \cup {"feed", "task"}, code : Stocks, on : BOOLEAN]

\* Codes put in order: each of them, and nothing else.
LEMMA InOrder ==
    ASSUME NEW codes \in SUBSET Stocks
    PROVE  \E n \in Nat : /\ SetToSeq(codes) \in [1..n -> codes]
                          /\ \A s \in codes : \E i \in 1..n : SetToSeq(codes)[i] = s
<1> DEFINE n == Cardinality(codes)
           order == SetToSeq(codes)
<1>1. IsFiniteSet(codes)
    BY FS_Subset, RealTimeAssumption
<1>2. n \in Nat /\ ExistsBijection(1..n, codes)
    BY <1>1, FS_CardinalityType
<1>3. order \in Injection(1..n, codes)
  <2>1. \E f \in [1..n -> codes] : IsInjective(f)
    BY <1>2 DEF ExistsBijection, Bijection, Injection
  <2>2. order \in [1..n -> codes] /\ IsInjective(order)
    BY <2>1 DEF SetToSeq
  <2> HIDE DEF order
  <2> QED
    BY <2>2 DEF Injection
<1>4. order \in [1..n -> codes]
    BY <1>3 DEF Injection
<1>5. \A s \in codes : \E i \in 1..n : order[i] = s
  <2>1. Cardinality(1..n) = n
    BY <1>2, FS_Interval
  <2>2. order \in Surjection(1..n, codes)
    BY <1>1, <1>3, <2>1, FS_Injection
  <2> QED
    BY <2>2 DEF Surjection
<1> QED
    BY <1>2, <1>4, <1>5

\* A subscription asks for each of its codes and for nothing else ...
LEMMA RequestsOn ==
    ASSUME NEW who \in Clients \cup {"feed", "task"}, NEW codes \in SUBSET Stocks
    PROVE  LET r == SendsOf(who, codes, TRUE) IN
           /\ r \in Seq(Request)
           /\ \A i \in 1..Len(r) : r[i].code \in codes /\ r[i].on
           /\ \A s \in codes : \E i \in 1..Len(r) : r[i].code = s
<1> DEFINE order == SetToSeq(codes)
           r == SendsOf(who, codes, TRUE)
<1>1. PICK n \in Nat : /\ order \in [1..n -> codes]
                       /\ \A s \in codes : \E i \in 1..n : order[i] = s
    BY InOrder
<1>2. r = [i \in 1..n |-> [by |-> who, code |-> order[i], on |-> TRUE]]
    BY <1>1 DEF SendsOf
<1> HIDE DEF order, r
<1>3. ASSUME NEW i \in 1..n PROVE r[i] \in Request /\ r[i].code = order[i] /\ r[i].on
  <2>1. r[i] = [by |-> who, code |-> order[i], on |-> TRUE] /\ order[i] \in Stocks
    BY <1>1, <1>2
  <2>2. r[i] \in Request
    BY <2>1 DEF Request
  <2>3. r[i].code = order[i]
    BY <2>1
  <2>4. r[i].on
    BY <2>1
  <2> QED
    BY <2>2, <2>3, <2>4
<1>4. r \in Seq(Request) /\ Len(r) = n
  <2>1. r \in [1..n -> Request]
    BY <1>2, <1>3
  <2> QED
    BY <1>1, <2>1
<1>5. /\ \A i \in 1..Len(r) : r[i].code \in codes /\ r[i].on
      /\ \A s \in codes : \E i \in 1..Len(r) : r[i].code = s
    BY <1>1, <1>3, <1>4
<1> QED
    BY <1>4, <1>5 DEF r

\* ... and so does its end.
LEMMA RequestsOff ==
    ASSUME NEW who \in Clients \cup {"feed", "task"}, NEW codes \in SUBSET Stocks
    PROVE  LET r == SendsOf(who, codes, FALSE) IN
           /\ r \in Seq(Request)
           /\ \A i \in 1..Len(r) : r[i].code \in codes /\ ~r[i].on
           /\ \A s \in codes : \E i \in 1..Len(r) : r[i].code = s
<1> DEFINE order == SetToSeq(codes)
           r == SendsOf(who, codes, FALSE)
<1>1. PICK n \in Nat : /\ order \in [1..n -> codes]
                       /\ \A s \in codes : \E i \in 1..n : order[i] = s
    BY InOrder
<1>2. r = [i \in 1..n |-> [by |-> who, code |-> order[i], on |-> FALSE]]
    BY <1>1 DEF SendsOf
<1> HIDE DEF order, r
<1>3. ASSUME NEW i \in 1..n PROVE r[i] \in Request /\ r[i].code = order[i] /\ ~r[i].on
  <2>1. r[i] = [by |-> who, code |-> order[i], on |-> FALSE] /\ order[i] \in Stocks
    BY <1>1, <1>2
  <2>2. r[i] \in Request
    BY <2>1 DEF Request
  <2>3. r[i].code = order[i]
    BY <2>1
  <2>4. ~r[i].on
    BY <2>1
  <2> QED
    BY <2>2, <2>3, <2>4
<1>4. r \in Seq(Request) /\ Len(r) = n
  <2>1. r \in [1..n -> Request]
    BY <1>2, <1>3
  <2> QED
    BY <1>1, <2>1
<1>5. /\ \A i \in 1..Len(r) : r[i].code \in codes /\ ~r[i].on
      /\ \A s \in codes : \E i \in 1..Len(r) : r[i].code = s
    BY <1>1, <1>3, <1>4
<1> QED
    BY <1>4, <1>5 DEF r

\* Sending the next request settles a code as before.
LEMMA SendSettles ==
    ASSUME sends \in Seq(Request), sends # <<>>, sends' = Tail(sends),
           live' = IF Head(sends).on THEN live \cup {Head(sends).code}
                   ELSE live \ {Head(sends).code},
           subscribed' = subscribed, NEW s \in Stocks, Settles(s)
    PROVE  Settles(s)'
<1>1. /\ Head(sends) = sends[1] /\ sends' \in Seq(Request) /\ Len(sends') = Len(sends) - 1
      /\ \A i \in 1..Len(sends') : sends'[i] = sends[i + 1]
      /\ Len(sends) \in Nat /\ Len(sends) > 0
    BY HeadTailProperties
<1>2. /\ DOMAIN sends = 1..Len(sends) /\ DOMAIN sends' = 1..Len(sends')
      /\ \A i \in 1..Len(sends) : sends[i] \in Request
    BY <1>1
<1>3. /\ \A i \in Pending(s)' : i + 1 \in Pending(s) /\ sends'[i] = sends[i + 1]
      /\ \A i \in Pending(s) : i \in Nat /\ i >= 1
      /\ \A i \in Pending(s)' : i \in Nat /\ i >= 1
    BY <1>1, <1>2 DEF Pending
<1>4. \A i \in Pending(s) : i > 1 => i - 1 \in Pending(s)' /\ sends'[i - 1] = sends[i]
  <2> SUFFICES ASSUME NEW i \in Pending(s), i > 1
               PROVE  i - 1 \in Pending(s)' /\ sends'[i - 1] = sends[i]
    OBVIOUS
  <2>1. i \in 1..Len(sends) /\ sends[i].code = s
    BY <1>2 DEF Pending
  <2>2. i - 1 \in 1..Len(sends') /\ (i - 1) + 1 = i
    BY <1>1, <2>1
  <2>3. sends'[i - 1] = sends[i]
    BY <1>1, <2>2
  <2> QED
    BY <1>2, <2>1, <2>2, <2>3 DEF Pending
<1>5. CASE Pending(s) = {}
  <2>1. Pending(s)' = {} /\ sends[1].code # s
    BY <1>1, <1>2, <1>3, <1>5 DEF Pending
  <2>2. s \in live' <=> s \in live
    BY <1>1, <2>1
  <2> QED
    BY <1>5, <2>1, <2>2 DEF Settles
<1>6. CASE Pending(s) # {}
  <2>1. PICK i \in Pending(s) : \A j \in Pending(s) : j >= i => (sends[j].on <=> s \in subscribed)
    BY <1>6 DEF Settles
  <2>2. CASE Pending(s)' = {}
    <3>1. i = 1 /\ sends[1].code = s
      <4>1. i = 1
        BY <1>3, <1>4, <2>2
      <4>2. sends[i].code = s
        BY DEF Pending
      <4> QED
        BY <4>1, <4>2
    <3>2. sends[1].on <=> s \in subscribed
      BY <2>1, <3>1
    <3>3. s \in live' <=> s \in subscribed
      BY <1>1, <3>1, <3>2
    <3> QED
      BY <2>2, <3>3 DEF Settles
  <2>3. CASE Pending(s)' # {}
    <3>1. \E k \in Pending(s)' : \A j \in Pending(s)' : j >= k => (sends'[j].on <=> s \in subscribed)
      <4>1. CASE i = 1
        <5>1. PICK k \in Pending(s)' : TRUE
          BY <2>3
        <5>2. ASSUME NEW j \in Pending(s)' PROVE sends'[j].on <=> s \in subscribed
          <6>1. j + 1 \in Pending(s) /\ sends'[j] = sends[j + 1] /\ j + 1 >= i
            BY <1>3, <4>1
          <6> QED
            BY <2>1, <6>1
        <5> QED
          BY <5>1, <5>2
      <4>2. CASE i > 1
        <5>1. i - 1 \in Pending(s)'
          BY <1>4, <4>2
        <5>2. ASSUME NEW j \in Pending(s)', j >= i - 1 PROVE sends'[j].on <=> s \in subscribed
          <6>1. i \in Nat /\ j \in Nat /\ j + 1 \in Pending(s) /\ sends'[j] = sends[j + 1]
            BY <1>3
          <6>2. j + 1 >= i
            BY <5>2, <6>1
          <6> QED
            BY <2>1, <6>1, <6>2
        <5> QED
          BY <5>1, <5>2
      <4>3. i = 1 \/ i > 1
        BY <1>3
      <4> QED
        BY <4>1, <4>2, <4>3, Zenon
    <3> QED
      BY <2>3, <3>1 DEF Settles
  <2> QED
    BY <2>2, <2>3
<1> QED
  BY <1>5, <1>6

\* Requests that join the queue settle a code if they ask for what is noted of it.
LEMMA AppendSettles ==
    ASSUME sends \in Seq(Request), NEW r \in Seq(Request), sends' = sends \o r, live' = live,
           NEW s \in Stocks, Settles(s),
           \A i \in 1..Len(r) : r[i].code = s => (r[i].on <=> s \in subscribed'),
           (\A i \in 1..Len(r) : r[i].code # s) => (s \in subscribed' <=> s \in subscribed)
    PROVE  Settles(s)'
<1> DEFINE n == Len(sends)
<1>1. /\ sends' \in Seq(Request) /\ Len(sends') = n + Len(r)
      /\ \A i \in 1..(n + Len(r)) : sends'[i] = IF i <= n THEN sends[i] ELSE r[i - n]
      /\ n \in Nat /\ Len(r) \in Nat
    BY ConcatProperties
<1>2. DOMAIN sends = 1..n /\ DOMAIN sends' = 1..(n + Len(r))
    BY <1>1
<1>3. \A i \in 1..n : sends'[i] = sends[i] /\ i \in DOMAIN sends'
    BY <1>1, <1>2
<1>4. \A i \in 1..Len(r) : /\ sends'[n + i] = r[i] /\ n + i \in DOMAIN sends'
                           /\ n + i > n
  <2> SUFFICES ASSUME NEW i \in 1..Len(r)
               PROVE  sends'[n + i] = r[i] /\ n + i \in DOMAIN sends' /\ n + i > n
    OBVIOUS
  <2>1. n + i \in 1..(n + Len(r)) /\ ~(n + i <= n) /\ (n + i) - n = i /\ n + i > n
    BY <1>1
  <2> QED
    BY <1>1, <1>2, <2>1
<1>5. \A i \in DOMAIN sends' : i \in 1..n \/ (i > n /\ \E k \in 1..Len(r) : i = n + k)
  <2> SUFFICES ASSUME NEW i \in DOMAIN sends', i \notin 1..n
               PROVE  i > n /\ \E k \in 1..Len(r) : i = n + k
    OBVIOUS
  <2>1. i > n /\ i - n \in 1..Len(r) /\ i = n + (i - n)
    BY <1>1, <1>2
  <2> QED
    BY <2>1
<1>6. /\ \A i \in Pending(s) : i \in Pending(s)' /\ i \in 1..n /\ i \in Nat
      /\ \A i \in Pending(s)' : i \in Nat /\ (i \in Pending(s) \/
              (i > n /\ \E k \in 1..Len(r) : i = n + k /\ r[k].code = s /\ sends'[i] = r[k]))
  <2>1. \A i \in Pending(s) : i \in Pending(s)' /\ i \in 1..n /\ i \in Nat
    BY <1>1, <1>2, <1>3 DEF Pending
  <2>2. ASSUME NEW i \in Pending(s)'
        PROVE  i \in Nat /\ (i \in Pending(s) \/
                (i > n /\ \E k \in 1..Len(r) : i = n + k /\ r[k].code = s /\ sends'[i] = r[k]))
    <3>1. i \in DOMAIN sends' /\ sends'[i].code = s
      BY DEF Pending
    <3>2. i \in Nat
      BY <1>1, <1>2, <3>1
    <3>3. CASE i \in 1..n
      BY <1>2, <1>3, <3>1, <3>2, <3>3 DEF Pending
    <3>4. CASE i > n /\ \E k \in 1..Len(r) : i = n + k
      BY <1>4, <3>1, <3>2, <3>4
    <3> QED
      BY <1>5, <3>1, <3>3, <3>4
  <2> QED
    BY <2>1, <2>2
<1> HIDE DEF n
<1>7. CASE \A i \in 1..Len(r) : r[i].code # s
  <2>1. Pending(s)' = Pending(s)
    BY <1>6, <1>7
  <2>2. \A i \in Pending(s) : sends'[i] = sends[i]
    BY <1>3, <1>6
  <2> QED
    BY <1>7, <2>1, <2>2 DEF Settles
<1>8. CASE \E i \in 1..Len(r) : r[i].code = s
  <2>1. PICK k \in 1..Len(r) : r[k].code = s
    BY <1>8
  <2>2. n + k \in Pending(s)' /\ n + k > n
    BY <1>4, <2>1 DEF Pending
  <2>3. \A j \in Pending(s)' : j >= n + k => (sends'[j].on <=> s \in subscribed')
    <3> SUFFICES ASSUME NEW j \in Pending(s)', j >= n + k
                 PROVE  sends'[j].on <=> s \in subscribed'
      OBVIOUS
    <3>1. j \notin Pending(s)
      BY <1>1, <1>6, <2>1 DEF n
    <3>2. PICK l \in 1..Len(r) : r[l].code = s /\ sends'[j] = r[l]
      BY <1>6, <3>1
    <3> QED
      BY <3>2
  <2> QED
    BY <2>2, <2>3 DEF Settles
<1> QED
  BY <1>7, <1>8

LEMMA FedBySubscribing ==
    ASSUME RealTimeTypeOK, Fed, NEW who \in Clients \cup {"feed", "task"},
           NEW codes \in SUBSET Stocks, SubscribeUpstream(who, codes)
    PROVE  Fed' /\ sends' \in Seq(Request) /\ subscribed' = subscribed \cup codes
<1> DEFINE r == SendsOf(who, codes \ subscribed, TRUE)
<1>1. /\ r \in Seq(Request)
      /\ \A i \in 1..Len(r) : r[i].code \in codes \ subscribed /\ r[i].on
      /\ \A s \in codes \ subscribed : \E i \in 1..Len(r) : r[i].code = s
  <2>1. codes \ subscribed \in SUBSET Stocks
    OBVIOUS
  <2> QED
    BY <2>1, RequestsOn
<1> HIDE DEF r
<1>2. /\ subscribed' = subscribed \cup codes /\ link' = link /\ live' = live
      /\ sends' = IF link = "up" THEN sends \o r ELSE sends
    BY DEF SubscribeUpstream, r
<1>3. sends \in Seq(Request)
    BY DEF RealTimeTypeOK, Request
<1>4. CASE link = "up"
  <2>1. sends' \in Seq(Request)
    BY <1>1, <1>2, <1>3, <1>4, ConcatProperties
  <2>2. ASSUME NEW s \in Stocks PROVE Settles(s)'
    <3>1. Settles(s)
      BY <1>4 DEF Fed
    <3>2. \A i \in 1..Len(r) : r[i].code = s => (r[i].on <=> s \in subscribed')
      BY <1>1, <1>2
    <3>3. (\A i \in 1..Len(r) : r[i].code # s) => (s \in subscribed' <=> s \in subscribed)
      BY <1>1, <1>2
    <3> QED
      BY <1>1, <1>2, <1>3, <1>4, <3>1, <3>2, <3>3, AppendSettles
  <2> QED
    BY <1>2, <1>4, <2>1, <2>2 DEF Fed
<1>5. CASE link = "down"
    BY <1>2, <1>3, <1>5 DEF Fed
<1> QED
    BY <1>4, <1>5, <1>2 DEF RealTimeTypeOK

LEMMA FedByUnsubscribing ==
    ASSUME RealTimeTypeOK, Fed, NEW who \in Clients \cup {"feed", "task"},
           NEW codes \in SUBSET Stocks, UnsubscribeUpstream(who, codes)
    PROVE  Fed' /\ sends' \in Seq(Request) /\ subscribed' = subscribed \ codes
<1> DEFINE r == SendsOf(who, codes \cap subscribed, FALSE)
<1>1. /\ r \in Seq(Request)
      /\ \A i \in 1..Len(r) : r[i].code \in codes \cap subscribed /\ ~r[i].on
      /\ \A s \in codes \cap subscribed : \E i \in 1..Len(r) : r[i].code = s
  <2>1. codes \cap subscribed \in SUBSET Stocks
    OBVIOUS
  <2> QED
    BY <2>1, RequestsOff
<1> HIDE DEF r
<1>2. /\ subscribed' = subscribed \ codes /\ link' = link /\ live' = live
      /\ sends' = IF link = "up" THEN sends \o r ELSE sends
    BY DEF UnsubscribeUpstream, r
<1>3. sends \in Seq(Request)
    BY DEF RealTimeTypeOK, Request
<1>4. CASE link = "up"
  <2>1. sends' \in Seq(Request)
    BY <1>1, <1>2, <1>3, <1>4, ConcatProperties
  <2>2. ASSUME NEW s \in Stocks PROVE Settles(s)'
    <3>1. Settles(s)
      BY <1>4 DEF Fed
    <3>2. \A i \in 1..Len(r) : r[i].code = s => (r[i].on <=> s \in subscribed')
      BY <1>1, <1>2
    <3>3. (\A i \in 1..Len(r) : r[i].code # s) => (s \in subscribed' <=> s \in subscribed)
      BY <1>1, <1>2
    <3> QED
      BY <1>1, <1>2, <1>3, <1>4, <3>1, <3>2, <3>3, AppendSettles
  <2> QED
    BY <1>2, <1>4, <2>1, <2>2 DEF Fed
<1>5. CASE link = "down"
    BY <1>2, <1>3, <1>5 DEF Fed
<1> QED
    BY <1>4, <1>5, <1>2 DEF RealTimeTypeOK

LEMMA FedByConnecting ==
    ASSUME RealTimeTypeOK, Fed, Connect
    PROVE  Fed' /\ sends' \in Seq(Request)
<1> DEFINE r == SendsOf("feed", subscribed, TRUE)
<1>1. /\ r \in Seq(Request)
      /\ \A i \in 1..Len(r) : r[i].code \in subscribed /\ r[i].on
      /\ \A s \in subscribed : \E i \in 1..Len(r) : r[i].code = s
  <2>1. subscribed \in SUBSET Stocks
    BY DEF RealTimeTypeOK
  <2> QED
    BY <2>1, RequestsOn
<1> HIDE DEF r
<1>2. /\ subscribed' = subscribed /\ link' = "up" /\ live' = live /\ live = {}
      /\ sends' = r
    BY DEF Connect, Fed, r
<1>3. ASSUME NEW s \in Stocks PROVE Settles(s)'
  <2>1. DOMAIN r = 1..Len(r)
    BY <1>1
  <2>2. Pending(s)' = {i \in 1..Len(r) : r[i].code = s}
    BY <1>2, <2>1 DEF Pending
  <2>3. CASE s \in subscribed
    <3>1. PICK i \in 1..Len(r) : r[i].code = s
      BY <1>1, <2>3
    <3> QED
      BY <1>1, <1>2, <2>2, <2>3, <3>1 DEF Settles
  <2>4. CASE s \notin subscribed
    BY <1>1, <1>2, <2>2, <2>4 DEF Settles
  <2> QED
    BY <2>3, <2>4
<1> QED
    BY <1>1, <1>2, <1>3 DEF Fed

LEMMA FedBySending ==
    ASSUME RealTimeTypeOK, Fed, Send
    PROVE  Fed' /\ sends' \in Seq(Request) /\ live' \subseteq Stocks
<1> USE DEF worldVars, linkVars, riskVars, clientVars, taskVars, boundVars, historyVars
<1>1. /\ sends \in Seq(Request) /\ sends # <<>> /\ sends' = Tail(sends)
      /\ live' = IF Head(sends).on THEN live \cup {Head(sends).code}
                 ELSE live \ {Head(sends).code}
      /\ subscribed' = subscribed /\ link' = link /\ link = "up"
    BY DEF Send, RealTimeTypeOK, Request, Fed
<1>2. sends' \in Seq(Request) /\ Head(sends) \in Request
    BY <1>1, HeadTailProperties
<1>3. \A s \in Stocks : Settles(s)'
    BY <1>1, SendSettles DEF Fed
<1> QED
    BY <1>1, <1>2, <1>3 DEF Fed, RealTimeTypeOK, Request

LEMMA FedByClosing ==
    ASSUME RealTimeTypeOK, Closed
    PROVE  /\ Fed' /\ sends' = <<>> /\ sends' \in Seq(Request) /\ live' = {}
           /\ subscribed' = subscribed /\ link' = "down"
           /\ online' \subseteq online /\ watch' \in [Clients -> SUBSET Stocks]
           /\ \A c \in Clients : watch'[c] \subseteq watch[c]
           /\ reconciling' \in {reconciling, "sleep"} /\ reconciled' = reconciled
<1>1. <<>> \in Seq(Request)
    BY EmptySeq
<1> QED
    BY <1>1 DEF Closed, Fed, RealTimeTypeOK
-----------------------------------------------------------------------------
(* Types, and the feed.                                                    *)

LEMMA NoStockIsOne == NoStock \in Stocks
  BY RealTimeAssumption DEF NoStock

LEMMA FedUnchanged == Fed /\ UNCHANGED linkVars => Fed'
  BY DEF Fed, linkVars, Settles, Pending

LEMMA NothingIsABalance == Nothing \in [Stocks -> {0, Shares}] /\ Nothing \in [Stocks -> Nat]
  BY DEF Nothing

LEMMA Inspected ==
    ASSUME RealTimeTypeOK, NEW positions, Inspect(positions)
    PROVE  tick' \in Stocks /\ triggered' \in SUBSET Stocks /\ stage' \in {"idle", "order"}
<1>1. tick \in Stocks /\ triggered \in SUBSET Stocks
    BY DEF RealTimeTypeOK
<1>2. CASE Breached(tick, positions)
    BY <1>1, <1>2 DEF Inspect
<1>3. CASE ~Breached(tick, positions)
    BY <1>1, <1>3, NoStockIsOne DEF Inspect
<1> QED
    BY <1>2, <1>3

LEMMA Counted ==
    ASSUME NEW n, NEW m \in Nat, n \in 0..m, n < m
    PROVE  n + 1 \in 0..m
  OBVIOUS

LEMMA Bounds ==
    RealTimeTypeOK => /\ MaxDrops \in Nat /\ drops \in 0..MaxDrops
                      /\ MaxErrors \in Nat /\ errors \in 0..MaxErrors
                      /\ MaxTrades \in Nat /\ trades \in 0..MaxTrades
                      /\ MaxWatches \in Nat /\ watches \in 0..MaxWatches
                      /\ Shares \in Nat
  BY RealTimeAssumption, Zenon DEF RealTimeTypeOK

USE DEF worldVars, linkVars, riskVars, clientVars, handlerVars, taskVars, boundVars, historyVars

LEMMA LinkTyping ==
    ASSUME RealTimeTypeOK, Fed, Connect \/ Send \/ Drop
    PROVE  RealTimeTypeOK' /\ Fed'
<1>1. CASE Connect
    BY <1>1, FedByConnecting DEF Connect, RealTimeTypeOK, Request
<1>2. CASE Send
    BY <1>2, FedBySending DEF Send, RealTimeTypeOK, Request
<1>3. CASE Drop
  <2>1. Closed /\ drops' \in 0..MaxDrops
    BY <1>3, Bounds, Counted DEF Drop
  <2> QED
    BY <1>3, <2>1, FedByClosing DEF Drop, RealTimeTypeOK, Request
<1> QED
    BY <1>1, <1>2, <1>3

LEMMA UserTyping ==
    ASSUME RealTimeTypeOK, Fed, Users \/ Elapse \/ \E s \in Stocks : Tick(s)
    PROVE  RealTimeTypeOK' /\ Fed'
<1>1. ASSUME NEW c \in Clients, Join(c) \/ Disconnect(c) PROVE RealTimeTypeOK' /\ Fed'
    BY <1>1, FedUnchanged DEF Join, Disconnect, Idle, RealTimeTypeOK
<1>2. ASSUME NEW c \in Clients, NEW codes \in SUBSET Stocks, Watch(c, codes)
      PROVE  RealTimeTypeOK' /\ Fed'
  <2>1. /\ Fed' /\ sends' \in Seq(Request) /\ subscribed' = subscribed \cup codes
        /\ link' = link /\ live' = live
    BY <1>2, FedBySubscribing DEF Watch, SubscribeUpstream
  <2>2. watch' \in [Clients -> SUBSET Stocks]
    BY <1>2 DEF Watch, RealTimeTypeOK
  <2>3. watches' \in 0..MaxWatches
    BY <1>2, Bounds, Counted DEF Watch
  <2> QED
    BY <1>2, <2>1, <2>2, <2>3 DEF Watch, RealTimeTypeOK, Request
<1>3. ASSUME NEW c \in Clients, NEW codes \in SUBSET Stocks, Unwatch(c, codes)
      PROVE  RealTimeTypeOK' /\ Fed'
  <2>1. watch' \in [Clients -> SUBSET Stocks]
    BY <1>3 DEF Unwatch, RealTimeTypeOK
  <2>2. watches' \in 0..MaxWatches
    BY <1>3, Bounds, Counted DEF Unwatch
  <2> QED
    BY <1>3, <2>1, <2>2, FedUnchanged DEF Unwatch, RealTimeTypeOK
<1>4. ASSUME NEW s \in Stocks, Trade(s) PROVE RealTimeTypeOK' /\ Fed'
  <2>1. holding' \in [Stocks -> {0, Shares}]
    <3>1. holding \in [Stocks -> {0, Shares}] /\ Shares \in Nat
      BY Bounds DEF RealTimeTypeOK
    <3>2. holding' = [holding EXCEPT ![s] = Shares - holding[s]]
      BY <1>4 DEF Trade
    <3>3. Shares - holding[s] \in {0, Shares}
      BY <3>1
    <3> QED
      BY <3>1, <3>2, <3>3
  <2>2. trades' \in 0..MaxTrades
    BY <1>4, Bounds, Counted DEF Trade
  <2> QED
    BY <1>4, <2>1, <2>2, FedUnchanged DEF Trade, RealTimeTypeOK
<1>5. ASSUME NEW s \in Stocks, Fall(s) \/ Tick(s) PROVE RealTimeTypeOK' /\ Fed'
    BY <1>5, FedUnchanged DEF Fall, Tick, RealTimeTypeOK
<1>6. CASE Switch
    BY <1>6, FedUnchanged DEF Switch, RealTimeTypeOK
<1>7. CASE Elapse
    BY <1>7, FedUnchanged DEF Elapse, RealTimeTypeOK
<1> QED
    BY <1>1, <1>2, <1>3, <1>4, <1>5, <1>6, <1>7 DEF Users

LEMMA HandlerTyping ==
    ASSUME RealTimeTypeOK, Fed, Handler
    PROVE  RealTimeTypeOK' /\ Fed'
<1>1. ASSUME NEW gone \in SUBSET Clients, Broadcast(gone) PROVE RealTimeTypeOK' /\ Fed'
  <2>1. /\ tick' \in Stocks /\ triggered' \in SUBSET Stocks
        /\ stage' \in {"idle", "order", "stale"}
    BY <1>1, Inspected DEF Broadcast, RealTimeTypeOK
  <2>2. watch' \in [Clients -> SUBSET Stocks] /\ online' \subseteq Clients
    BY <1>1 DEF Broadcast, RealTimeTypeOK
  <2>3. Fed'
    BY <1>1, FedUnchanged DEF Broadcast
  <2> QED
    BY <1>1, <2>1, <2>2, <2>3 DEF Broadcast, RealTimeTypeOK
<1>2. CASE ReadBalance("tick")
  <2>1. seen' \in [Readers -> [Stocks -> {0, Shares}]]
    BY <1>2 DEF ReadBalance, RealTimeTypeOK
  <2> QED
    BY <1>2, <2>1, FedUnchanged DEF ReadBalance, RealTimeTypeOK
<1>3. CASE Refreshed
  <2>1. tick' \in Stocks /\ triggered' \in SUBSET Stocks /\ stage' \in {"idle", "order"}
    BY <1>3, Inspected DEF Refreshed
  <2>2. seen' \in [Readers -> [Stocks -> {0, Shares}]]
    BY <1>3, NothingIsABalance DEF Refreshed, RealTimeTypeOK
  <2>3. tracked' \in [Stocks -> {0, Shares}] /\ stale' = FALSE
    BY <1>3 DEF Refreshed, RealTimeTypeOK, Readers
  <2>4. Fed'
    BY <1>3, FedUnchanged DEF Refreshed
  <2> QED
    BY <1>3, <2>1, <2>2, <2>3, <2>4 DEF Refreshed, RealTimeTypeOK
<1>4. CASE StopBlocked \/ StopRefused
  <2>1. Closed /\ tick' = NoStock /\ stage' = "idle"
    BY <1>4 DEF StopBlocked, StopRefused, HandlerRaises
  <2>2. triggered' \in SUBSET Stocks
    BY <1>4 DEF StopBlocked, StopRefused, Untriggered, RealTimeTypeOK
  <2>3. errors' \in 0..MaxErrors
    <3>1. errors' = errors \/ (errors < MaxErrors /\ errors' = errors + 1)
      BY <1>4 DEF StopBlocked, StopRefused
    <3> QED
      BY <3>1, Bounds, Counted
  <2> QED
    BY <1>4, <2>1, <2>2, <2>3, NoStockIsOne, FedByClosing
    DEF StopBlocked, StopRefused, RealTimeTypeOK, Request
<1>5. CASE BrokerSells
  <2>1. holding' \in [Stocks -> {0, Shares}]
    BY <1>5 DEF BrokerSells, RealTimeTypeOK
  <2>2. sales' \in [Stocks -> Nat]
    <3>1. /\ sales \in [Stocks -> Nat] /\ tick \in Stocks
          /\ sales' = [sales EXCEPT ![tick] = sales[tick] + 1]
      BY <1>5 DEF BrokerSells, RealTimeTypeOK
    <3>2. sales[tick] + 1 \in Nat
      BY <3>1
    <3> QED
      BY <3>1, <3>2
  <2> QED
    BY <1>5, <2>1, <2>2, FedUnchanged DEF BrokerSells, RealTimeTypeOK
<1>6. CASE StopDone
    BY <1>6, NoStockIsOne, FedUnchanged DEF StopDone, RealTimeTypeOK
<1> QED
    BY <1>1, <1>2, <1>3, <1>4, <1>5, <1>6 DEF Handler

LEMMA TaskTyping ==
    ASSUME RealTimeTypeOK, Fed, Task \/ ReconcileRaises
    PROVE  RealTimeTypeOK' /\ Fed'
<1>1. CASE ReadBalance("task")
  <2>1. seen' \in [Readers -> [Stocks -> {0, Shares}]]
    BY <1>1 DEF ReadBalance, RealTimeTypeOK
  <2> QED
    BY <1>1, <2>1, FedUnchanged DEF ReadBalance, RealTimeTypeOK
<1>2. CASE SubscribeNew
  <2>1. Latest \ reconciled \in SUBSET Stocks
    BY DEF Latest, HeldIn
  <2>2. /\ Fed' /\ sends' \in Seq(Request) /\ subscribed' = subscribed \cup (Latest \ reconciled)
        /\ link' = link /\ live' = live
    BY <1>2, <2>1, FedBySubscribing DEF SubscribeNew, SubscribeUpstream
  <2>3. tracked' \in [Stocks -> {0, Shares}] /\ stale' = FALSE
    BY <1>2 DEF SubscribeNew, RealTimeTypeOK, Readers
  <2> QED
    BY <1>2, <2>1, <2>2, <2>3 DEF SubscribeNew, RealTimeTypeOK, Request
<1>3. CASE UnsubscribeOld
  <2>1. Unneeded \in SUBSET Stocks
    BY DEF Unneeded, RealTimeTypeOK
  <2>2. /\ Fed' /\ sends' \in Seq(Request) /\ subscribed' = subscribed \ Unneeded
        /\ link' = link /\ live' = live
    BY <1>3, <2>1, FedByUnsubscribing DEF UnsubscribeOld, UnsubscribeUpstream
  <2> QED
    BY <1>3, <2>1, <2>2 DEF UnsubscribeOld, RealTimeTypeOK, Request
<1>4. CASE Reconciled
  <2>1. seen' \in [Readers -> [Stocks -> {0, Shares}]]
    BY <1>4, NothingIsABalance DEF Reconciled, RealTimeTypeOK
  <2>2. reconciled' \in SUBSET Stocks
    BY <1>4 DEF Reconciled, Latest, HeldIn
  <2> QED
    BY <1>4, <2>1, <2>2, FedUnchanged DEF Reconciled, RealTimeTypeOK
<1>5. CASE ReconcileRaises
  <2>1. seen' \in [Readers -> [Stocks -> {0, Shares}]]
    BY <1>5, NothingIsABalance DEF ReconcileRaises, RealTimeTypeOK
  <2>2. errors' \in 0..MaxErrors
    BY <1>5, Bounds, Counted DEF ReconcileRaises
  <2> QED
    BY <1>5, <2>1, <2>2, FedUnchanged DEF ReconcileRaises, RealTimeTypeOK
<1> QED
    BY <1>1, <1>2, <1>3, <1>4, <1>5 DEF Task

LEMMA RaisingTyping ==
    ASSUME RealTimeTypeOK, Fed, BroadcastRaises \/ RefreshRaises \/ StopUnheard \/ NotifyRaises
    PROVE  RealTimeTypeOK' /\ Fed'
<1>1. Closed /\ tick' = NoStock /\ stage' = "idle"
    BY DEF BroadcastRaises, RefreshRaises, StopUnheard, NotifyRaises, HandlerRaises
<1>2. errors' \in 0..MaxErrors
  <2>1. errors < MaxErrors /\ errors' = errors + 1
    BY DEF BroadcastRaises, RefreshRaises, StopUnheard, NotifyRaises
  <2> QED
    BY <2>1, Bounds, Counted
<1>3. CASE BroadcastRaises
    BY <1>1, <1>2, <1>3, NoStockIsOne, FedByClosing DEF BroadcastRaises, RealTimeTypeOK, Request
<1>4. CASE RefreshRaises
  <2>1. seen' \in [Readers -> [Stocks -> {0, Shares}]]
    BY <1>4, NothingIsABalance DEF RefreshRaises, RealTimeTypeOK
  <2> QED
    BY <1>1, <1>2, <1>4, <2>1, NoStockIsOne, FedByClosing DEF RefreshRaises, RealTimeTypeOK, Request
<1>5. CASE StopUnheard \/ NotifyRaises
  <2>1. triggered' \in SUBSET Stocks
    BY <1>5 DEF StopUnheard, NotifyRaises, Untriggered, RealTimeTypeOK
  <2>2. lapsed' \in [Stocks -> Nat]
    <3>1. lapsed \in [Stocks -> Nat] /\ tick \in Stocks
      BY DEF RealTimeTypeOK
    <3>2. lapsed' = lapsed \/ lapsed' = [lapsed EXCEPT ![tick] = lapsed[tick] + 1]
      BY <1>5 DEF StopUnheard, NotifyRaises
    <3> QED
      BY <3>1, <3>2
  <2> QED
    BY <1>1, <1>2, <1>5, <2>1, <2>2, NoStockIsOne, FedByClosing
    DEF StopUnheard, NotifyRaises, RealTimeTypeOK, Request
<1> QED
    BY <1>3, <1>4, <1>5

LEMMA RealTimeTyping ==
    ASSUME RealTimeTypeOK, Fed, RealTimeNext
    PROVE  RealTimeTypeOK' /\ Fed'
  BY LinkTyping, UserTyping, HandlerTyping, TaskTyping, RaisingTyping DEF RealTimeNext, Errors
-----------------------------------------------------------------------------
(* A stock is sold once.                                                   *)

LEMMA OnceUnchanged == Once /\ UNCHANGED <<handlerVars, triggered, sales, lapsed>> => Once'
  BY DEF Once

\* Only a code that had not triggered is ordered, so none with a sale that counts.
LEMMA InspectedOnce ==
    ASSUME RealTimeTypeOK, Once, NEW positions, Inspect(positions), UNCHANGED <<sales, lapsed>>
    PROVE  Once'
<1>1. sales \in [Stocks -> Nat] /\ lapsed \in [Stocks -> Nat] /\ tick \in Stocks
    BY DEF RealTimeTypeOK
<1>2. CASE Breached(tick, positions)
    BY <1>1, <1>2 DEF Inspect, Breached, Once
<1>3. CASE ~Breached(tick, positions)
    BY <1>3 DEF Inspect, Once
<1> QED
    BY <1>2, <1>3

\* A handler that fails takes its code out of the triggered ones: every sale of it
\* has been failed after.
LEMMA FailedOnce ==
    ASSUME RealTimeTypeOK, Once, Untriggered, UNCHANGED sales, stage' = "idle",
           \/ stage = "order" /\ UNCHANGED lapsed
           \/ stage = "sold" /\ lapsed' = [lapsed EXCEPT ![tick] = lapsed[tick] + 1]
    PROVE  Once'
<1>1. sales \in [Stocks -> Nat] /\ lapsed \in [Stocks -> Nat] /\ tick \in Stocks
    BY DEF RealTimeTypeOK
<1>2. ASSUME NEW s \in Stocks
      PROVE  sales[s] <= lapsed'[s] + (IF s \in triggered' THEN 1 ELSE 0)
  <2>1. CASE s = tick
      BY <1>1, <2>1 DEF Once, Untriggered
  <2>2. CASE s # tick
      BY <1>1, <2>2 DEF Once, Untriggered
  <2> QED
      BY <2>1, <2>2
<1> QED
    BY <1>2 DEF Once

LEMMA OnceStep ==
    ASSUME RealTimeTypeOK, Once, RealTimeNext
    PROVE  Once'
<1>1. CASE Connect \/ Send \/ Drop \/ Task \/ ReconcileRaises \/ Users \/ Elapse
    BY <1>1, OnceUnchanged
    DEF Connect, Send, Drop, Task, ReadBalance, SubscribeNew, UnsubscribeOld, Reconciled,
        ReconcileRaises, Users, Join, Disconnect, Watch, Unwatch, Trade, Fall, Switch, Elapse
<1>2. ASSUME NEW s \in Stocks, Tick(s) PROVE Once'
    BY <1>2 DEF Tick, Once
<1>3. ASSUME NEW gone \in SUBSET Clients, Broadcast(gone) PROVE Once'
  <2>1. CASE stale
      BY <1>3, <2>1 DEF Broadcast, Once
  <2>2. CASE ~stale
      BY <1>3, <2>2, InspectedOnce DEF Broadcast
  <2> QED
      BY <2>1, <2>2
<1>4. CASE ReadBalance("tick")
    BY <1>4 DEF ReadBalance, Once
<1>5. CASE Refreshed
    BY <1>5, InspectedOnce DEF Refreshed
<1>6. CASE StopBlocked \/ StopRefused \/ StopUnheard \/ NotifyRaises
    BY <1>6, FailedOnce
    DEF StopBlocked, StopRefused, StopUnheard, NotifyRaises, Notifies, HandlerRaises
<1>7. CASE BrokerSells
  <2>1. /\ tick \in triggered /\ sales[tick] <= lapsed[tick]
        /\ sales' = [sales EXCEPT ![tick] = sales[tick] + 1]
        /\ stage' = "sold" /\ UNCHANGED <<tick, triggered, lapsed>>
    BY <1>7 DEF BrokerSells, Once
  <2>2. sales \in [Stocks -> Nat] /\ lapsed \in [Stocks -> Nat] /\ tick \in Stocks
    BY DEF RealTimeTypeOK
  <2> QED
    BY <2>1, <2>2 DEF Once
<1>8. CASE StopDone \/ BroadcastRaises \/ RefreshRaises
    BY <1>8 DEF StopDone, BroadcastRaises, RefreshRaises, HandlerRaises, Once
<1> QED
    BY <1>1, <1>2, <1>3, <1>4, <1>5, <1>6, <1>7, <1>8 DEF RealTimeNext, Handler, Errors
-----------------------------------------------------------------------------
(* What is watched is remembered.                                          *)

LEMMA RememberedUnchanged ==
    ASSUME Remembered, UNCHANGED <<defaults, subscribed, reconciled, released>>,
           online' \subseteq online, \A c \in online' : watch'[c] \subseteq watch[c],
           reconciling' \in {reconciling, "sleep"} \/ reconciling' = "read",
           reconciling' = reconciling => seen'["task"] = seen["task"]
    PROVE  Remembered'
<1>1. Latest' = Latest \/ reconciling' # reconciling
    BY DEF Latest, HeldIn
<1> QED
    BY <1>1 DEF Remembered

LEMMA RememberedByClosing ==
    ASSUME RealTimeTypeOK, Remembered, Closed, UNCHANGED <<defaults, released>>,
           seen'["task"] = seen["task"]
    PROVE  Remembered'
<1>1. \A c \in online' : c \in Clients
    BY DEF Closed, RealTimeTypeOK
<1> QED
    BY <1>1, FedByClosing, RememberedUnchanged

LEMMA RememberedBySubscribing ==
    ASSUME RealTimeTypeOK, Remembered, SubscribeNew
    PROVE  Remembered'
<1>1. /\ subscribed' = subscribed \cup (Latest \ reconciled)
      /\ released' = released \ (Latest \ reconciled)
      /\ UNCHANGED <<defaults, watch, online, reconciled, seen>>
    BY DEF SubscribeNew, SubscribeUpstream
<1>2. Latest' = Latest
    BY <1>1 DEF Latest, HeldIn
<1>3. subscribed \cup released \subseteq subscribed' \cup released'
    BY <1>1
<1>4. Latest \subseteq subscribed' \cup released'
    BY <1>1, <1>3 DEF Remembered
<1> QED
    BY <1>1, <1>2, <1>3, <1>4 DEF Remembered

LEMMA RememberedByUnsubscribing ==
    ASSUME RealTimeTypeOK, Remembered, UnsubscribeOld
    PROVE  Remembered'
<1>1. /\ subscribed' = subscribed \ Unneeded /\ released' = released \cup Unneeded
      /\ reconciling = "subscribing"
      /\ UNCHANGED <<defaults, watch, online, reconciled, seen>>
    BY DEF UnsubscribeOld, UnsubscribeUpstream
<1>2. Latest' = Latest
    BY <1>1 DEF Latest, HeldIn
<1>3. subscribed \cup released \subseteq subscribed' \cup released'
    BY <1>1
<1>4. defaults \subseteq subscribed'
    BY <1>1 DEF Remembered, Unneeded
<1> QED
    BY <1>1, <1>2, <1>3, <1>4 DEF Remembered

LEMMA RememberedByUsers ==
    ASSUME RealTimeTypeOK, Remembered, Users
    PROVE  Remembered'
<1>1. ASSUME NEW c \in Clients, Join(c) PROVE Remembered'
  <2>1. /\ online' = online \cup {c} /\ watch' = [watch EXCEPT ![c] = {}]
        /\ watch \in [Clients -> SUBSET Stocks] /\ online \subseteq Clients
        /\ UNCHANGED <<defaults, subscribed, released, reconciled, reconciling, seen>>
    BY <1>1 DEF Join, RealTimeTypeOK
  <2>2. \A d \in online' : watch'[d] = {} \/ (d \in online /\ watch'[d] = watch[d])
    BY <2>1
  <2>3. Latest' = Latest
    BY <2>1 DEF Latest, HeldIn
  <2> QED
    BY <2>1, <2>2, <2>3 DEF Remembered
<1>2. ASSUME NEW c \in Clients, NEW codes \in SUBSET Stocks, Watch(c, codes) PROVE Remembered'
  <2>1. /\ watch' = [watch EXCEPT ![c] = watch[c] \cup codes]
        /\ watch \in [Clients -> SUBSET Stocks] /\ online \subseteq Clients
        /\ subscribed' = subscribed \cup codes /\ released' = released \ codes
        /\ UNCHANGED <<online, defaults, reconciled, reconciling, seen>>
    BY <1>2 DEF Watch, SubscribeUpstream, RealTimeTypeOK
  <2>2. \A d \in online : watch'[d] \subseteq watch[d] \cup codes
    BY <2>1
  <2>3. subscribed \cup released \cup codes \subseteq subscribed' \cup released'
    BY <2>1
  <2>4. Latest' = Latest
    BY <2>1 DEF Latest, HeldIn
  <2> QED
    BY <2>1, <2>2, <2>3, <2>4 DEF Remembered
<1>3. ASSUME NEW c \in Clients, NEW codes \in SUBSET Stocks, Unwatch(c, codes) \/ Disconnect(c)
      PROVE  Remembered'
  <2>1. /\ online' \subseteq online /\ online \subseteq Clients
        /\ watch' = [watch EXCEPT ![c] = watch[c] \ codes] \/ watch' = [watch EXCEPT ![c] = {}]
        /\ watch \in [Clients -> SUBSET Stocks]
        /\ UNCHANGED <<defaults, subscribed, released, reconciled, reconciling, seen>>
    BY <1>3 DEF Unwatch, Disconnect, RealTimeTypeOK
  <2>2. \A d \in online' : watch'[d] \subseteq watch[d]
    BY <2>1
  <2> QED
    BY <2>1, <2>2, RememberedUnchanged
<1>4. ASSUME NEW s \in Stocks, Trade(s) \/ Fall(s) PROVE Remembered'
    BY <1>4, RememberedUnchanged DEF Trade, Fall
<1>5. CASE Switch
    BY <1>5, RememberedUnchanged DEF Switch
<1> QED
    BY <1>1, <1>2, <1>3, <1>4, <1>5 DEF Users

LEMMA RememberedStep ==
    ASSUME RealTimeTypeOK, Remembered, RealTimeNext
    PROVE  Remembered'
<1>1. CASE Connect \/ Send \/ Elapse \/ BrokerSells \/ StopDone
    BY <1>1, RememberedUnchanged DEF Connect, Send, Elapse, BrokerSells, StopDone
<1>2. ASSUME NEW s \in Stocks, Tick(s) PROVE Remembered'
    BY <1>2, RememberedUnchanged DEF Tick
<1>3. CASE Users
    BY <1>3, RememberedByUsers
<1>4. CASE \/ Drop \/ BroadcastRaises \/ StopBlocked \/ StopRefused
           \/ StopUnheard \/ NotifyRaises
    BY <1>4, RememberedByClosing
    DEF Drop, BroadcastRaises, StopBlocked, StopRefused, StopUnheard, NotifyRaises, HandlerRaises
<1>5. CASE RefreshRaises
  <2>1. seen'["task"] = seen["task"]
    BY <1>5 DEF RefreshRaises, RealTimeTypeOK, Readers
  <2> QED
    BY <1>5, <2>1, RememberedByClosing DEF RefreshRaises, HandlerRaises
<1>6. ASSUME NEW gone \in SUBSET Clients, Broadcast(gone) PROVE Remembered'
  <2>1. /\ online' = online \ gone /\ online \subseteq Clients
        /\ watch' = [c \in Clients |-> IF c \in gone THEN {} ELSE watch[c]]
        /\ UNCHANGED <<defaults, subscribed, released, reconciled, reconciling, seen>>
    BY <1>6 DEF Broadcast, RealTimeTypeOK
  <2>2. \A c \in online' : watch'[c] \subseteq watch[c]
    BY <2>1
  <2> QED
    BY <2>1, <2>2, RememberedUnchanged
<1>7. CASE ReadBalance("tick") \/ Refreshed
  <2>1. seen'["task"] = seen["task"]
    BY <1>7 DEF ReadBalance, Refreshed, RealTimeTypeOK, Readers
  <2> QED
    BY <1>7, <2>1, RememberedUnchanged DEF ReadBalance, Refreshed
<1>8. CASE ReadBalance("task")
    BY <1>8, RememberedUnchanged DEF ReadBalance
<1>9. CASE SubscribeNew \/ UnsubscribeOld
    BY <1>9, RememberedBySubscribing, RememberedByUnsubscribing
<1>10. CASE Reconciled
  <2>1. /\ reconciled' = Latest /\ reconciling' = "sleep" /\ reconciling = "letting go"
        /\ UNCHANGED <<defaults, subscribed, released, watch, online>>
    BY <1>10 DEF Reconciled
  <2> QED
    BY <2>1 DEF Remembered
<1>11. CASE ReconcileRaises
    BY <1>11, RememberedUnchanged DEF ReconcileRaises
<1> QED
    BY <1>1, <1>2, <1>3, <1>4, <1>5, <1>6, <1>7, <1>8, <1>9, <1>10, <1>11
    DEF RealTimeNext, Handler, Task, Errors
-----------------------------------------------------------------------------
LEMMA RealTimeInitInv == RealTimeInit => RealTimeInv
<1> SUFFICES ASSUME RealTimeInit PROVE RealTimeInv
    OBVIOUS
<1>1. RealTimeTypeOK
  <2>1. sends \in Seq(Request)
    BY EmptySeq DEF RealTimeInit
  <2>2. HeldIn(holding) \in SUBSET Stocks
    BY DEF HeldIn
  <2>3. drops \in 0..MaxDrops /\ errors \in 0..MaxErrors /\ trades \in 0..MaxTrades /\ watches \in 0..MaxWatches
    BY RealTimeAssumption DEF RealTimeInit
  <2>4. seen \in [Readers -> [Stocks -> {0, Shares}]]
    BY NothingIsABalance DEF RealTimeInit
  <2>5. watch \in [Clients -> SUBSET Stocks]
    BY DEF RealTimeInit
  <2> QED
    BY <2>1, <2>2, <2>3, <2>4, <2>5, NothingIsABalance, NoStockIsOne
    DEF RealTimeInit, RealTimeTypeOK, Request
<1>2. Once
    BY NothingIsABalance DEF RealTimeInit, Once, Nothing
<1>3. Fed
    BY DEF RealTimeInit, Fed
<1>4. Remembered
    BY DEF RealTimeInit, Remembered
<1> QED
    BY <1>1, <1>2, <1>3, <1>4 DEF RealTimeInv

LEMMA RealTimeStepInv == RealTimeInv /\ [RealTimeNext]_realTimeVars => RealTimeInv'
<1> SUFFICES ASSUME RealTimeInv, [RealTimeNext]_realTimeVars PROVE RealTimeInv'
    OBVIOUS
<1>1. CASE RealTimeNext
    BY <1>1, RealTimeTyping, OnceStep, RememberedStep DEF RealTimeInv
<1>2. CASE UNCHANGED realTimeVars
  <2>1. RealTimeTypeOK'
    BY <1>2 DEF RealTimeInv, RealTimeTypeOK, realTimeVars
  <2>2. Once'
    BY <1>2, OnceUnchanged DEF RealTimeInv, realTimeVars
  <2>3. Fed'
    BY <1>2, FedUnchanged DEF RealTimeInv, realTimeVars
  <2>4. Remembered'
    BY <1>2, RememberedUnchanged DEF RealTimeInv, realTimeVars
  <2> QED
    BY <2>1, <2>2, <2>3, <2>4 DEF RealTimeInv
<1> QED
    BY <1>1, <1>2

\* Every variable of the feed and of the risk manager keeps its type.
THEOREM RealTimeTypeCorrect == RealTimeSpec => []RealTimeTypeOK
<1>1. RealTimeInv => RealTimeTypeOK
    BY DEF RealTimeInv
<1> QED
    BY <1>1, RealTimeInitInv, RealTimeStepInv, PTL DEF RealTimeSpec

\* For any stocks, clients, mode and failures: the stop-loss sells a stock once in
\* the life of the process, and once more for each time its handler failed after a
\* sale.
THEOREM StopLossSellsOnce == RealTimeSpec => []StopSellsOnce
<1>1. RealTimeInv => StopSellsOnce
  <2> SUFFICES ASSUME RealTimeTypeOK, Once, NEW s \in Stocks PROVE sales[s] <= lapsed[s] + 1
    BY DEF RealTimeInv, StopSellsOnce
  <2>1. sales[s] \in Nat /\ lapsed[s] \in Nat
    BY DEF RealTimeTypeOK
  <2> QED
    BY <2>1 DEF Once
<1> QED
    BY <1>1, RealTimeInitInv, RealTimeStepInv, PTL DEF RealTimeSpec

\* For any clients, reconciliations and reconnections in any order: once nothing is
\* left to send, an open socket is fed what is noted, and nothing watched is forgotten.
THEOREM WatchedCodesAreFed == RealTimeSpec => []WatchedIsFed
<1>1. RealTimeInv => WatchedIsFed
  <2> SUFFICES ASSUME RealTimeInv PROVE WatchedIsFed
    OBVIOUS
  <2>1. ASSUME link = "up", sends = <<>> PROVE live = subscribed
    <3>1. \A s \in Stocks : Pending(s) = {}
      BY <2>1 DEF Pending
    <3> QED
      BY <2>1, <3>1 DEF RealTimeInv, Fed, Settles, RealTimeTypeOK
  <2> QED
    BY <2>1 DEF RealTimeInv, Remembered, WatchedIsFed
<1> QED
    BY <1>1, RealTimeInitInv, RealTimeStepInv, PTL DEF RealTimeSpec

===============================================================================
