----------------------- MODULE ProposalGenerationProofs -----------------------
(***************************************************************************)
(* Proofs about ProposalGeneration, for any legs, strategies, quantities   *)
(* and failures.                                                           *)
(***************************************************************************)
EXTENDS ProposalGeneration, TLAPS

-----------------------------------------------------------------------------
(* Type correctness, for any runs whatever.                                *)

\* TypeOK is not inductive: a residual is a quantity because a gap never grows,
\* and a proposal's quantity is positive because its draft's was.
TypeInv ==
    /\ TypeOK
    /\ \A l \in Legs : gap[l] <= Missing
    /\ \A r \in Runs : \A l \in drafts[r] : size[r][l] > 0

LEMMA StopTyping ==
    ASSUME TypeInv, NEW r \in Runs, Stop(r)
    PROVE  /\ pc' \in [Runs -> Steps]
           /\ drafts' \in [Runs -> SUBSET Legs]
           /\ size' \in [Runs -> [Legs -> Quantities]]
           /\ \A s \in Runs : pc'[s] = "off" => drafts'[s] = {}
           /\ \A s \in Runs : \A l \in drafts'[s] : size'[s][l] > 0
<1>1. NoSize \in [Legs -> Quantities]
  BY GenerationAssumption DEF NoSize, Quantities
<1> QED
  BY <1>1 DEF TypeInv, TypeOK, Stop, Goto, Steps

LEMMA InsertTyping ==
    ASSUME TypeInv, NEW r \in Runs, NEW legs \in SUBSET drafts[r], Insert(r, legs)
    PROVE  /\ proposed' \subseteq Keys
           /\ quantity' \in [Keys -> Quantities]
           /\ \A k \in proposed' : quantity'[k] > 0
           /\ rejected' \subseteq Legs /\ revived' \subseteq rejected'
           /\ saved' \subseteq Strategies
<1> USE DEF TypeInv, TypeOK
<1>1. legs \subseteq Legs /\ size[r] \in [Legs -> Quantities]
  OBVIOUS
<1>2. Strategy[r] \in Strategies
  BY DEF Strategies
<1>3. proposed' = proposed \cup {<<Strategy[r], l>> : l \in legs}
  BY DEF Insert
<1>4. proposed' \subseteq Keys
  BY <1>1, <1>2, <1>3 DEF Keys
<1>5. \A k \in Keys : quantity'[k] = IF k[1] = Strategy[r] /\ k[2] \in legs
                                     THEN size[r][k[2]] ELSE quantity[k]
  BY DEF Insert
<1>6. quantity' \in [Keys -> Quantities]
  <2>1. \A k \in Keys : (IF k[1] = Strategy[r] /\ k[2] \in legs
                         THEN size[r][k[2]] ELSE quantity[k]) \in Quantities
    BY <1>1
  <2> QED
    BY <2>1 DEF Insert
<1>7. ASSUME NEW k \in proposed' PROVE quantity'[k] > 0
  <2>1. CASE k[1] = Strategy[r] /\ k[2] \in legs
    <3>1. size[r][k[2]] > 0
      BY <2>1
    <3> QED
      BY <1>4, <1>5, <2>1, <3>1
  <2>2. CASE ~(k[1] = Strategy[r] /\ k[2] \in legs)
    <3>1. k \in proposed
      BY <1>3, <2>2
    <3> QED
      BY <1>4, <1>5, <2>2, <3>1
  <2> QED
    BY <2>1, <2>2
<1>8. rejected' \subseteq Legs /\ revived' \subseteq rejected' /\ saved' \subseteq Strategies
  BY DEF Insert
<1> QED
  BY <1>4, <1>6, <1>7, <1>8

LEMMA GenerationInitTyping == Init => TypeInv
<1> SUFFICES ASSUME Init PROVE TypeInv
  OBVIOUS
<1> USE GenerationAssumption DEF Init
<1>1. NoSize \in [Legs -> Quantities]
  BY DEF NoSize, Quantities
<1>2. gap \in [Legs -> Int] /\ \A l \in Legs : gap[l] <= Missing
  OBVIOUS
<1>3. quantity \in [Keys -> Quantities]
  BY DEF Quantities
<1>4. toggles \in 0..MaxToggles /\ failures \in 0..MaxFailures
  OBVIOUS
<1>5. enabled \in BOOLEAN /\ evening \in BOOLEAN /\ firstDay \in BOOLEAN
  BY Zenon
<1> QED
  BY <1>1, <1>2, <1>3, <1>4, <1>5 DEF TypeInv, TypeOK, Steps

LEMMA RunStepTyping ==
    ASSUME TypeInv, NEW r \in Runs, Start(r) \/ RunStep(r) \/ Fail(r)
    PROVE  TypeInv'
<1> USE DEF tableVars, marketVars, clockVars
<1>1. CASE Start(r)
  <2>1. due' \subseteq CronRuns
    BY <1>1 DEF Start, TypeInv, TypeOK
  <2> QED
    BY <1>1, <2>1 DEF Start, Enter, Goto, TypeInv, TypeOK, Steps
<1>2. CASE CheckProfile(r)
  <2>1. CASE Stop(r)
    BY <1>2, <2>1, StopTyping DEF CheckProfile, TypeInv, TypeOK
  <2>2. CASE ~Stop(r)
    BY <1>2, <2>2 DEF CheckProfile, Goto, TypeInv, TypeOK, Steps
  <2> QED
    BY <2>1, <2>2
<1>3. CASE LoadTarget(r)
  <2>1. CASE Stop(r)
    BY <1>3, <2>1, StopTyping DEF LoadTarget, TypeInv, TypeOK
  <2>2. CASE ~Stop(r)
    BY <1>3, <2>2 DEF LoadTarget, Goto, TypeInv, TypeOK, Steps
  <2> QED
    BY <2>1, <2>2
<1>4. CASE ReadBalance(r)
  <2>1. \A l \in Legs : Residual(l) \in Quantities /\ (l \in Lacking => Residual(l) > 0)
    BY GenerationAssumption DEF TypeInv, TypeOK, Residual, Quantities, Lacking
  <2>2. [l \in Legs |-> Residual(l)] \in [Legs -> Quantities]
    BY <2>1
  <2>3. drafts' \in [Runs -> SUBSET Legs] /\ drafts' = [drafts EXCEPT ![r] = Lacking]
    BY <1>4 DEF ReadBalance, TypeInv, TypeOK, Lacking
  <2>4. size' \in [Runs -> [Legs -> Quantities]]
        /\ size' = [size EXCEPT ![r] = [l \in Legs |-> Residual(l)]]
    BY <1>4, <2>2 DEF ReadBalance, TypeInv, TypeOK
  <2>5. \A s \in Runs : \A l \in drafts'[s] : size'[s][l] > 0
    <3> TAKE s \in Runs
    <3> TAKE l \in drafts'[s]
    <3>1. CASE s = r
      <4>1. l \in Legs /\ l \in Lacking
        BY <2>3, <3>1 DEF TypeInv, TypeOK, Lacking
      <4> QED
        BY <2>1, <2>4, <3>1, <4>1 DEF TypeInv, TypeOK
    <3>2. CASE s # r
      BY <2>3, <2>4, <3>2 DEF TypeInv, TypeOK
    <3> QED
      BY <3>1, <3>2
  <2>6. pc' \in [Runs -> Steps] /\ \A s \in Runs : pc'[s] = "off" => drafts'[s] = {}
    BY <1>4, <2>3 DEF ReadBalance, Goto, TypeInv, TypeOK, Steps
  <2> QED
    BY <1>4, <2>3, <2>4, <2>5, <2>6 DEF ReadBalance, TypeInv, TypeOK
<1>5. CASE SaveTarget(r)
  <2>1. saved' \subseteq Strategies
    BY <1>5 DEF SaveTarget, TypeInv, TypeOK, Strategies
  <2> QED
    BY <1>5, <2>1 DEF SaveTarget, Goto, TypeInv, TypeOK, Steps
<1>6. CASE FilterRejected(r)
  BY <1>6 DEF FilterRejected, Goto, TypeInv, TypeOK, Steps
<1>7. CASE Dedupe(r)
  <2>1. CASE Stop(r)
    BY <1>7, <2>1, StopTyping DEF Dedupe, TypeInv, TypeOK
  <2>2. CASE ~Stop(r)
    <3>1. /\ drafts' = [drafts EXCEPT ![r] = @ \ Pending(r)]
          /\ pc' = [pc EXCEPT ![r] = "commit"] /\ size' = size
      BY <1>7, <2>2 DEF Dedupe, Goto
    <3>2. \A s \in Runs : drafts'[s] \subseteq drafts[s]
      BY <3>1 DEF TypeInv, TypeOK
    <3>3. drafts' \in [Runs -> SUBSET Legs] /\ pc' \in [Runs -> Steps]
      BY <3>1 DEF TypeInv, TypeOK, Steps
    <3>4. \A s \in Runs : pc'[s] = "off" => drafts'[s] = {}
      BY <3>1, <3>2 DEF TypeInv, TypeOK
    <3> QED
      BY <1>7, <3>1, <3>2, <3>3, <3>4 DEF Dedupe, TypeInv, TypeOK
  <2> QED
    BY <2>1, <2>2
<1>8. CASE Commit(r)
  <2>1. CASE Insert(r, drafts[r]) /\ Stop(r)
    <3>1. UNCHANGED <<working, gap, enabled, evening, firstDay, due, toggles, failures>>
      BY <1>8 DEF Commit
    <3> QED
      BY <2>1, <3>1, InsertTyping, StopTyping DEF TypeInv, TypeOK
  <2>2. CASE Goto(r, "retry") /\ UNCHANGED <<proposed, quantity, rejected, saved, drafts, size, revived>>
    BY <1>8, <2>2 DEF Commit, Goto, TypeInv, TypeOK, Steps
  <2> QED
    BY <1>8, <2>1, <2>2 DEF Commit
<1>9. ASSUME NEW l \in Legs, RetryRow(r, l)
      PROVE  TypeInv'
  <2>1. /\ drafts' = [drafts EXCEPT ![r] = @ \ {l}]
        /\ UNCHANGED <<working, gap, enabled, evening, firstDay, due, pc, size, toggles, failures>>
    BY <1>9 DEF RetryRow
  <2>2. /\ drafts' \in [Runs -> SUBSET Legs]
        /\ \A s \in Runs : drafts'[s] \subseteq drafts[s]
    BY <2>1 DEF TypeInv, TypeOK
  <2>3. /\ proposed' \subseteq Keys
        /\ quantity' \in [Keys -> Quantities]
        /\ \A k \in proposed' : quantity'[k] > 0
        /\ rejected' \subseteq Legs /\ revived' \subseteq rejected'
        /\ saved' \subseteq Strategies
    <3>1. CASE UNCHANGED <<proposed, quantity, rejected, saved, revived>>
      BY <3>1 DEF TypeInv, TypeOK
    <3>2. CASE Insert(r, {l})
      BY <1>9, <3>2, InsertTyping DEF RetryRow
    <3> QED
      BY <1>9, <3>1, <3>2 DEF RetryRow
  <2> QED
    BY <2>1, <2>2, <2>3 DEF TypeInv, TypeOK
<1>10. CASE RetryDone(r)
  BY <1>10, StopTyping DEF RetryDone, TypeInv, TypeOK
<1>11. CASE Fail(r)
  <2>1. failures' \in 0..MaxFailures
    BY <1>11, GenerationAssumption DEF Fail, TypeInv, TypeOK
  <2> QED
    BY <1>11, <2>1, StopTyping DEF Fail, TypeInv, TypeOK
<1> QED
  BY <1>1, <1>2, <1>3, <1>4, <1>5, <1>6, <1>7, <1>8, <1>9, <1>10, <1>11 DEF RunStep

LEMMA WorldStepTyping ==
    ASSUME TypeInv,
           \/ \E k \in Keys : Approve(k) \/ Reject(k)
           \/ \E order \in working : \E n \in 1..order.qty : Fill(order, n)
           \/ Toggle \/ Evening \/ Morning
           \/ UNCHANGED vars
    PROVE  TypeInv'
<1> USE DEF tableVars, marketVars, clockVars, runVars
<1>1. ASSUME NEW k \in Keys, Approve(k)
      PROVE  TypeInv'
  <2>1. k[1] \in Strategies /\ k[2] \in Legs
    BY DEF Keys
  <2>2. [leg |-> k[2], by |-> k[1], qty |-> quantity[k]] \in Orders
    BY <2>1 DEF TypeInv, TypeOK, Orders
  <2>3. working' \subseteq Orders
    BY <1>1, <2>2 DEF Approve, TypeInv, TypeOK
  <2>4. quantity' \in [Keys -> Quantities] /\ \A m \in proposed' : quantity'[m] > 0
    BY <1>1, GenerationAssumption DEF Approve, TypeInv, TypeOK, Quantities
  <2> QED
    BY <1>1, <2>3, <2>4 DEF Approve, TypeInv, TypeOK
<1>2. ASSUME NEW k \in Keys, Reject(k)
      PROVE  TypeInv'
  <2>1. k[2] \in Legs
    BY DEF Keys
  <2>2. quantity' \in [Keys -> Quantities] /\ \A m \in proposed' : quantity'[m] > 0
    BY <1>2, GenerationAssumption DEF Reject, TypeInv, TypeOK, Quantities
  <2> QED
    BY <1>2, <2>1, <2>2 DEF Reject, TypeInv, TypeOK
<1>3. ASSUME NEW order \in working, NEW n \in 1..order.qty, Fill(order, n)
      PROVE  TypeInv'
  <2>1. order.leg \in Legs /\ order.qty \in Nat
    BY GenerationAssumption DEF TypeInv, TypeOK, Orders, Quantities
  <2>2. n \in Nat /\ n > 0
    BY <2>1
  <2>3. gap' \in [Legs -> Int] /\ \A l \in Legs : gap'[l] <= Missing
    BY <1>3, <2>1, <2>2, GenerationAssumption DEF Fill, TypeInv, TypeOK
  <2> QED
    BY <1>3, <2>3 DEF Fill, TypeInv, TypeOK
<1>4. CASE Toggle
  <2>1. toggles' \in 0..MaxToggles
    BY <1>4, GenerationAssumption DEF Toggle, TypeInv, TypeOK
  <2> QED
    BY <1>4, <2>1 DEF Toggle, TypeInv, TypeOK
<1>5. CASE Evening
  BY <1>5 DEF Evening, TypeInv, TypeOK
<1>6. CASE Morning
  <2>1. quantity' \in [Keys -> Quantities]
    BY <1>6, GenerationAssumption DEF Morning, Quantities
  <2> QED
    BY <1>6, <2>1 DEF Morning, TypeInv, TypeOK
<1>7. CASE UNCHANGED vars
  BY <1>7 DEF vars, TypeInv, TypeOK
<1> QED
  BY <1>1, <1>2, <1>3, <1>4, <1>5, <1>6, <1>7

LEMMA GenerationTyping == TypeInv /\ [Next]_vars => TypeInv'
BY RunStepTyping, WorldStepTyping DEF Next

\* Every variable keeps its type: no proposal has a quantity of zero, or more
\* than the month's target, whatever runs overlap, fail or retry.
THEOREM GenerationTypeCorrect == Spec => []TypeOK
<1>1. TypeInv => TypeOK
  BY DEF TypeInv
<1> QED
  BY <1>1, GenerationInitTyping, GenerationTyping, PTL DEF Spec

-----------------------------------------------------------------------------
(* One run at most serves the account in an evening.                       *)

\* The scheduler's two jobs and nothing by hand: a profile that is not switched
\* while they run lets one of them through.
OneServer ==
    /\ ButtonRuns = {}
    /\ "toggle" \notin Faults
    /\ \A r \in CronRuns : Kind[r] # "explicit"
    /\ \A r, s \in CronRuns : Kind[r] = Kind[s] => r = s

\* By day nothing runs and nothing is proposed; a run starts once an evening.
Resting ==
    /\ ~evening => due = {} /\ proposed = {} /\ \A r \in Runs : pc[r] = "off"
    /\ \A r \in due : pc[r] = "off"

\* A run that got past the profile is the one the profile wants.
Chosen == \A r \in Runs : pc[r] \notin {"off", "check"} => MayServe(r)

\* Run r may yet propose something this evening.
Serves(r) == (r \in due \/ pc[r] # "off") /\ MayServe(r)

\* Until that run has committed, the evening has no proposal and no order; so
\* the index never refuses one.
Fresh ==
    \A r \in Runs :
        /\ Serves(r) => proposed = {} /\ working = {}
        /\ pc[r] # "retry"

\* What it is going to propose is what the holding lacks.
Measured ==
    \A r \in Runs :
        /\ pc[r] \in {"save", "filter", "dedupe", "commit"} =>
                /\ drafts[r] \subseteq Lacking
                /\ \A l \in Legs : size[r][l] = Residual(l)
        /\ pc[r] \in {"dedupe", "commit"} => drafts[r] \cap rejected = {}

\* A leg has one proposal or one order at most, for no more than it lacks.
Covered ==
    /\ \A l \in Legs : gap[l] >= 0
    /\ \A k \in proposed : quantity[k] <= gap[k[2]]
    /\ \A k, m \in proposed : k[2] = m[2] => k = m
    /\ \A o \in working : o.qty <= gap[o.leg]
    /\ \A o, q \in working : o.leg = q.leg => o = q
    /\ \A o \in working, k \in proposed : o.leg # k[2]

GenInv ==
    /\ TypeInv /\ Resting /\ Chosen /\ Fresh /\ Measured /\ Covered
    /\ RejectionRespected

LEMMA OneAtATime ==
    ASSUME OneServer, NEW r \in Runs, NEW s \in Runs, MayServe(r), MayServe(s)
    PROVE  r = s
<1>1. r \in CronRuns /\ s \in CronRuns
  BY DEF Runs, OneServer
<1>2. Kind[r] \in {"legacy", "managed"} /\ Kind[s] \in {"legacy", "managed"}
  BY <1>1, GenerationAssumption DEF OneServer
<1> QED
  BY <1>1, <1>2 DEF MayServe, OneServer

LEMMA GenInitInv == Init => GenInv
<1> SUFFICES ASSUME Init PROVE GenInv
  OBVIOUS
<1>1. TypeInv
  BY GenerationInitTyping
<1>2. Resting /\ Chosen /\ Fresh /\ Measured
  BY DEF Init, Resting, Chosen, Fresh, Measured
<1>3. Covered /\ RejectionRespected
  BY GenerationAssumption DEF Init, Covered, RejectionRespected
<1> QED
  BY <1>1, <1>2, <1>3 DEF GenInv

\* What the steps of a run share that leave the table of proposals alone.
Reading ==
    UNCHANGED <<proposed, quantity, rejected, revived, marketVars, enabled, evening>>

LEMMA ReadingCovers ==
    ASSUME GenInv, Reading
    PROVE  Covered' /\ RejectionRespected'
BY DEF GenInv, Reading, marketVars, Covered, RejectionRespected

LEMMA StopInv ==
    ASSUME GenInv, TypeInv', NEW r \in Runs, Reading, Stop(r), UNCHANGED due, pc[r] # "off"
    PROVE  GenInv'
<1> USE DEF Reading, marketVars
<1>1. pc' = [pc EXCEPT ![r] = "off"] /\ \A s \in Runs \ {r} : drafts'[s] = drafts[s] /\ size'[s] = size[s]
  BY DEF Stop, Goto, GenInv, TypeInv, TypeOK
<1>2. pc \in [Runs -> Steps]
  BY DEF GenInv, TypeInv, TypeOK
<1>3. Resting'
  BY <1>1, <1>2 DEF GenInv, Resting
<1>4. Chosen'
  BY <1>1, <1>2 DEF GenInv, Chosen, MayServe
<1>5. Fresh'
  BY <1>1, <1>2 DEF GenInv, Fresh, Serves, MayServe
<1>6. Measured'
  BY <1>1, <1>2 DEF GenInv, Measured, Lacking, Residual
<1> QED
  BY <1>3, <1>4, <1>5, <1>6, ReadingCovers DEF GenInv

\* A step that only goes on to a later stage, and keeps or trims the drafts.
LEMMA GoOnInv ==
    ASSUME GenInv, TypeInv', NEW r \in Runs, NEW step \in Steps \ {"off", "retry"},
           Reading, UNCHANGED due, pc[r] # "off", Goto(r, step),
           step \notin {"check"} => MayServe(r),
           \A s \in Runs \ {r} : drafts'[s] = drafts[s] /\ size'[s] = size[s],
           step \in {"save", "filter", "dedupe", "commit"} =>
                drafts'[r] \subseteq Lacking /\ \A l \in Legs : size'[r][l] = Residual(l),
           step \in {"dedupe", "commit"} => drafts'[r] \cap rejected = {}
    PROVE  GenInv'
<1> USE DEF Reading, marketVars
<1>1. pc' = [pc EXCEPT ![r] = step]
  BY DEF Goto
<1>2. pc \in [Runs -> Steps]
  BY DEF GenInv, TypeInv, TypeOK
<1>3. Resting'
  BY <1>1, <1>2 DEF GenInv, Resting
<1>4. Chosen'
  BY <1>1, <1>2 DEF GenInv, Chosen, MayServe
<1>5. Fresh'
  BY <1>1, <1>2 DEF GenInv, Fresh, Serves, MayServe
<1>6. Measured'
  BY <1>1, <1>2 DEF GenInv, Measured, Lacking, Residual
<1> QED
  BY <1>3, <1>4, <1>5, <1>6, ReadingCovers DEF GenInv

LEMMA StartInv ==
    ASSUME OneServer, GenInv, TypeInv', NEW r \in Runs, Start(r)
    PROVE  GenInv'
<1> USE DEF tableVars, marketVars
<1>1. r \in due /\ Kind[r] # "explicit"
  BY DEF Start, OneServer, GenInv, TypeInv, TypeOK
<1>2. pc' = [pc EXCEPT ![r] = "check"] /\ due' = due \ {r} /\ pc \in [Runs -> Steps] /\ evening
  BY <1>1 DEF Start, Goto, Enter, GenInv, Resting, TypeInv, TypeOK
<1>3. Reading /\ UNCHANGED <<drafts, size>>
  BY DEF Start, Reading
<1>4. Resting'
  BY <1>2, <1>3 DEF GenInv, Resting, Reading
<1>5. Chosen'
  BY <1>2, <1>3 DEF GenInv, Chosen, MayServe, Reading
<1>6. Fresh'
  BY <1>1, <1>2, <1>3 DEF GenInv, Fresh, Serves, MayServe, Reading
<1>7. Measured'
  BY <1>2, <1>3 DEF GenInv, Measured, Lacking, Residual, Reading
<1> QED
  BY <1>3, <1>4, <1>5, <1>6, <1>7, ReadingCovers DEF GenInv

\* The one step that proposes: what it found lacking is still what lacks.
LEMMA CommitInv ==
    ASSUME OneServer, GenInv, TypeInv', NEW r \in Runs, Commit(r)
    PROVE  GenInv'
<1> USE DEF tableVars, marketVars, clockVars
<1>1. pc[r] = "commit" /\ MayServe(r) /\ proposed = {} /\ working = {}
  BY DEF Commit, GenInv, Chosen, Fresh, Serves
<1>2. Insert(r, drafts[r]) /\ Stop(r)
  BY <1>1 DEF Commit, Pending
<1>3. UNCHANGED <<working, gap, enabled, evening, firstDay, due>>
  BY DEF Commit
<1>4. /\ drafts[r] \subseteq Lacking /\ drafts[r] \cap rejected = {}
      /\ \A l \in Legs : size[r][l] = Residual(l)
  BY <1>1 DEF GenInv, Measured
<1>5. pc' = [pc EXCEPT ![r] = "off"] /\ pc \in [Runs -> Steps]
      /\ \A s \in Runs \ {r} : drafts'[s] = drafts[s] /\ size'[s] = size[s]
  BY <1>2 DEF Stop, Goto, GenInv, TypeInv, TypeOK
<1>6. proposed' = {<<Strategy[r], l>> : l \in drafts[r]}
      /\ rejected' = rejected /\ saved' = saved /\ revived' = revived \cup (drafts[r] \cap rejected)
  BY <1>1, <1>2 DEF Insert
<1>7. evening /\ r \notin due
  BY <1>1 DEF GenInv, Resting
<1>8. Resting'
  BY <1>3, <1>5, <1>7 DEF GenInv, Resting
<1>9. Chosen'
  BY <1>3, <1>5 DEF GenInv, Chosen, MayServe
<1>10. Fresh'
  <2> SUFFICES ASSUME NEW s \in Runs
               PROVE  ~Serves(s)' /\ pc'[s] # "retry"
    BY DEF Fresh
  <2>1. CASE s = r
    BY <1>3, <1>5, <1>7, <2>1 DEF Serves
  <2>2. CASE s # r
    <3>1. ~MayServe(s)
      BY <1>1, <2>2, OneAtATime
    <3> QED
      BY <1>3, <1>5, <2>2, <3>1 DEF Serves, MayServe, GenInv, Fresh
  <2> QED
    BY <2>1, <2>2
<1>11. Measured'
  BY <1>3, <1>5, <1>6 DEF GenInv, Measured, Lacking, Residual
<1>12. Covered'
  <2>1. \A k \in proposed' : /\ k \in Keys /\ k[1] = Strategy[r] /\ k[2] \in drafts[r]
                             /\ k = <<k[1], k[2]>>
    BY <1>6 DEF GenInv, TypeInv, TypeOK, Keys, Strategies
  <2>2. \A k \in Keys : quantity'[k] = IF k[1] = Strategy[r] /\ k[2] \in drafts[r]
                                       THEN size[r][k[2]] ELSE quantity[k]
    BY <1>2 DEF Insert
  <2>3. \A k \in proposed' : quantity'[k] <= gap'[k[2]]
    <3> TAKE k \in proposed'
    <3>1. k[2] \in Legs /\ gap[k[2]] > 0 /\ gap[k[2]] \in Int
      BY <1>4, <2>1 DEF Lacking, GenInv, TypeInv, TypeOK
    <3>2. quantity'[k] = gap[k[2]]
      BY <1>4, <2>1, <2>2, <3>1 DEF Residual
    <3> QED
      BY <1>3, <3>1, <3>2
  <2>4. \A k, m \in proposed' : k[2] = m[2] => k = m
    BY <2>1
  <2> QED
    BY <1>1, <1>3, <2>3, <2>4 DEF GenInv, Covered
<1>13. RejectionRespected'
  BY <1>4, <1>6 DEF GenInv, RejectionRespected
<1> QED
  BY <1>8, <1>9, <1>10, <1>11, <1>12, <1>13 DEF GenInv

LEMMA RunStepInv ==
    ASSUME OneServer, GenInv, TypeInv', NEW r \in Runs, Start(r) \/ RunStep(r) \/ Fail(r)
    PROVE  GenInv'
<1> USE DEF tableVars, marketVars, clockVars
<1>1. CASE Start(r)
  BY <1>1, StartInv
<1>2. CASE CheckProfile(r)
  <2>1. Reading /\ UNCHANGED due /\ pc[r] = "check"
    BY <1>2 DEF CheckProfile, Reading
  <2>2. CASE MayServe(r)
    <3>1. UNCHANGED <<drafts, size>> /\ Goto(r, IF firstDay THEN "balance" ELSE "target")
      BY <1>2, <2>2 DEF CheckProfile
    <3> QED
      BY <2>1, <2>2, <3>1, GoOnInv DEF Steps
  <2>3. CASE ~MayServe(r)
    BY <1>2, <2>1, <2>3, StopInv DEF CheckProfile
  <2> QED
    BY <2>2, <2>3
<1>3. CASE LoadTarget(r)
  <2>1. Reading /\ UNCHANGED due /\ pc[r] = "target" /\ MayServe(r)
    BY <1>3 DEF LoadTarget, Reading, GenInv, Chosen
  <2>2. CASE Strategy[r] \in saved
    BY <1>3, <2>1, <2>2, GoOnInv DEF LoadTarget, Steps
  <2>3. CASE Strategy[r] \notin saved
    BY <1>3, <2>1, <2>3, StopInv DEF LoadTarget
  <2> QED
    BY <2>2, <2>3
<1>4. CASE ReadBalance(r)
  <2>1. Reading /\ UNCHANGED due /\ pc[r] # "off" /\ MayServe(r)
    BY <1>4 DEF ReadBalance, Reading, GenInv, Chosen
  <2>2. /\ drafts' = [drafts EXCEPT ![r] = Lacking]
        /\ size' = [size EXCEPT ![r] = [l \in Legs |-> Residual(l)]]
        /\ Goto(r, IF pc[r] = "balance" THEN "save" ELSE "filter")
    BY <1>4 DEF ReadBalance
  <2>3. /\ drafts'[r] = Lacking /\ \A l \in Legs : size'[r][l] = Residual(l)
        /\ \A s \in Runs \ {r} : drafts'[s] = drafts[s] /\ size'[s] = size[s]
    BY <2>2 DEF GenInv, TypeInv, TypeOK
  <2> QED
    BY <2>1, <2>2, <2>3, GoOnInv DEF Steps
<1>5. CASE SaveTarget(r)
  <2>1. Reading /\ UNCHANGED <<due, drafts, size>> /\ pc[r] = "save" /\ Goto(r, "filter")
    BY <1>5 DEF SaveTarget, Reading
  <2>2. MayServe(r) /\ drafts[r] \subseteq Lacking /\ \A l \in Legs : size[r][l] = Residual(l)
    BY <2>1 DEF GenInv, Chosen, Measured
  <2> QED
    BY <2>1, <2>2, GoOnInv DEF Steps
<1>6. CASE FilterRejected(r)
  <2>1. /\ Reading /\ UNCHANGED <<due, size>> /\ pc[r] = "filter" /\ Goto(r, "dedupe")
        /\ drafts' = [drafts EXCEPT ![r] = @ \ rejected]
    BY <1>6 DEF FilterRejected, Reading
  <2>2. MayServe(r) /\ drafts[r] \subseteq Lacking /\ \A l \in Legs : size[r][l] = Residual(l)
    BY <2>1 DEF GenInv, Chosen, Measured
  <2>3. /\ drafts'[r] \subseteq drafts[r] /\ drafts'[r] \cap rejected = {}
        /\ \A s \in Runs \ {r} : drafts'[s] = drafts[s]
    BY <2>1 DEF GenInv, TypeInv, TypeOK
  <2> QED
    BY <2>1, <2>2, <2>3, GoOnInv DEF Steps
<1>7. CASE Dedupe(r)
  <2>1. /\ Reading /\ UNCHANGED due /\ pc[r] = "dedupe"
    BY <1>7 DEF Dedupe, Reading
  <2>2. /\ MayServe(r) /\ drafts[r] \subseteq Lacking /\ drafts[r] \cap rejected = {}
        /\ \A l \in Legs : size[r][l] = Residual(l)
    BY <2>1 DEF GenInv, Chosen, Measured
  <2>3. CASE Stop(r)
    BY <2>1, <2>3, StopInv
  <2>4. CASE ~Stop(r)
    <3>1. /\ drafts' = [drafts EXCEPT ![r] = @ \ Pending(r)]
          /\ Goto(r, "commit") /\ UNCHANGED size
      BY <1>7, <2>4 DEF Dedupe
    <3>2. drafts'[r] \subseteq drafts[r] /\ \A s \in Runs \ {r} : drafts'[s] = drafts[s]
      BY <3>1 DEF GenInv, TypeInv, TypeOK
    <3>3. drafts'[r] \subseteq Lacking /\ drafts'[r] \cap rejected = {}
      BY <2>2, <3>2
    <3> QED
      BY <2>1, <2>2, <3>1, <3>2, <3>3, GoOnInv DEF Steps
  <2> QED
    BY <2>3, <2>4
<1>8. CASE Commit(r)
  BY <1>8, CommitInv
<1>9. ASSUME NEW l \in Legs, RetryRow(r, l)
      PROVE  GenInv'
  BY <1>9 DEF RetryRow, GenInv, Fresh
<1>10. CASE Fail(r)
  BY <1>10, StopInv DEF Fail, Reading
<1>11. CASE RetryDone(r)
  BY <1>11 DEF RetryDone, GenInv, Fresh
<1> QED
  BY <1>1, <1>2, <1>3, <1>4, <1>5, <1>6, <1>7, <1>8, <1>9, <1>10, <1>11 DEF RunStep

LEMMA ApproveInv ==
    ASSUME GenInv, TypeInv', NEW k \in Keys, Approve(k)
    PROVE  GenInv'
<1> USE DEF clockVars, runVars
<1>1. /\ k \in proposed /\ proposed' = proposed \ {k}
      /\ quantity' = [quantity EXCEPT ![k] = 0]
      /\ \/ working' = working \cup {[leg |-> k[2], by |-> k[1], qty |-> quantity[k]]}
         \/ working' = working
      /\ UNCHANGED <<rejected, saved, gap, enabled, evening, firstDay, due, pc, drafts, size, revived>>
  BY DEF Approve
<1>2. \A r \in Runs : ~Serves(r)
  BY <1>1 DEF GenInv, Fresh
<1>3. Resting' /\ Chosen' /\ Measured' /\ RejectionRespected'
  BY <1>1 DEF GenInv, Resting, Chosen, Measured, RejectionRespected, MayServe, Lacking, Residual
<1>4. Fresh'
  BY <1>1, <1>2 DEF GenInv, Fresh, Serves, MayServe
<1>5. Covered'
  <2>1. \A m \in proposed' : m \in proposed /\ m # k /\ quantity'[m] = quantity[m]
    BY <1>1 DEF GenInv, TypeInv, TypeOK
  <2>2. \A m \in proposed' : m[2] # k[2]
    BY <1>1, <2>1 DEF GenInv, Covered
  <2>3. \A o \in working : o.leg # k[2]
    BY <1>1 DEF GenInv, Covered
  <2>4. quantity[k] <= gap[k[2]]
    BY <1>1 DEF GenInv, Covered
  <2>5. ASSUME NEW o \in working'
        PROVE  o \in working \/ o = [leg |-> k[2], by |-> k[1], qty |-> quantity[k]]
    BY <1>1
  <2>6. \A o \in working' : o.qty <= gap'[o.leg] /\ \A m \in proposed' : o.leg # m[2]
    BY <1>1, <2>1, <2>2, <2>4, <2>5 DEF GenInv, Covered
  <2>7. \A o, q \in working' : o.leg = q.leg => o = q
    BY <2>3, <2>5 DEF GenInv, Covered
  <2> QED
    BY <1>1, <2>1, <2>6, <2>7 DEF GenInv, Covered
<1> QED
  BY <1>3, <1>4, <1>5 DEF GenInv

LEMMA RejectInv ==
    ASSUME GenInv, TypeInv', NEW k \in Keys, Reject(k)
    PROVE  GenInv'
<1> USE DEF marketVars, clockVars, runVars
<1>1. /\ k \in proposed /\ proposed' = proposed \ {k}
      /\ quantity' = [quantity EXCEPT ![k] = 0]
      /\ rejected' = rejected \cup {k[2]}
      /\ UNCHANGED <<working, saved, gap, enabled, evening, firstDay, due, pc, drafts, size, revived>>
  BY DEF Reject
<1>2. \A r \in Runs : ~Serves(r)
  BY <1>1 DEF GenInv, Fresh
<1>3. \A r \in Runs : pc[r] \in {"off", "check"}
  BY <1>2 DEF GenInv, Chosen, Serves
<1>4. Resting' /\ Chosen' /\ RejectionRespected'
  BY <1>1 DEF GenInv, Resting, Chosen, RejectionRespected, MayServe
<1>5. Fresh'
  BY <1>1, <1>2 DEF GenInv, Fresh, Serves, MayServe
<1>6. Measured'
  BY <1>1, <1>3 DEF Measured
<1>7. Covered'
  <2>1. \A m \in proposed' : m \in proposed /\ m # k /\ quantity'[m] = quantity[m]
    BY <1>1 DEF GenInv, TypeInv, TypeOK
  <2> QED
    BY <1>1, <2>1 DEF GenInv, Covered
<1> QED
  BY <1>4, <1>5, <1>6, <1>7 DEF GenInv

\* A fill takes from the gap of its leg, which nothing else is to fill.
LEMMA FillInv ==
    ASSUME GenInv, TypeInv', NEW order \in working, NEW n \in 1..order.qty, Fill(order, n)
    PROVE  GenInv'
<1> USE DEF tableVars, clockVars, runVars
<1>1. /\ working' = working \ {order}
      /\ gap' = [gap EXCEPT ![order.leg] = @ - n]
      /\ UNCHANGED <<proposed, quantity, rejected, saved, enabled, evening, firstDay, due,
                     pc, drafts, size, revived>>
  BY DEF Fill
<1>2. order.leg \in Legs /\ order.qty \in Nat /\ n \in Nat /\ n <= order.qty
  BY GenerationAssumption DEF GenInv, TypeInv, TypeOK, Orders, Quantities
<1>3. \A r \in Runs : ~Serves(r)
  BY DEF GenInv, Fresh
<1>4. \A r \in Runs : pc[r] \in {"off", "check"}
  BY <1>3 DEF GenInv, Chosen, Serves
<1>5. Resting' /\ Chosen' /\ RejectionRespected'
  BY <1>1 DEF GenInv, Resting, Chosen, RejectionRespected, MayServe
<1>6. Fresh'
  BY <1>1, <1>3 DEF GenInv, Fresh, Serves, MayServe
<1>7. Measured'
  BY <1>1, <1>4 DEF Measured
<1>8. Covered'
  <2>1. gap \in [Legs -> Int] /\ gap[order.leg] >= order.qty
    BY DEF GenInv, TypeInv, TypeOK, Covered
  <2>2. /\ gap'[order.leg] = gap[order.leg] - n
        /\ \A l \in Legs \ {order.leg} : gap'[l] = gap[l]
    BY <1>1, <1>2, <2>1
  <2>3. \A l \in Legs : gap'[l] >= 0
    BY <1>2, <2>1, <2>2 DEF GenInv, Covered
  <2>4. \A k \in proposed : k[2] \in Legs \ {order.leg}
    BY DEF GenInv, Covered, TypeInv, TypeOK, Keys
  <2>5. \A o \in working' : o \in working /\ o.leg \in Legs \ {order.leg}
    BY <1>1 DEF GenInv, Covered, TypeInv, TypeOK, Orders
  <2>6. \A k \in proposed' : quantity'[k] <= gap'[k[2]]
    BY <1>1, <2>2, <2>4 DEF GenInv, Covered
  <2>7. \A o \in working' : o.qty <= gap'[o.leg]
    BY <2>2, <2>5 DEF GenInv, Covered
  <2> QED
    BY <1>1, <2>3, <2>5, <2>6, <2>7 DEF GenInv, Covered
<1> QED
  BY <1>5, <1>6, <1>7, <1>8 DEF GenInv

LEMMA ClockInv ==
    ASSUME OneServer, GenInv, TypeInv', Toggle \/ Evening \/ Morning
    PROVE  GenInv'
<1> USE DEF tableVars, marketVars, clockVars, runVars
<1>1. CASE Toggle
  <2>1. ~evening /\ UNCHANGED <<tableVars, marketVars, clockVars, runVars, revived>>
    BY <1>1 DEF Toggle, OneServer
  <2>2. due = {} /\ \A r \in Runs : pc[r] = "off"
    BY <2>1 DEF GenInv, Resting
  <2>3. Resting' /\ Chosen' /\ Fresh' /\ Measured'
    BY <2>1, <2>2 DEF GenInv, Resting, Chosen, Fresh, Serves, Measured
  <2>4. Covered' /\ RejectionRespected'
    BY <2>1 DEF GenInv, Covered, RejectionRespected
  <2> QED
    BY <2>3, <2>4 DEF GenInv
<1>2. CASE Evening
  <2>1. /\ evening' = TRUE /\ due' = CronRuns /\ working' = {} /\ proposed = {}
        /\ \A r \in Runs : pc[r] = "off"
        /\ UNCHANGED <<tableVars, gap, enabled, firstDay, runVars, revived>>
    BY <1>2 DEF Evening, GenInv, Resting
  <2>2. Resting' /\ Chosen' /\ Fresh' /\ Measured'
    BY <2>1, GenerationAssumption DEF GenInv, Resting, Chosen, Fresh, Measured, Runs
  <2>3. Covered' /\ RejectionRespected'
    BY <2>1 DEF GenInv, Covered, RejectionRespected
  <2> QED
    BY <2>2, <2>3 DEF GenInv
<1>3. CASE Morning
  <2>1. /\ evening' = FALSE /\ due = {} /\ proposed' = {}
        /\ \A r \in Runs : pc[r] = "off"
        /\ UNCHANGED <<rejected, saved, marketVars, enabled, due, runVars, revived>>
    BY <1>3 DEF Morning, OneServer, Runs
  <2>2. Resting' /\ Chosen' /\ Fresh' /\ Measured'
    BY <2>1 DEF Resting, Chosen, Fresh, Serves, Measured
  <2>3. Covered' /\ RejectionRespected'
    BY <2>1 DEF GenInv, Covered, RejectionRespected
  <2> QED
    BY <2>2, <2>3 DEF GenInv
<1> QED
  BY <1>1, <1>2, <1>3

LEMMA GenNextInv ==
    ASSUME OneServer
    PROVE  GenInv /\ [Next]_vars => GenInv'
<1> SUFFICES ASSUME GenInv, [Next]_vars PROVE GenInv'
  OBVIOUS
<1>1. TypeInv'
  BY GenerationTyping DEF GenInv
<1>2. CASE UNCHANGED vars
  <2>1. UNCHANGED <<tableVars, marketVars, enabled, clockVars, runVars, revived>>
    BY <1>2 DEF vars
  <2> QED
    BY <1>1, <2>1 DEF tableVars, marketVars, clockVars, runVars, GenInv, Resting, Chosen, MayServe,
        Fresh, Serves, Measured, Lacking, Residual, Covered, RejectionRespected
<1> QED
  BY <1>1, <1>2, RunStepInv, ApproveInv, RejectInv, FillInv, ClockInv DEF Next

\* With the two jobs of the evening alone, a leg the user rejected this month is
\* not proposed again, whatever runs fail and the profile is switched to by day.
THEOREM GenerationRespectsRejection ==
    ASSUME OneServer
    PROVE  Spec => []RejectionRespected
<1>1. GenInv => RejectionRespected
  BY DEF GenInv
<1> QED
  BY <1>1, GenInitInv, GenNextInv, PTL DEF Spec

\* ... the two systems never propose one leg side by side ...
THEOREM GenerationOneSystem ==
    ASSUME OneServer
    PROVE  Spec => []OneSystemPerLeg
<1>1. GenInv => OneSystemPerLeg
  BY DEF GenInv, Covered, OneSystemPerLeg
<1> QED
  BY <1>1, GenInitInv, GenNextInv, PTL DEF Spec

\* ... and what is proposed, approved and filled, in part or in whole, evening
\* after evening, never takes a holding beyond the month's target.
THEOREM GenerationWithinTarget ==
    ASSUME OneServer
    PROVE  Spec => []NeverBeyondTarget
<1>1. GenInv => NeverBeyondTarget
  BY DEF GenInv, Covered, NeverBeyondTarget
<1> QED
  BY <1>1, GenInitInv, GenNextInv, PTL DEF Spec
=============================================================================
