------------------------- MODULE OrderApprovalProofs -------------------------
(***************************************************************************)
(* Proofs about OrderApproval, for any set of proposals and requests, any  *)
(* terms, any faults and any number of restarts.                           *)
(***************************************************************************)
EXTENDS OrderApproval, TLAPS

(* The inductive invariant, part by part.                                  *)

\* Where a request can stand once it has sent its submission.
AfterSend == {"await", "persist", "mark_stored", "mark_unstored", "mark_failed",
              "submitted", "failed", "raised", "dead"}

\* A request sends nothing before Place.
Linked == \A r \in Sent : pc[r] \in AfterSend

\* A key is persisted exactly with the claim, by a request for that proposal.
Claimed ==
    \A p \in Proposals :
        /\ clientOrderId[p] # NoKey <=> status[p] \in Approved
        /\ clientOrderId[p] # NoKey => job[clientOrderId[p]] = p

\* What a request standing at a label has established.
AtHand ==
    \A r \in Requests :
        /\ pc[r] = "persist" => r \in book
        /\ pc[r] = "mark_unstored" => r \in book
        /\ pc[r] = "mark_stored" => trades[held[r]] = r
        /\ pc[r] = "replay" => trades[held[r]] # NoTrade

IInv ==
    /\ TypeOK
    /\ Linked
    /\ DeclinedNeverOrdered
    /\ OneKeyPerProposal
    /\ Claimed
    /\ AtHand
    /\ LedgerTruthful

\* A request past the lookup of its key: no earlier order of the key was found.
PastLookup == {"guard", "loss", "place", "await", "persist", "mark_stored",
               "mark_unstored", "mark_blocked", "mark_failed"}

\* The parts of the second invariant, for requests that never overlap.
Exclusive ==
    \A r, s \in Requests :
        pc[r] \in InFlight /\ pc[s] \in InFlight /\ job[r] = job[s] => r = s

StillApproved == \A r \in Requests : pc[r] \in Executing => status[job[r]] = "APPROVED"

\* What became of an order that was not forgotten.
Recorded ==
    \A r \in Sent : job[r] \notin lost =>
        \/ pc[r] \in {"await", "persist", "mark_unstored", "mark_failed"}
        \/ trades[clientOrderId[job[r]]] # NoTrade
        \/ status[job[r]] \in {"SUBMITTED", "FAILED"}

\* A request past its lookup is the only one with an order for its proposal.
NoOtherOrder ==
    \A r \in Requests, s \in Sent :
        pc[r] \in PastLookup /\ r # s /\ job[r] = job[s] => job[r] \in lost

FailureHonest ==
    "reply" \notin Faults => \A r \in Sent : pc[r] # "mark_failed"

SerialInv ==
    "overlap" \notin Faults =>
        Exclusive /\ StillApproved /\ Recorded /\ NoOtherOrder /\ FailureHonest
            /\ RepeatOnlyAfterLoss /\ FailedMeansNoOrder

-----------------------------------------------------------------------------
(* Type correctness.                                                       *)

LEMMA InitTypeOK == ASSUME Init PROVE TypeOK
<1> USE ApprovalAssumption DEF Init
<1>1. \A r \in Requests : pc[r] = "idle" /\ job[r] = NoProposal
  OBVIOUS
<1>2. status \in [Proposals -> Statuses]
  BY DEF Statuses
<1>3. restarts \in 0..MaxRestarts
  OBVIOUS
<1>. QED
  BY <1>1, <1>2, <1>3 DEF TypeOK, Executing

LEMMA NextTypeOK == ASSUME TypeOK, [Next]_vars PROVE TypeOK'
<1> USE ApprovalAssumption
    DEF TypeOK, Statuses, Approved, Declined, InFlight, Executing, Finished, Outcomes,
        Goto, proposalVars, brokerVars, gateVars
<1>1. ASSUME NEW r \in Requests, ReadProposal(r) PROVE TypeOK'
  BY <1>1 DEF ReadProposal
<1>2. ASSUME NEW r \in Requests, Claim(r) PROVE TypeOK'
  BY <1>2 DEF Claim
<1>3. ASSUME NEW r \in Requests, ClaimConflict(r) PROVE TypeOK'
  BY <1>3 DEF ClaimConflict
<1>4. ASSUME NEW r \in Requests, Lookup(r) PROVE TypeOK'
  BY <1>4 DEF Lookup
<1>5. ASSUME NEW r \in Requests, Replay(r) PROVE TypeOK'
  BY <1>5 DEF Replay, MarkProposal
<1>6. ASSUME NEW r \in Requests, Guard(r) PROVE TypeOK'
  BY <1>6 DEF Guard
<1>7. ASSUME NEW r \in Requests, CheckDailyLoss(r) PROVE TypeOK'
  BY <1>7 DEF CheckDailyLoss
<1>8. ASSUME NEW r \in Requests, Place(r) PROVE TypeOK'
  BY <1>8 DEF Place
<1>9. ASSUME NEW r \in Requests, ReplyAccepted(r) PROVE TypeOK'
  BY <1>9 DEF ReplyAccepted
<1>10. ASSUME NEW r \in Requests, ReplyError(r) PROVE TypeOK'
  BY <1>10 DEF ReplyError
<1>11. ASSUME NEW r \in Requests, InsertTrade(r) PROVE TypeOK'
  BY <1>11 DEF InsertTrade
<1>12. ASSUME NEW r \in Requests, InsertFails(r) PROVE TypeOK'
  BY <1>12 DEF InsertFails
<1>13. ASSUME NEW r \in Requests, MarkStored(r) PROVE TypeOK'
  BY <1>13 DEF MarkStored, MarkProposal
<1>14. ASSUME NEW r \in Requests, MarkUnstored(r) PROVE TypeOK'
  BY <1>14 DEF MarkUnstored, MarkProposal
<1>15. ASSUME NEW r \in Requests, MarkRaises(r) PROVE TypeOK'
  BY <1>15 DEF MarkRaises
<1>16. ASSUME NEW r \in Requests, MarkBlocked(r) PROVE TypeOK'
  BY <1>16 DEF MarkBlocked, MarkProposal
<1>17. ASSUME NEW r \in Requests, MarkFailed(r) PROVE TypeOK'
  BY <1>17 DEF MarkFailed, MarkProposal
<1>18. ASSUME NEW r \in Requests, BrokerAccepts(r) PROVE TypeOK'
  BY <1>18 DEF BrokerAccepts
<1>19. ASSUME NEW r \in Requests, BrokerRefuses(r) PROVE TypeOK'
  BY <1>19 DEF BrokerRefuses
<1>20. ASSUME NEW r \in Requests, NEW p \in Proposals, Start(r, p) PROVE TypeOK'
  BY <1>20 DEF Start
<1>21. ASSUME NEW p \in Proposals, Reject(p) PROVE TypeOK'
  BY <1>21 DEF Reject
<1>22. ASSUME NEW due \in SUBSET Proposals, RunExpiry(due) PROVE TypeOK'
  BY <1>22 DEF RunExpiry
<1>23. CASE ToggleKillSwitch
  BY <1>23 DEF ToggleKillSwitch
<1>24. CASE LossChanges
  BY <1>24 DEF LossChanges
<1>25. CASE Restart
  BY <1>25 DEF Restart, Unrecorded, Sent
<1>26. CASE UNCHANGED vars
  BY <1>26 DEF vars
<1>. QED
  BY <1>1, <1>2, <1>3, <1>4, <1>5, <1>6, <1>7, <1>8, <1>9, <1>10, <1>11, <1>12, <1>13, <1>14, <1>15, <1>16, <1>17, <1>18, <1>19, <1>20, <1>21, <1>22, <1>23, <1>24, <1>25, <1>26 DEF Next, Handler, BrokerDecides

\* Every reachable state is well typed.
THEOREM TypeCorrect == Spec => []TypeOK
<1>1. Init => TypeOK
  BY InitTypeOK
<1>2. TypeOK /\ [Next]_vars => TypeOK'
  BY NextTypeOK
<1>. QED
  BY <1>1, <1>2, PTL DEF Spec

-----------------------------------------------------------------------------
(* The safety invariant.                                                   *)

\* A request stands past Place for as long as its submission exists.
LEMMA NextLinked == ASSUME TypeOK, Linked, [Next]_vars PROVE Linked'
<1> USE ApprovalAssumption
    DEF TypeOK, Linked, AfterSend, InFlight, Executing, Finished, Outcomes, Sent, Goto,
        proposalVars, brokerVars, gateVars
<1>1. ASSUME NEW r \in Requests, ReadProposal(r) PROVE Linked'
  BY <1>1 DEF ReadProposal
<1>2. ASSUME NEW r \in Requests, Claim(r) PROVE Linked'
  BY <1>2 DEF Claim
<1>3. ASSUME NEW r \in Requests, ClaimConflict(r) PROVE Linked'
  BY <1>3 DEF ClaimConflict
<1>4. ASSUME NEW r \in Requests, Lookup(r) PROVE Linked'
  BY <1>4 DEF Lookup
<1>5. ASSUME NEW r \in Requests, Replay(r) PROVE Linked'
  BY <1>5 DEF Replay, MarkProposal
<1>6. ASSUME NEW r \in Requests, Guard(r) PROVE Linked'
  BY <1>6 DEF Guard
<1>7. ASSUME NEW r \in Requests, CheckDailyLoss(r) PROVE Linked'
  BY <1>7 DEF CheckDailyLoss
<1>8. ASSUME NEW r \in Requests, Place(r) PROVE Linked'
  BY <1>8 DEF Place
<1>9. ASSUME NEW r \in Requests, ReplyAccepted(r) PROVE Linked'
  BY <1>9 DEF ReplyAccepted
<1>10. ASSUME NEW r \in Requests, ReplyError(r) PROVE Linked'
  BY <1>10 DEF ReplyError
<1>11. ASSUME NEW r \in Requests, InsertTrade(r) PROVE Linked'
  BY <1>11 DEF InsertTrade
<1>12. ASSUME NEW r \in Requests, InsertFails(r) PROVE Linked'
  BY <1>12 DEF InsertFails
<1>13. ASSUME NEW r \in Requests, MarkStored(r) PROVE Linked'
  BY <1>13 DEF MarkStored, MarkProposal
<1>14. ASSUME NEW r \in Requests, MarkUnstored(r) PROVE Linked'
  BY <1>14 DEF MarkUnstored, MarkProposal
<1>15. ASSUME NEW r \in Requests, MarkRaises(r) PROVE Linked'
  BY <1>15 DEF MarkRaises
<1>16. ASSUME NEW r \in Requests, MarkBlocked(r) PROVE Linked'
  BY <1>16 DEF MarkBlocked, MarkProposal
<1>17. ASSUME NEW r \in Requests, MarkFailed(r) PROVE Linked'
  BY <1>17 DEF MarkFailed, MarkProposal
<1>18. ASSUME NEW r \in Requests, BrokerAccepts(r) PROVE Linked'
  BY <1>18 DEF BrokerAccepts
<1>19. ASSUME NEW r \in Requests, BrokerRefuses(r) PROVE Linked'
  BY <1>19 DEF BrokerRefuses
<1>20. ASSUME NEW r \in Requests, NEW p \in Proposals, Start(r, p) PROVE Linked'
  BY <1>20 DEF Start
<1>21. ASSUME NEW p \in Proposals, Reject(p) PROVE Linked'
  BY <1>21 DEF Reject
<1>22. ASSUME NEW due \in SUBSET Proposals, RunExpiry(due) PROVE Linked'
  BY <1>22 DEF RunExpiry
<1>23. CASE ToggleKillSwitch
  BY <1>23 DEF ToggleKillSwitch
<1>24. CASE LossChanges
  BY <1>24 DEF LossChanges
<1>25. CASE Restart
  BY <1>25 DEF Restart, Unrecorded
<1>26. CASE UNCHANGED vars
  BY <1>26 DEF vars
<1>. QED
  BY <1>1, <1>2, <1>3, <1>4, <1>5, <1>6, <1>7, <1>8, <1>9, <1>10, <1>11, <1>12, <1>13, <1>14, <1>15, <1>16, <1>17, <1>18, <1>19, <1>20, <1>21, <1>22, <1>23, <1>24, <1>25, <1>26 DEF Next, Handler, BrokerDecides

\* The conditional updates of claim, reject and expiry exclude each other.
LEMMA NextDeclinedNeverOrdered == ASSUME TypeOK, Linked, DeclinedNeverOrdered, [Next]_vars PROVE DeclinedNeverOrdered'
<1> USE ApprovalAssumption
    DEF TypeOK, Linked, DeclinedNeverOrdered, AfterSend, Executing, InFlight, Finished, Outcomes, Approved, Sent, Goto,
        proposalVars, brokerVars, gateVars
<1>1. ASSUME NEW r \in Requests, ReadProposal(r) PROVE DeclinedNeverOrdered'
  BY <1>1 DEF ReadProposal
<1>2. ASSUME NEW r \in Requests, Claim(r) PROVE DeclinedNeverOrdered'
  BY <1>2 DEF Claim
<1>3. ASSUME NEW r \in Requests, ClaimConflict(r) PROVE DeclinedNeverOrdered'
  BY <1>3 DEF ClaimConflict
<1>4. ASSUME NEW r \in Requests, Lookup(r) PROVE DeclinedNeverOrdered'
  BY <1>4 DEF Lookup
<1>5. ASSUME NEW r \in Requests, Replay(r) PROVE DeclinedNeverOrdered'
  BY <1>5 DEF Replay, MarkProposal
<1>6. ASSUME NEW r \in Requests, Guard(r) PROVE DeclinedNeverOrdered'
  BY <1>6 DEF Guard
<1>7. ASSUME NEW r \in Requests, CheckDailyLoss(r) PROVE DeclinedNeverOrdered'
  BY <1>7 DEF CheckDailyLoss
<1>8. ASSUME NEW r \in Requests, Place(r) PROVE DeclinedNeverOrdered'
  BY <1>8 DEF Place
<1>9. ASSUME NEW r \in Requests, ReplyAccepted(r) PROVE DeclinedNeverOrdered'
  BY <1>9 DEF ReplyAccepted
<1>10. ASSUME NEW r \in Requests, ReplyError(r) PROVE DeclinedNeverOrdered'
  BY <1>10 DEF ReplyError
<1>11. ASSUME NEW r \in Requests, InsertTrade(r) PROVE DeclinedNeverOrdered'
  BY <1>11 DEF InsertTrade
<1>12. ASSUME NEW r \in Requests, InsertFails(r) PROVE DeclinedNeverOrdered'
  BY <1>12 DEF InsertFails
<1>13. ASSUME NEW r \in Requests, MarkStored(r) PROVE DeclinedNeverOrdered'
  BY <1>13 DEF MarkStored, MarkProposal
<1>14. ASSUME NEW r \in Requests, MarkUnstored(r) PROVE DeclinedNeverOrdered'
  BY <1>14 DEF MarkUnstored, MarkProposal
<1>15. ASSUME NEW r \in Requests, MarkRaises(r) PROVE DeclinedNeverOrdered'
  BY <1>15 DEF MarkRaises
<1>16. ASSUME NEW r \in Requests, MarkBlocked(r) PROVE DeclinedNeverOrdered'
  BY <1>16 DEF MarkBlocked, MarkProposal
<1>17. ASSUME NEW r \in Requests, MarkFailed(r) PROVE DeclinedNeverOrdered'
  BY <1>17 DEF MarkFailed, MarkProposal
<1>18. ASSUME NEW r \in Requests, BrokerAccepts(r) PROVE DeclinedNeverOrdered'
  BY <1>18 DEF BrokerAccepts
<1>19. ASSUME NEW r \in Requests, BrokerRefuses(r) PROVE DeclinedNeverOrdered'
  BY <1>19 DEF BrokerRefuses
<1>20. ASSUME NEW r \in Requests, NEW p \in Proposals, Start(r, p) PROVE DeclinedNeverOrdered'
  BY <1>20 DEF Start
<1>21. ASSUME NEW p \in Proposals, Reject(p) PROVE DeclinedNeverOrdered'
  BY <1>21 DEF Reject
<1>22. ASSUME NEW due \in SUBSET Proposals, RunExpiry(due) PROVE DeclinedNeverOrdered'
  BY <1>22 DEF RunExpiry
<1>23. CASE ToggleKillSwitch
  BY <1>23 DEF ToggleKillSwitch
<1>24. CASE LossChanges
  BY <1>24 DEF LossChanges
<1>25. CASE Restart
  BY <1>25 DEF Restart, Unrecorded
<1>26. CASE UNCHANGED vars
  BY <1>26 DEF vars
<1>. QED
  BY <1>1, <1>2, <1>3, <1>4, <1>5, <1>6, <1>7, <1>8, <1>9, <1>10, <1>11, <1>12, <1>13, <1>14, <1>15, <1>16, <1>17, <1>18, <1>19, <1>20, <1>21, <1>22, <1>23, <1>24, <1>25, <1>26 DEF Next, Handler, BrokerDecides

\* A key is minted once, and every later request reads it.
LEMMA NextOneKeyPerProposal == ASSUME TypeOK, Linked, DeclinedNeverOrdered, OneKeyPerProposal, Claimed, [Next]_vars PROVE OneKeyPerProposal'
<1> USE ApprovalAssumption
    DEF TypeOK, Linked, DeclinedNeverOrdered, OneKeyPerProposal, Claimed, AfterSend, Executing, InFlight, Finished, Outcomes, Approved, Sent, Goto,
        proposalVars, brokerVars, gateVars
<1>1. ASSUME NEW r \in Requests, ReadProposal(r) PROVE OneKeyPerProposal'
  BY <1>1 DEF ReadProposal
<1>2. ASSUME NEW r \in Requests, Claim(r) PROVE OneKeyPerProposal'
  BY <1>2 DEF Claim
<1>3. ASSUME NEW r \in Requests, ClaimConflict(r) PROVE OneKeyPerProposal'
  BY <1>3 DEF ClaimConflict
<1>4. ASSUME NEW r \in Requests, Lookup(r) PROVE OneKeyPerProposal'
  BY <1>4 DEF Lookup
<1>5. ASSUME NEW r \in Requests, Replay(r) PROVE OneKeyPerProposal'
  BY <1>5 DEF Replay, MarkProposal
<1>6. ASSUME NEW r \in Requests, Guard(r) PROVE OneKeyPerProposal'
  BY <1>6 DEF Guard
<1>7. ASSUME NEW r \in Requests, CheckDailyLoss(r) PROVE OneKeyPerProposal'
  BY <1>7 DEF CheckDailyLoss
<1>8. ASSUME NEW r \in Requests, Place(r) PROVE OneKeyPerProposal'
  BY <1>8 DEF Place
<1>9. ASSUME NEW r \in Requests, ReplyAccepted(r) PROVE OneKeyPerProposal'
  BY <1>9 DEF ReplyAccepted
<1>10. ASSUME NEW r \in Requests, ReplyError(r) PROVE OneKeyPerProposal'
  BY <1>10 DEF ReplyError
<1>11. ASSUME NEW r \in Requests, InsertTrade(r) PROVE OneKeyPerProposal'
  BY <1>11 DEF InsertTrade
<1>12. ASSUME NEW r \in Requests, InsertFails(r) PROVE OneKeyPerProposal'
  BY <1>12 DEF InsertFails
<1>13. ASSUME NEW r \in Requests, MarkStored(r) PROVE OneKeyPerProposal'
  BY <1>13 DEF MarkStored, MarkProposal
<1>14. ASSUME NEW r \in Requests, MarkUnstored(r) PROVE OneKeyPerProposal'
  BY <1>14 DEF MarkUnstored, MarkProposal
<1>15. ASSUME NEW r \in Requests, MarkRaises(r) PROVE OneKeyPerProposal'
  BY <1>15 DEF MarkRaises
<1>16. ASSUME NEW r \in Requests, MarkBlocked(r) PROVE OneKeyPerProposal'
  BY <1>16 DEF MarkBlocked, MarkProposal
<1>17. ASSUME NEW r \in Requests, MarkFailed(r) PROVE OneKeyPerProposal'
  BY <1>17 DEF MarkFailed, MarkProposal
<1>18. ASSUME NEW r \in Requests, BrokerAccepts(r) PROVE OneKeyPerProposal'
  BY <1>18 DEF BrokerAccepts
<1>19. ASSUME NEW r \in Requests, BrokerRefuses(r) PROVE OneKeyPerProposal'
  BY <1>19 DEF BrokerRefuses
<1>20. ASSUME NEW r \in Requests, NEW p \in Proposals, Start(r, p) PROVE OneKeyPerProposal'
  BY <1>20 DEF Start
<1>21. ASSUME NEW p \in Proposals, Reject(p) PROVE OneKeyPerProposal'
  BY <1>21 DEF Reject
<1>22. ASSUME NEW due \in SUBSET Proposals, RunExpiry(due) PROVE OneKeyPerProposal'
  BY <1>22 DEF RunExpiry
<1>23. CASE ToggleKillSwitch
  BY <1>23 DEF ToggleKillSwitch
<1>24. CASE LossChanges
  BY <1>24 DEF LossChanges
<1>25. CASE Restart
  BY <1>25 DEF Restart, Unrecorded
<1>26. CASE UNCHANGED vars
  BY <1>26 DEF vars
<1>. QED
  BY <1>1, <1>2, <1>3, <1>4, <1>5, <1>6, <1>7, <1>8, <1>9, <1>10, <1>11, <1>12, <1>13, <1>14, <1>15, <1>16, <1>17, <1>18, <1>19, <1>20, <1>21, <1>22, <1>23, <1>24, <1>25, <1>26 DEF Next, Handler, BrokerDecides

\* Status and key change together.
LEMMA NextClaimed == ASSUME TypeOK, Claimed, DeclinedNeverOrdered, [Next]_vars PROVE Claimed'
<1> USE ApprovalAssumption
    DEF TypeOK, Claimed, DeclinedNeverOrdered, Executing, InFlight, Finished, Outcomes, Approved, Declined, Sent, Goto,
        proposalVars, brokerVars, gateVars
<1>1. ASSUME NEW r \in Requests, ReadProposal(r) PROVE Claimed'
  BY <1>1 DEF ReadProposal
<1>2. ASSUME NEW r \in Requests, Claim(r) PROVE Claimed'
  BY <1>2 DEF Claim
<1>3. ASSUME NEW r \in Requests, ClaimConflict(r) PROVE Claimed'
  BY <1>3 DEF ClaimConflict
<1>4. ASSUME NEW r \in Requests, Lookup(r) PROVE Claimed'
  BY <1>4 DEF Lookup
<1>5. ASSUME NEW r \in Requests, Replay(r) PROVE Claimed'
  BY <1>5 DEF Replay, MarkProposal
<1>6. ASSUME NEW r \in Requests, Guard(r) PROVE Claimed'
  BY <1>6 DEF Guard
<1>7. ASSUME NEW r \in Requests, CheckDailyLoss(r) PROVE Claimed'
  BY <1>7 DEF CheckDailyLoss
<1>8. ASSUME NEW r \in Requests, Place(r) PROVE Claimed'
  BY <1>8 DEF Place
<1>9. ASSUME NEW r \in Requests, ReplyAccepted(r) PROVE Claimed'
  BY <1>9 DEF ReplyAccepted
<1>10. ASSUME NEW r \in Requests, ReplyError(r) PROVE Claimed'
  BY <1>10 DEF ReplyError
<1>11. ASSUME NEW r \in Requests, InsertTrade(r) PROVE Claimed'
  BY <1>11 DEF InsertTrade
<1>12. ASSUME NEW r \in Requests, InsertFails(r) PROVE Claimed'
  BY <1>12 DEF InsertFails
<1>13. ASSUME NEW r \in Requests, MarkStored(r) PROVE Claimed'
  BY <1>13 DEF MarkStored, MarkProposal
<1>14. ASSUME NEW r \in Requests, MarkUnstored(r) PROVE Claimed'
  BY <1>14 DEF MarkUnstored, MarkProposal
<1>15. ASSUME NEW r \in Requests, MarkRaises(r) PROVE Claimed'
  BY <1>15 DEF MarkRaises
<1>16. ASSUME NEW r \in Requests, MarkBlocked(r) PROVE Claimed'
  BY <1>16 DEF MarkBlocked, MarkProposal
<1>17. ASSUME NEW r \in Requests, MarkFailed(r) PROVE Claimed'
  BY <1>17 DEF MarkFailed, MarkProposal
<1>18. ASSUME NEW r \in Requests, BrokerAccepts(r) PROVE Claimed'
  BY <1>18 DEF BrokerAccepts
<1>19. ASSUME NEW r \in Requests, BrokerRefuses(r) PROVE Claimed'
  BY <1>19 DEF BrokerRefuses
<1>20. ASSUME NEW r \in Requests, NEW p \in Proposals, Start(r, p) PROVE Claimed'
  BY <1>20 DEF Start
<1>21. ASSUME NEW p \in Proposals, Reject(p) PROVE Claimed'
  BY <1>21 DEF Reject
<1>22. ASSUME NEW due \in SUBSET Proposals, RunExpiry(due) PROVE Claimed'
  BY <1>22 DEF RunExpiry
<1>23. CASE ToggleKillSwitch
  BY <1>23 DEF ToggleKillSwitch
<1>24. CASE LossChanges
  BY <1>24 DEF LossChanges
<1>25. CASE Restart
  BY <1>25 DEF Restart, Unrecorded
<1>26. CASE UNCHANGED vars
  BY <1>26 DEF vars
<1>. QED
  BY <1>1, <1>2, <1>3, <1>4, <1>5, <1>6, <1>7, <1>8, <1>9, <1>10, <1>11, <1>12, <1>13, <1>14, <1>15, <1>16, <1>17, <1>18, <1>19, <1>20, <1>21, <1>22, <1>23, <1>24, <1>25, <1>26 DEF Next, Handler, BrokerDecides

\* What a label establishes lasts while the request stands there.
LEMMA NextAtHand == ASSUME TypeOK, AtHand, OneKeyPerProposal, [Next]_vars PROVE AtHand'
<1> USE ApprovalAssumption
    DEF TypeOK, AtHand, Executing, InFlight, Finished, Outcomes, Goto,
        proposalVars, brokerVars, gateVars
<1>1. ASSUME NEW r \in Requests, ReadProposal(r) PROVE AtHand'
  BY <1>1 DEF ReadProposal
<1>2. ASSUME NEW r \in Requests, Claim(r) PROVE AtHand'
  BY <1>2 DEF Claim
<1>3. ASSUME NEW r \in Requests, ClaimConflict(r) PROVE AtHand'
  BY <1>3 DEF ClaimConflict
<1>4. ASSUME NEW r \in Requests, Lookup(r) PROVE AtHand'
  BY <1>4 DEF Lookup
<1>5. ASSUME NEW r \in Requests, Replay(r) PROVE AtHand'
  BY <1>5 DEF Replay, MarkProposal
<1>6. ASSUME NEW r \in Requests, Guard(r) PROVE AtHand'
  BY <1>6 DEF Guard
<1>7. ASSUME NEW r \in Requests, CheckDailyLoss(r) PROVE AtHand'
  BY <1>7 DEF CheckDailyLoss
<1>8. ASSUME NEW r \in Requests, Place(r) PROVE AtHand'
  BY <1>8 DEF Place
<1>9. ASSUME NEW r \in Requests, ReplyAccepted(r) PROVE AtHand'
  BY <1>9 DEF ReplyAccepted
<1>10. ASSUME NEW r \in Requests, ReplyError(r) PROVE AtHand'
  BY <1>10 DEF ReplyError
<1>11. ASSUME NEW r \in Requests, InsertTrade(r) PROVE AtHand'
  BY <1>11 DEF InsertTrade
<1>12. ASSUME NEW r \in Requests, InsertFails(r) PROVE AtHand'
  BY <1>12 DEF InsertFails
<1>13. ASSUME NEW r \in Requests, MarkStored(r) PROVE AtHand'
  BY <1>13 DEF MarkStored, MarkProposal
<1>14. ASSUME NEW r \in Requests, MarkUnstored(r) PROVE AtHand'
  BY <1>14 DEF MarkUnstored, MarkProposal
<1>15. ASSUME NEW r \in Requests, MarkRaises(r) PROVE AtHand'
  BY <1>15 DEF MarkRaises
<1>16. ASSUME NEW r \in Requests, MarkBlocked(r) PROVE AtHand'
  BY <1>16 DEF MarkBlocked, MarkProposal
<1>17. ASSUME NEW r \in Requests, MarkFailed(r) PROVE AtHand'
  BY <1>17 DEF MarkFailed, MarkProposal
<1>18. ASSUME NEW r \in Requests, BrokerAccepts(r) PROVE AtHand'
  BY <1>18 DEF BrokerAccepts
<1>19. ASSUME NEW r \in Requests, BrokerRefuses(r) PROVE AtHand'
  BY <1>19 DEF BrokerRefuses
<1>20. ASSUME NEW r \in Requests, NEW p \in Proposals, Start(r, p) PROVE AtHand'
  BY <1>20 DEF Start
<1>21. ASSUME NEW p \in Proposals, Reject(p) PROVE AtHand'
  BY <1>21 DEF Reject
<1>22. ASSUME NEW due \in SUBSET Proposals, RunExpiry(due) PROVE AtHand'
  BY <1>22 DEF RunExpiry
<1>23. CASE ToggleKillSwitch
  BY <1>23 DEF ToggleKillSwitch
<1>24. CASE LossChanges
  BY <1>24 DEF LossChanges
<1>25. CASE Restart
  BY <1>25 DEF Restart, Unrecorded
<1>26. CASE UNCHANGED vars
  BY <1>26 DEF vars
<1>. QED
  BY <1>1, <1>2, <1>3, <1>4, <1>5, <1>6, <1>7, <1>8, <1>9, <1>10, <1>11, <1>12, <1>13, <1>14, <1>15, <1>16, <1>17, <1>18, <1>19, <1>20, <1>21, <1>22, <1>23, <1>24, <1>25, <1>26 DEF Next, Handler, BrokerDecides

\* Rows are stored after acceptance, marks after rows.
LEMMA NextLedgerTruthful == ASSUME IInv, [Next]_vars PROVE LedgerTruthful'
<1> USE ApprovalAssumption
    DEF IInv, TypeOK, Linked, DeclinedNeverOrdered, OneKeyPerProposal, Claimed, AtHand, LedgerTruthful, Executing, AfterSend, InFlight, Finished, Outcomes, Approved, Sent, Goto,
        proposalVars, brokerVars, gateVars
<1>1. ASSUME NEW r \in Requests, ReadProposal(r) PROVE LedgerTruthful'
  BY <1>1 DEF ReadProposal
<1>2. ASSUME NEW r \in Requests, Claim(r) PROVE LedgerTruthful'
  BY <1>2 DEF Claim
<1>3. ASSUME NEW r \in Requests, ClaimConflict(r) PROVE LedgerTruthful'
  BY <1>3 DEF ClaimConflict
<1>4. ASSUME NEW r \in Requests, Lookup(r) PROVE LedgerTruthful'
  BY <1>4 DEF Lookup
<1>5. ASSUME NEW r \in Requests, Replay(r) PROVE LedgerTruthful'
  BY <1>5 DEF Replay, MarkProposal
<1>6. ASSUME NEW r \in Requests, Guard(r) PROVE LedgerTruthful'
  BY <1>6 DEF Guard
<1>7. ASSUME NEW r \in Requests, CheckDailyLoss(r) PROVE LedgerTruthful'
  BY <1>7 DEF CheckDailyLoss
<1>8. ASSUME NEW r \in Requests, Place(r) PROVE LedgerTruthful'
  BY <1>8 DEF Place
<1>9. ASSUME NEW r \in Requests, ReplyAccepted(r) PROVE LedgerTruthful'
  BY <1>9 DEF ReplyAccepted
<1>10. ASSUME NEW r \in Requests, ReplyError(r) PROVE LedgerTruthful'
  BY <1>10 DEF ReplyError
<1>11. ASSUME NEW r \in Requests, InsertTrade(r) PROVE LedgerTruthful'
  BY <1>11 DEF InsertTrade
<1>12. ASSUME NEW r \in Requests, InsertFails(r) PROVE LedgerTruthful'
  BY <1>12 DEF InsertFails
<1>13. ASSUME NEW r \in Requests, MarkStored(r) PROVE LedgerTruthful'
  BY <1>13 DEF MarkStored, MarkProposal
<1>14. ASSUME NEW r \in Requests, MarkUnstored(r) PROVE LedgerTruthful'
  BY <1>14 DEF MarkUnstored, MarkProposal
<1>15. ASSUME NEW r \in Requests, MarkRaises(r) PROVE LedgerTruthful'
  BY <1>15 DEF MarkRaises
<1>16. ASSUME NEW r \in Requests, MarkBlocked(r) PROVE LedgerTruthful'
  BY <1>16 DEF MarkBlocked, MarkProposal
<1>17. ASSUME NEW r \in Requests, MarkFailed(r) PROVE LedgerTruthful'
  BY <1>17 DEF MarkFailed, MarkProposal
<1>18. ASSUME NEW r \in Requests, BrokerAccepts(r) PROVE LedgerTruthful'
  BY <1>18 DEF BrokerAccepts
<1>19. ASSUME NEW r \in Requests, BrokerRefuses(r) PROVE LedgerTruthful'
  BY <1>19 DEF BrokerRefuses
<1>20. ASSUME NEW r \in Requests, NEW p \in Proposals, Start(r, p) PROVE LedgerTruthful'
  BY <1>20 DEF Start
<1>21. ASSUME NEW p \in Proposals, Reject(p) PROVE LedgerTruthful'
  BY <1>21 DEF Reject
<1>22. ASSUME NEW due \in SUBSET Proposals, RunExpiry(due) PROVE LedgerTruthful'
  BY <1>22 DEF RunExpiry
<1>23. CASE ToggleKillSwitch
  BY <1>23 DEF ToggleKillSwitch
<1>24. CASE LossChanges
  BY <1>24 DEF LossChanges
<1>25. CASE Restart
  BY <1>25 DEF Restart, Unrecorded
<1>26. CASE UNCHANGED vars
  BY <1>26 DEF vars
<1>. QED
  BY <1>1, <1>2, <1>3, <1>4, <1>5, <1>6, <1>7, <1>8, <1>9, <1>10, <1>11, <1>12, <1>13, <1>14, <1>15, <1>16, <1>17, <1>18, <1>19, <1>20, <1>21, <1>22, <1>23, <1>24, <1>25, <1>26 DEF Next, Handler, BrokerDecides

\* IInv is inductive.
THEOREM InvariantHolds == Spec => []IInv
<1>1. Init => IInv
  <2> SUFFICES ASSUME Init PROVE IInv
    OBVIOUS
  <2>1. TypeOK
    BY InitTypeOK
  <2>. QED
    BY <2>1, ApprovalAssumption
       DEF Init, IInv, Linked, DeclinedNeverOrdered, OneKeyPerProposal, Claimed, AtHand,
           LedgerTruthful, Sent, Approved
<1>2. IInv /\ [Next]_vars => IInv'
  BY NextTypeOK, NextLinked, NextDeclinedNeverOrdered, NextOneKeyPerProposal,
     NextClaimed, NextAtHand, NextLedgerTruthful DEF IInv
<1>. QED
  BY <1>1, <1>2, PTL DEF Spec

\* A proposal that nobody approved, or that was rejected or expired, never has an order.
THEOREM DeclinedSafe == Spec => []DeclinedNeverOrdered
<1>1. IInv => DeclinedNeverOrdered
  BY DEF IInv
<1>. QED
  BY <1>1, InvariantHolds, PTL

\* Every request of a proposal carries the one persisted key.
THEOREM KeySafe == Spec => []OneKeyPerProposal
<1>1. IInv => OneKeyPerProposal
  BY DEF IInv
<1>. QED
  BY <1>1, InvariantHolds, PTL

\* Trade rows, trade_id and SUBMITTED tell the truth about the broker's book.
THEOREM LedgerSafe == Spec => []LedgerTruthful
<1>1. IInv => LedgerTruthful
  BY DEF IInv
<1>. QED
  BY <1>1, InvariantHolds, PTL

-----------------------------------------------------------------------------
(* The invariant of requests that do not overlap.                          *)

\* No request starts while another one works on the proposal.
LEMMA NextExclusive ==
  ASSUME IInv, Exclusive, "overlap" \notin Faults, [Next]_vars
  PROVE Exclusive'
<1> USE ApprovalAssumption
    DEF IInv, TypeOK, Executing, InFlight, Finished, Outcomes, Exclusive, Active, Goto,
        proposalVars, brokerVars, gateVars
<1>1. ASSUME NEW r \in Requests, ReadProposal(r) PROVE Exclusive'
  BY <1>1 DEF ReadProposal
<1>2. ASSUME NEW r \in Requests, Claim(r) PROVE Exclusive'
  BY <1>2 DEF Claim
<1>3. ASSUME NEW r \in Requests, ClaimConflict(r) PROVE Exclusive'
  BY <1>3 DEF ClaimConflict
<1>4. ASSUME NEW r \in Requests, Lookup(r) PROVE Exclusive'
  BY <1>4 DEF Lookup
<1>5. ASSUME NEW r \in Requests, Replay(r) PROVE Exclusive'
  BY <1>5 DEF Replay, MarkProposal
<1>6. ASSUME NEW r \in Requests, Guard(r) PROVE Exclusive'
  BY <1>6 DEF Guard
<1>7. ASSUME NEW r \in Requests, CheckDailyLoss(r) PROVE Exclusive'
  BY <1>7 DEF CheckDailyLoss
<1>8. ASSUME NEW r \in Requests, Place(r) PROVE Exclusive'
  BY <1>8 DEF Place
<1>9. ASSUME NEW r \in Requests, ReplyAccepted(r) PROVE Exclusive'
  BY <1>9 DEF ReplyAccepted
<1>10. ASSUME NEW r \in Requests, ReplyError(r) PROVE Exclusive'
  BY <1>10 DEF ReplyError
<1>11. ASSUME NEW r \in Requests, InsertTrade(r) PROVE Exclusive'
  BY <1>11 DEF InsertTrade
<1>12. ASSUME NEW r \in Requests, InsertFails(r) PROVE Exclusive'
  BY <1>12 DEF InsertFails
<1>13. ASSUME NEW r \in Requests, MarkStored(r) PROVE Exclusive'
  BY <1>13 DEF MarkStored, MarkProposal
<1>14. ASSUME NEW r \in Requests, MarkUnstored(r) PROVE Exclusive'
  BY <1>14 DEF MarkUnstored, MarkProposal
<1>15. ASSUME NEW r \in Requests, MarkRaises(r) PROVE Exclusive'
  BY <1>15 DEF MarkRaises
<1>16. ASSUME NEW r \in Requests, MarkBlocked(r) PROVE Exclusive'
  BY <1>16 DEF MarkBlocked, MarkProposal
<1>17. ASSUME NEW r \in Requests, MarkFailed(r) PROVE Exclusive'
  BY <1>17 DEF MarkFailed, MarkProposal
<1>18. ASSUME NEW r \in Requests, BrokerAccepts(r) PROVE Exclusive'
  BY <1>18 DEF BrokerAccepts
<1>19. ASSUME NEW r \in Requests, BrokerRefuses(r) PROVE Exclusive'
  BY <1>19 DEF BrokerRefuses
<1>20. ASSUME NEW r \in Requests, NEW p \in Proposals, Start(r, p) PROVE Exclusive'
  BY <1>20 DEF Start
<1>21. ASSUME NEW p \in Proposals, Reject(p) PROVE Exclusive'
  BY <1>21 DEF Reject
<1>22. ASSUME NEW due \in SUBSET Proposals, RunExpiry(due) PROVE Exclusive'
  BY <1>22 DEF RunExpiry
<1>23. CASE ToggleKillSwitch
  BY <1>23 DEF ToggleKillSwitch
<1>24. CASE LossChanges
  BY <1>24 DEF LossChanges
<1>25. CASE Restart
  BY <1>25 DEF Restart, Unrecorded
<1>26. CASE UNCHANGED vars
  BY <1>26 DEF vars
<1>. QED
  BY <1>1, <1>2, <1>3, <1>4, <1>5, <1>6, <1>7, <1>8, <1>9, <1>10, <1>11, <1>12, <1>13, <1>14, <1>15, <1>16, <1>17, <1>18, <1>19, <1>20, <1>21, <1>22, <1>23, <1>24, <1>25, <1>26 DEF Next, Handler, BrokerDecides

\* Only the one request in flight can end an approval.
LEMMA NextStillApproved ==
  ASSUME IInv, Exclusive, StillApproved, "overlap" \notin Faults, [Next]_vars
  PROVE StillApproved'
<1> USE ApprovalAssumption
    DEF IInv, TypeOK, Executing, InFlight, Finished, Outcomes, Exclusive, StillApproved, Approved, OneKeyPerProposal, DeclinedNeverOrdered, Goto,
        proposalVars, brokerVars, gateVars
<1>1. ASSUME NEW r \in Requests, ReadProposal(r) PROVE StillApproved'
  BY <1>1 DEF ReadProposal
<1>2. ASSUME NEW r \in Requests, Claim(r) PROVE StillApproved'
  BY <1>2 DEF Claim
<1>3. ASSUME NEW r \in Requests, ClaimConflict(r) PROVE StillApproved'
  BY <1>3 DEF ClaimConflict
<1>4. ASSUME NEW r \in Requests, Lookup(r) PROVE StillApproved'
  BY <1>4 DEF Lookup
<1>5. ASSUME NEW r \in Requests, Replay(r) PROVE StillApproved'
  BY <1>5 DEF Replay, MarkProposal
<1>6. ASSUME NEW r \in Requests, Guard(r) PROVE StillApproved'
  BY <1>6 DEF Guard
<1>7. ASSUME NEW r \in Requests, CheckDailyLoss(r) PROVE StillApproved'
  BY <1>7 DEF CheckDailyLoss
<1>8. ASSUME NEW r \in Requests, Place(r) PROVE StillApproved'
  BY <1>8 DEF Place
<1>9. ASSUME NEW r \in Requests, ReplyAccepted(r) PROVE StillApproved'
  BY <1>9 DEF ReplyAccepted
<1>10. ASSUME NEW r \in Requests, ReplyError(r) PROVE StillApproved'
  BY <1>10 DEF ReplyError
<1>11. ASSUME NEW r \in Requests, InsertTrade(r) PROVE StillApproved'
  BY <1>11 DEF InsertTrade
<1>12. ASSUME NEW r \in Requests, InsertFails(r) PROVE StillApproved'
  BY <1>12 DEF InsertFails
<1>13. ASSUME NEW r \in Requests, MarkStored(r) PROVE StillApproved'
  BY <1>13 DEF MarkStored, MarkProposal
<1>14. ASSUME NEW r \in Requests, MarkUnstored(r) PROVE StillApproved'
  BY <1>14 DEF MarkUnstored, MarkProposal
<1>15. ASSUME NEW r \in Requests, MarkRaises(r) PROVE StillApproved'
  BY <1>15 DEF MarkRaises
<1>16. ASSUME NEW r \in Requests, MarkBlocked(r) PROVE StillApproved'
  BY <1>16 DEF MarkBlocked, MarkProposal
<1>17. ASSUME NEW r \in Requests, MarkFailed(r) PROVE StillApproved'
  BY <1>17 DEF MarkFailed, MarkProposal
<1>18. ASSUME NEW r \in Requests, BrokerAccepts(r) PROVE StillApproved'
  BY <1>18 DEF BrokerAccepts
<1>19. ASSUME NEW r \in Requests, BrokerRefuses(r) PROVE StillApproved'
  BY <1>19 DEF BrokerRefuses
<1>20. ASSUME NEW r \in Requests, NEW p \in Proposals, Start(r, p) PROVE StillApproved'
  BY <1>20 DEF Start
<1>21. ASSUME NEW p \in Proposals, Reject(p) PROVE StillApproved'
  BY <1>21 DEF Reject
<1>22. ASSUME NEW due \in SUBSET Proposals, RunExpiry(due) PROVE StillApproved'
  BY <1>22 DEF RunExpiry
<1>23. CASE ToggleKillSwitch
  BY <1>23 DEF ToggleKillSwitch
<1>24. CASE LossChanges
  BY <1>24 DEF LossChanges
<1>25. CASE Restart
  BY <1>25 DEF Restart, Unrecorded
<1>26. CASE UNCHANGED vars
  BY <1>26 DEF vars
<1>. QED
  BY <1>1, <1>2, <1>3, <1>4, <1>5, <1>6, <1>7, <1>8, <1>9, <1>10, <1>11, <1>12, <1>13, <1>14, <1>15, <1>16, <1>17, <1>18, <1>19, <1>20, <1>21, <1>22, <1>23, <1>24, <1>25, <1>26 DEF Next, Handler, BrokerDecides

\* With every reply delivered, a request marks FAILED only what it did not order.
LEMMA NextFailureHonest ==
  ASSUME IInv, FailureHonest, "overlap" \notin Faults, [Next]_vars
  PROVE FailureHonest'
<1> USE ApprovalAssumption
    DEF IInv, TypeOK, Executing, InFlight, Finished, Outcomes, Linked, AfterSend, FailureHonest, Sent, AtHand, Goto,
        proposalVars, brokerVars, gateVars
<1>1. ASSUME NEW r \in Requests, ReadProposal(r) PROVE FailureHonest'
  BY <1>1 DEF ReadProposal
<1>2. ASSUME NEW r \in Requests, Claim(r) PROVE FailureHonest'
  BY <1>2 DEF Claim
<1>3. ASSUME NEW r \in Requests, ClaimConflict(r) PROVE FailureHonest'
  BY <1>3 DEF ClaimConflict
<1>4. ASSUME NEW r \in Requests, Lookup(r) PROVE FailureHonest'
  BY <1>4 DEF Lookup
<1>5. ASSUME NEW r \in Requests, Replay(r) PROVE FailureHonest'
  BY <1>5 DEF Replay, MarkProposal
<1>6. ASSUME NEW r \in Requests, Guard(r) PROVE FailureHonest'
  BY <1>6 DEF Guard
<1>7. ASSUME NEW r \in Requests, CheckDailyLoss(r) PROVE FailureHonest'
  BY <1>7 DEF CheckDailyLoss
<1>8. ASSUME NEW r \in Requests, Place(r) PROVE FailureHonest'
  BY <1>8 DEF Place
<1>9. ASSUME NEW r \in Requests, ReplyAccepted(r) PROVE FailureHonest'
  BY <1>9 DEF ReplyAccepted
<1>10. ASSUME NEW r \in Requests, ReplyError(r) PROVE FailureHonest'
  BY <1>10 DEF ReplyError
<1>11. ASSUME NEW r \in Requests, InsertTrade(r) PROVE FailureHonest'
  BY <1>11 DEF InsertTrade
<1>12. ASSUME NEW r \in Requests, InsertFails(r) PROVE FailureHonest'
  BY <1>12 DEF InsertFails
<1>13. ASSUME NEW r \in Requests, MarkStored(r) PROVE FailureHonest'
  BY <1>13 DEF MarkStored, MarkProposal
<1>14. ASSUME NEW r \in Requests, MarkUnstored(r) PROVE FailureHonest'
  BY <1>14 DEF MarkUnstored, MarkProposal
<1>15. ASSUME NEW r \in Requests, MarkRaises(r) PROVE FailureHonest'
  BY <1>15 DEF MarkRaises
<1>16. ASSUME NEW r \in Requests, MarkBlocked(r) PROVE FailureHonest'
  BY <1>16 DEF MarkBlocked, MarkProposal
<1>17. ASSUME NEW r \in Requests, MarkFailed(r) PROVE FailureHonest'
  BY <1>17 DEF MarkFailed, MarkProposal
<1>18. ASSUME NEW r \in Requests, BrokerAccepts(r) PROVE FailureHonest'
  BY <1>18 DEF BrokerAccepts
<1>19. ASSUME NEW r \in Requests, BrokerRefuses(r) PROVE FailureHonest'
  BY <1>19 DEF BrokerRefuses
<1>20. ASSUME NEW r \in Requests, NEW p \in Proposals, Start(r, p) PROVE FailureHonest'
  BY <1>20 DEF Start
<1>21. ASSUME NEW p \in Proposals, Reject(p) PROVE FailureHonest'
  BY <1>21 DEF Reject
<1>22. ASSUME NEW due \in SUBSET Proposals, RunExpiry(due) PROVE FailureHonest'
  BY <1>22 DEF RunExpiry
<1>23. CASE ToggleKillSwitch
  BY <1>23 DEF ToggleKillSwitch
<1>24. CASE LossChanges
  BY <1>24 DEF LossChanges
<1>25. CASE Restart
  BY <1>25 DEF Restart, Unrecorded
<1>26. CASE UNCHANGED vars
  BY <1>26 DEF vars
<1>. QED
  BY <1>1, <1>2, <1>3, <1>4, <1>5, <1>6, <1>7, <1>8, <1>9, <1>10, <1>11, <1>12, <1>13, <1>14, <1>15, <1>16, <1>17, <1>18, <1>19, <1>20, <1>21, <1>22, <1>23, <1>24, <1>25, <1>26 DEF Next, Handler, BrokerDecides

\* An order stays in the hands of its request until it is recorded or forgotten.
LEMMA NextRecorded ==
  ASSUME IInv, Exclusive, StillApproved, Recorded, "overlap" \notin Faults, [Next]_vars
  PROVE Recorded'
<1> USE ApprovalAssumption
    DEF IInv, TypeOK, Executing, InFlight, Finished, Outcomes, Linked, AfterSend, Recorded, Exclusive, StillApproved, Approved, OneKeyPerProposal, DeclinedNeverOrdered, Claimed, Sent, AtHand, Goto,
        proposalVars, brokerVars, gateVars
<1>1. ASSUME NEW r \in Requests, ReadProposal(r) PROVE Recorded'
  BY <1>1 DEF ReadProposal
<1>2. ASSUME NEW r \in Requests, Claim(r) PROVE Recorded'
  BY <1>2 DEF Claim
<1>3. ASSUME NEW r \in Requests, ClaimConflict(r) PROVE Recorded'
  BY <1>3 DEF ClaimConflict
<1>4. ASSUME NEW r \in Requests, Lookup(r) PROVE Recorded'
  BY <1>4 DEF Lookup
<1>5. ASSUME NEW r \in Requests, Replay(r) PROVE Recorded'
  BY <1>5 DEF Replay, MarkProposal
<1>6. ASSUME NEW r \in Requests, Guard(r) PROVE Recorded'
  BY <1>6 DEF Guard
<1>7. ASSUME NEW r \in Requests, CheckDailyLoss(r) PROVE Recorded'
  BY <1>7 DEF CheckDailyLoss
<1>8. ASSUME NEW r \in Requests, Place(r) PROVE Recorded'
  BY <1>8 DEF Place
<1>9. ASSUME NEW r \in Requests, ReplyAccepted(r) PROVE Recorded'
  BY <1>9 DEF ReplyAccepted
<1>10. ASSUME NEW r \in Requests, ReplyError(r) PROVE Recorded'
  BY <1>10 DEF ReplyError
<1>11. ASSUME NEW r \in Requests, InsertTrade(r) PROVE Recorded'
  BY <1>11 DEF InsertTrade
<1>12. ASSUME NEW r \in Requests, InsertFails(r) PROVE Recorded'
  BY <1>12 DEF InsertFails
<1>13. ASSUME NEW r \in Requests, MarkStored(r) PROVE Recorded'
  BY <1>13 DEF MarkStored, MarkProposal
<1>14. ASSUME NEW r \in Requests, MarkUnstored(r) PROVE Recorded'
  BY <1>14 DEF MarkUnstored, MarkProposal
<1>15. ASSUME NEW r \in Requests, MarkRaises(r) PROVE Recorded'
  BY <1>15 DEF MarkRaises
<1>16. ASSUME NEW r \in Requests, MarkBlocked(r) PROVE Recorded'
  BY <1>16 DEF MarkBlocked, MarkProposal
<1>17. ASSUME NEW r \in Requests, MarkFailed(r) PROVE Recorded'
  BY <1>17 DEF MarkFailed, MarkProposal
<1>18. ASSUME NEW r \in Requests, BrokerAccepts(r) PROVE Recorded'
  BY <1>18 DEF BrokerAccepts
<1>19. ASSUME NEW r \in Requests, BrokerRefuses(r) PROVE Recorded'
  BY <1>19 DEF BrokerRefuses
<1>20. ASSUME NEW r \in Requests, NEW p \in Proposals, Start(r, p) PROVE Recorded'
  BY <1>20 DEF Start
<1>21. ASSUME NEW p \in Proposals, Reject(p) PROVE Recorded'
  BY <1>21 DEF Reject
<1>22. ASSUME NEW due \in SUBSET Proposals, RunExpiry(due) PROVE Recorded'
  BY <1>22 DEF RunExpiry
<1>23. CASE ToggleKillSwitch
  BY <1>23 DEF ToggleKillSwitch
<1>24. CASE LossChanges
  BY <1>24 DEF LossChanges
<1>25. CASE Restart
  BY <1>25 DEF Restart, Unrecorded
<1>26. CASE UNCHANGED vars
  BY <1>26 DEF vars
<1>. QED
  BY <1>1, <1>2, <1>3, <1>4, <1>5, <1>6, <1>7, <1>8, <1>9, <1>10, <1>11, <1>12, <1>13, <1>14, <1>15, <1>16, <1>17, <1>18, <1>19, <1>20, <1>21, <1>22, <1>23, <1>24, <1>25, <1>26 DEF Next, Handler, BrokerDecides

\* A request that finds no trade row finds no order either, unless one was forgotten.
LEMMA NextNoOtherOrder ==
  ASSUME IInv, Exclusive, StillApproved, Recorded, NoOtherOrder, "overlap" \notin Faults, [Next]_vars
  PROVE NoOtherOrder'
<1> USE ApprovalAssumption
    DEF IInv, TypeOK, Executing, InFlight, Finished, Outcomes, Linked, AfterSend, NoOtherOrder, Recorded, Exclusive, StillApproved, PastLookup, OneKeyPerProposal, DeclinedNeverOrdered, Claimed, Sent, AtHand, Goto,
        proposalVars, brokerVars, gateVars
<1>1. ASSUME NEW r \in Requests, ReadProposal(r) PROVE NoOtherOrder'
  BY <1>1 DEF ReadProposal
<1>2. ASSUME NEW r \in Requests, Claim(r) PROVE NoOtherOrder'
  BY <1>2 DEF Claim
<1>3. ASSUME NEW r \in Requests, ClaimConflict(r) PROVE NoOtherOrder'
  BY <1>3 DEF ClaimConflict
<1>4. ASSUME NEW r \in Requests, Lookup(r) PROVE NoOtherOrder'
  BY <1>4 DEF Lookup
<1>5. ASSUME NEW r \in Requests, Replay(r) PROVE NoOtherOrder'
  BY <1>5 DEF Replay, MarkProposal
<1>6. ASSUME NEW r \in Requests, Guard(r) PROVE NoOtherOrder'
  BY <1>6 DEF Guard
<1>7. ASSUME NEW r \in Requests, CheckDailyLoss(r) PROVE NoOtherOrder'
  BY <1>7 DEF CheckDailyLoss
<1>8. ASSUME NEW r \in Requests, Place(r) PROVE NoOtherOrder'
  BY <1>8 DEF Place
<1>9. ASSUME NEW r \in Requests, ReplyAccepted(r) PROVE NoOtherOrder'
  BY <1>9 DEF ReplyAccepted
<1>10. ASSUME NEW r \in Requests, ReplyError(r) PROVE NoOtherOrder'
  BY <1>10 DEF ReplyError
<1>11. ASSUME NEW r \in Requests, InsertTrade(r) PROVE NoOtherOrder'
  BY <1>11 DEF InsertTrade
<1>12. ASSUME NEW r \in Requests, InsertFails(r) PROVE NoOtherOrder'
  BY <1>12 DEF InsertFails
<1>13. ASSUME NEW r \in Requests, MarkStored(r) PROVE NoOtherOrder'
  BY <1>13 DEF MarkStored, MarkProposal
<1>14. ASSUME NEW r \in Requests, MarkUnstored(r) PROVE NoOtherOrder'
  BY <1>14 DEF MarkUnstored, MarkProposal
<1>15. ASSUME NEW r \in Requests, MarkRaises(r) PROVE NoOtherOrder'
  BY <1>15 DEF MarkRaises
<1>16. ASSUME NEW r \in Requests, MarkBlocked(r) PROVE NoOtherOrder'
  BY <1>16 DEF MarkBlocked, MarkProposal
<1>17. ASSUME NEW r \in Requests, MarkFailed(r) PROVE NoOtherOrder'
  BY <1>17 DEF MarkFailed, MarkProposal
<1>18. ASSUME NEW r \in Requests, BrokerAccepts(r) PROVE NoOtherOrder'
  BY <1>18 DEF BrokerAccepts
<1>19. ASSUME NEW r \in Requests, BrokerRefuses(r) PROVE NoOtherOrder'
  BY <1>19 DEF BrokerRefuses
<1>20. ASSUME NEW r \in Requests, NEW p \in Proposals, Start(r, p) PROVE NoOtherOrder'
  BY <1>20 DEF Start
<1>21. ASSUME NEW p \in Proposals, Reject(p) PROVE NoOtherOrder'
  BY <1>21 DEF Reject
<1>22. ASSUME NEW due \in SUBSET Proposals, RunExpiry(due) PROVE NoOtherOrder'
  BY <1>22 DEF RunExpiry
<1>23. CASE ToggleKillSwitch
  BY <1>23 DEF ToggleKillSwitch
<1>24. CASE LossChanges
  BY <1>24 DEF LossChanges
<1>25. CASE Restart
  BY <1>25 DEF Restart, Unrecorded
<1>26. CASE UNCHANGED vars
  BY <1>26 DEF vars
<1>. QED
  BY <1>1, <1>2, <1>3, <1>4, <1>5, <1>6, <1>7, <1>8, <1>9, <1>10, <1>11, <1>12, <1>13, <1>14, <1>15, <1>16, <1>17, <1>18, <1>19, <1>20, <1>21, <1>22, <1>23, <1>24, <1>25, <1>26 DEF Next, Handler, BrokerDecides

LEMMA RecordedExcludesRepeats ==
  ASSUME IInv, NoOtherOrder, RepeatOnlyAfterLoss, "overlap" \notin Faults, [Next]_vars
  PROVE  RepeatOnlyAfterLoss'
<1> USE ApprovalAssumption
    DEF IInv, TypeOK, Linked, AfterSend, NoOtherOrder, RepeatOnlyAfterLoss, OrdersOf,
        PastLookup, Executing, InFlight, Finished, Outcomes, Sent, Goto,
        proposalVars, brokerVars, gateVars
<1>1. ASSUME NEW r \in Requests, Place(r) PROVE RepeatOnlyAfterLoss'
  BY <1>1 DEF Place
<1>2. ASSUME NEW r \in Requests, NEW p \in Proposals, Start(r, p)
      PROVE RepeatOnlyAfterLoss'
  BY <1>2 DEF Start
<1>3. ASSUME wire' \cup book' \subseteq wire \cup book, lost \subseteq lost', job' = job
      PROVE RepeatOnlyAfterLoss'
  BY <1>3
<1>. QED
  BY <1>1, <1>2, <1>3
     DEF Next, vars, Handler, ReadProposal, Claim, ClaimConflict, Lookup, Replay, Guard,
         CheckDailyLoss, ReplyAccepted, ReplyError, InsertTrade, InsertFails, MarkStored,
         MarkUnstored, MarkRaises, MarkBlocked, MarkFailed, BrokerDecides, BrokerAccepts,
         BrokerRefuses, Reject, RunExpiry, ToggleKillSwitch, LossChanges, Restart

LEMMA FailureExcludesOrders ==
  ASSUME IInv, Exclusive, StillApproved, NoOtherOrder, FailureHonest, FailedMeansNoOrder,
         "overlap" \notin Faults, [Next]_vars
  PROVE  FailedMeansNoOrder'
<1> USE ApprovalAssumption
    DEF IInv, TypeOK, Linked, AfterSend, Exclusive, StillApproved, NoOtherOrder,
        FailureHonest, FailedMeansNoOrder, OrdersOf, PastLookup, Executing, InFlight,
        Finished, Outcomes, Sent, Goto, proposalVars, brokerVars, gateVars
<1>1. ASSUME NEW r \in Requests, ReadProposal(r) PROVE FailedMeansNoOrder'
  BY <1>1 DEF ReadProposal
<1>2. ASSUME NEW r \in Requests, Claim(r) PROVE FailedMeansNoOrder'
  BY <1>2 DEF Claim
<1>3. ASSUME NEW r \in Requests, ClaimConflict(r) PROVE FailedMeansNoOrder'
  BY <1>3 DEF ClaimConflict
<1>4. ASSUME NEW r \in Requests, Lookup(r) PROVE FailedMeansNoOrder'
  BY <1>4 DEF Lookup
<1>5. ASSUME NEW r \in Requests, Replay(r) PROVE FailedMeansNoOrder'
  BY <1>5 DEF Replay, MarkProposal
<1>6. ASSUME NEW r \in Requests, Guard(r) PROVE FailedMeansNoOrder'
  BY <1>6 DEF Guard
<1>7. ASSUME NEW r \in Requests, CheckDailyLoss(r) PROVE FailedMeansNoOrder'
  BY <1>7 DEF CheckDailyLoss
<1>8. ASSUME NEW r \in Requests, Place(r) PROVE FailedMeansNoOrder'
  BY <1>8 DEF Place
<1>9. ASSUME NEW r \in Requests, ReplyAccepted(r) PROVE FailedMeansNoOrder'
  BY <1>9 DEF ReplyAccepted
<1>10. ASSUME NEW r \in Requests, ReplyError(r) PROVE FailedMeansNoOrder'
  BY <1>10 DEF ReplyError
<1>11. ASSUME NEW r \in Requests, InsertTrade(r) PROVE FailedMeansNoOrder'
  BY <1>11 DEF InsertTrade
<1>12. ASSUME NEW r \in Requests, InsertFails(r) PROVE FailedMeansNoOrder'
  BY <1>12 DEF InsertFails
<1>13. ASSUME NEW r \in Requests, MarkStored(r) PROVE FailedMeansNoOrder'
  BY <1>13 DEF MarkStored, MarkProposal
<1>14. ASSUME NEW r \in Requests, MarkUnstored(r) PROVE FailedMeansNoOrder'
  BY <1>14 DEF MarkUnstored, MarkProposal
<1>15. ASSUME NEW r \in Requests, MarkRaises(r) PROVE FailedMeansNoOrder'
  BY <1>15 DEF MarkRaises
<1>16. ASSUME NEW r \in Requests, MarkBlocked(r) PROVE FailedMeansNoOrder'
  BY <1>16 DEF MarkBlocked, MarkProposal
<1>17. ASSUME NEW r \in Requests, MarkFailed(r) PROVE FailedMeansNoOrder'
  BY <1>17 DEF MarkFailed, MarkProposal
<1>18. ASSUME NEW r \in Requests, BrokerAccepts(r) PROVE FailedMeansNoOrder'
  BY <1>18 DEF BrokerAccepts
<1>19. ASSUME NEW r \in Requests, BrokerRefuses(r) PROVE FailedMeansNoOrder'
  BY <1>19 DEF BrokerRefuses
<1>20. ASSUME NEW r \in Requests, NEW p \in Proposals, Start(r, p) PROVE FailedMeansNoOrder'
  BY <1>20 DEF Start
<1>21. ASSUME NEW p \in Proposals, Reject(p) PROVE FailedMeansNoOrder'
  BY <1>21 DEF Reject
<1>22. ASSUME NEW due \in SUBSET Proposals, RunExpiry(due) PROVE FailedMeansNoOrder'
  BY <1>22 DEF RunExpiry
<1>23. CASE ToggleKillSwitch
  BY <1>23 DEF ToggleKillSwitch
<1>24. CASE LossChanges
  BY <1>24 DEF LossChanges
<1>25. CASE Restart
  BY <1>25 DEF Restart, Unrecorded
<1>26. CASE UNCHANGED vars
  BY <1>26 DEF vars
<1>. QED
  BY <1>1, <1>2, <1>3, <1>4, <1>5, <1>6, <1>7, <1>8, <1>9, <1>10, <1>11, <1>12, <1>13, <1>14, <1>15, <1>16, <1>17, <1>18, <1>19, <1>20, <1>21, <1>22, <1>23, <1>24, <1>25, <1>26 DEF Next, Handler, BrokerDecides

\* SerialInv is inductive relative to IInv.
THEOREM SerialInvariantHolds == Spec => []SerialInv
<1>1. Init => SerialInv
  BY ApprovalAssumption
     DEF Init, SerialInv, Exclusive, StillApproved, Recorded, NoOtherOrder, FailureHonest,
         RepeatOnlyAfterLoss, FailedMeansNoOrder, OrdersOf, Sent, InFlight, Executing
<1>2. IInv /\ SerialInv /\ [Next]_vars => SerialInv'
  BY NextExclusive, NextStillApproved, NextRecorded, NextNoOtherOrder, NextFailureHonest,
     RecordedExcludesRepeats, FailureExcludesOrders DEF SerialInv
<1>. QED
  BY <1>1, <1>2, InvariantHolds, PTL DEF Spec

\* Without overlap, a second order follows only an order that was forgotten.
THEOREM RepeatsNeedLoss == Spec => []RepeatOnlyAfterLoss
<1>1. SerialInv => RepeatOnlyAfterLoss
  BY DEF SerialInv, RepeatOnlyAfterLoss
<1>. QED
  BY <1>1, SerialInvariantHolds, PTL

\* With neither overlap nor lost replies, FAILED means that nothing was ordered.
THEOREM FailuresAreHonest == Spec => []FailedMeansNoOrder
<1>1. SerialInv => FailedMeansNoOrder
  BY DEF SerialInv, FailedMeansNoOrder
<1>. QED
  BY <1>1, SerialInvariantHolds, PTL

\* No write, conditional or by primary key, undoes a decision or changes a key.
THEOREM DecisionsFinal == Spec => DecisionsAreFinal
<1> DEFINE Final ==
      \A p \in Proposals :
        /\ status[p] \in Declined => status'[p] = status[p]
        /\ status[p] \in Approved => status'[p] \in Approved
        /\ status[p] \in {"SUBMITTED", "FAILED"} => status'[p] # "APPROVED"
        /\ clientOrderId[p] # NoKey => clientOrderId'[p] = clientOrderId[p]
<1>1. IInv /\ [Next]_vars => [Final]_vars
  <2> SUFFICES ASSUME IInv, Next PROVE Final
    BY DEF vars
  <2> USE ApprovalAssumption
      DEF IInv, TypeOK, DeclinedNeverOrdered, Claimed, Approved, Declined, Executing,
          InFlight, Finished, Outcomes, proposalVars
  <2>1. ASSUME NEW r \in Requests, ReadProposal(r) PROVE Final
    BY <2>1 DEF ReadProposal
  <2>2. ASSUME NEW r \in Requests, Claim(r) PROVE Final
    BY <2>2 DEF Claim
  <2>3. ASSUME NEW r \in Requests, ClaimConflict(r) PROVE Final
    BY <2>3 DEF ClaimConflict
  <2>4. ASSUME NEW r \in Requests, Lookup(r) PROVE Final
    BY <2>4 DEF Lookup
  <2>5. ASSUME NEW r \in Requests, Replay(r) PROVE Final
    BY <2>5 DEF Replay, MarkProposal
  <2>6. ASSUME NEW r \in Requests, Guard(r) PROVE Final
    BY <2>6 DEF Guard
  <2>7. ASSUME NEW r \in Requests, CheckDailyLoss(r) PROVE Final
    BY <2>7 DEF CheckDailyLoss
  <2>8. ASSUME NEW r \in Requests, Place(r) PROVE Final
    BY <2>8 DEF Place
  <2>9. ASSUME NEW r \in Requests, ReplyAccepted(r) PROVE Final
    BY <2>9 DEF ReplyAccepted
  <2>10. ASSUME NEW r \in Requests, ReplyError(r) PROVE Final
    BY <2>10 DEF ReplyError
  <2>11. ASSUME NEW r \in Requests, InsertTrade(r) PROVE Final
    BY <2>11 DEF InsertTrade
  <2>12. ASSUME NEW r \in Requests, InsertFails(r) PROVE Final
    BY <2>12 DEF InsertFails
  <2>13. ASSUME NEW r \in Requests, MarkStored(r) PROVE Final
    BY <2>13 DEF MarkStored, MarkProposal
  <2>14. ASSUME NEW r \in Requests, MarkUnstored(r) PROVE Final
    BY <2>14 DEF MarkUnstored, MarkProposal
  <2>15. ASSUME NEW r \in Requests, MarkRaises(r) PROVE Final
    BY <2>15 DEF MarkRaises
  <2>16. ASSUME NEW r \in Requests, MarkBlocked(r) PROVE Final
    BY <2>16 DEF MarkBlocked, MarkProposal
  <2>17. ASSUME NEW r \in Requests, MarkFailed(r) PROVE Final
    BY <2>17 DEF MarkFailed, MarkProposal
  <2>18. ASSUME NEW r \in Requests, BrokerAccepts(r) PROVE Final
    BY <2>18 DEF BrokerAccepts
  <2>19. ASSUME NEW r \in Requests, BrokerRefuses(r) PROVE Final
    BY <2>19 DEF BrokerRefuses
  <2>20. ASSUME NEW r \in Requests, NEW p \in Proposals, Start(r, p) PROVE Final
    BY <2>20 DEF Start
  <2>21. ASSUME NEW p \in Proposals, Reject(p) PROVE Final
    BY <2>21 DEF Reject
  <2>22. ASSUME NEW due \in SUBSET Proposals, RunExpiry(due) PROVE Final
    BY <2>22 DEF RunExpiry
  <2>23. CASE ToggleKillSwitch
    BY <2>23 DEF ToggleKillSwitch
  <2>24. CASE LossChanges
    BY <2>24 DEF LossChanges
  <2>25. CASE Restart
    BY <2>25 DEF Restart
  <2>. QED
    BY <2>1, <2>2, <2>3, <2>4, <2>5, <2>6, <2>7, <2>8, <2>9, <2>10, <2>11, <2>12, <2>13, <2>14, <2>15, <2>16, <2>17, <2>18, <2>19, <2>20, <2>21, <2>22, <2>23, <2>24, <2>25 DEF Next, Handler, BrokerDecides
<1>. QED
  BY <1>1, InvariantHolds, PTL DEF Spec, DecisionsAreFinal

-----------------------------------------------------------------------------
(* OrderApproval implements ProposalContract: initial states are initial       *)
(* states, and every step is a step of the contract or changes nothing it      *)
(* speaks of.                                                                  *)

\* What the contract sees.
seen == <<status, book, job, lost>>

Orders == [p \in Proposals |-> Accepted(p)]

\* Without a change of what it sees, the contract stutters.
LEMMA Unseen ==
    ASSUME UNCHANGED seen
    PROVE  UNCHANGED Contract!vars
BY DEF seen, Contract!vars, Accepted

LEMMA InitMeetsContract == Init => Contract!Init
BY DEF Init, Contract!Init, Accepted

\* A report of a request under way: its proposal is approved, and still waiting
\* for a report if requests do not overlap.
LEMMA ReportAllowed ==
    ASSUME IInv, SerialInv, NEW r \in Requests, pc[r] \in Executing
    PROVE  job[r] \in Proposals /\ Contract!MayReport(job[r])
<1>1. pc[r] # "idle" /\ job[r] \in Proposals
  BY DEF IInv, TypeOK, Executing
<1>2. status[job[r]] \in Approved
  BY <1>1, ApprovalAssumption DEF IInv, DeclinedNeverOrdered
<1>3. "overlap" \notin Faults => status[job[r]] = "APPROVED"
  BY DEF SerialInv, StillApproved
<1> QED
  BY <1>1, <1>2, <1>3 DEF Contract!MayReport, Contract!WasApproved, Approved

LEMMA SubmittedIsTrue ==
    ASSUME IInv, SerialInv, NEW r \in Requests, pc[r] \in Executing,
           NEW s \in book, job[s] = job[r],
           MarkProposal(job[r], "SUBMITTED"), UNCHANGED <<book, job, lost>>
    PROVE  Contract!Next
<1> DEFINE p == job[r]
<1>1. p \in Proposals /\ Contract!MayReport(p)
  BY ReportAllowed
<1>2. Orders[p] # {}
  BY <1>1 DEF Orders, Accepted
<1>3. Contract!Report(p, "SUBMITTED")
  BY <1>1 DEF MarkProposal, Contract!Report, Accepted
<1>4. Contract!Submitted(p)
  BY <1>2, <1>3 DEF Contract!Submitted, Orders
<1> QED
  BY <1>1, <1>4 DEF Contract!Next

LEMMA FailedIsTrue ==
    ASSUME IInv, SerialInv, NEW r \in Requests, pc[r] \in {"mark_blocked", "mark_failed"},
           MarkProposal(job[r], "FAILED"), UNCHANGED <<book, job, lost>>
    PROVE  Contract!Next
<1> DEFINE p == job[r]
<1>1. p \in Proposals /\ Contract!MayReport(p)
  BY ReportAllowed DEF Executing
<1>2. Contract!Report(p, "FAILED")
  BY <1>1 DEF MarkProposal, Contract!Report, Accepted
<1>3. ASSUME "overlap" \notin Faults, "reply" \notin Faults, p \notin lost
      PROVE  Orders[p] = {}
  <2> SUFFICES ASSUME NEW s \in book, job[s] = p PROVE FALSE
    BY <1>1 DEF Orders, Accepted
  <2>1. s \in Sent /\ s \in Requests
    BY DEF Sent, IInv, TypeOK
  <2>2. s # r
    BY <1>3, <2>1 DEF IInv, Linked, AfterSend, SerialInv, FailureHonest
  <2> QED
    BY <1>3, <2>1, <2>2 DEF SerialInv, NoOtherOrder, PastLookup
<1>4. Contract!Failed(p)
  BY <1>2, <1>3 DEF Contract!Failed, Contract!NothingOrdered, Orders
<1> QED
  BY <1>1, <1>4 DEF Contract!Next

LEMMA OrderHasCause ==
    ASSUME IInv, SerialInv, NEW r \in Requests, BrokerAccepts(r)
    PROVE  [Contract!Next]_Contract!vars
<1> DEFINE p == job[r]
<1>1. r \in Sent /\ p \in Proposals /\ Contract!WasApproved(p)
  <2>1. r \in Sent
    BY DEF BrokerAccepts, Sent
  <2>2. pc[r] # "idle"
    BY <2>1 DEF IInv, Linked, AfterSend
  <2>3. p \in Proposals
    BY <2>2 DEF IInv, TypeOK
  <2>4. status[p] \in Approved
    BY <2>1, <2>3, ApprovalAssumption DEF IInv, DeclinedNeverOrdered
  <2> QED
    BY <2>1, <2>3, <2>4 DEF Contract!WasApproved, Approved
<1>2. CASE r \in book
  <2>1. UNCHANGED seen
    BY <1>2 DEF BrokerAccepts, seen, proposalVars
  <2> QED
    BY <2>1, Unseen
<1>3. CASE r \notin book
  <2>1. "overlap" \notin Faults => p \in lost \/ Orders[p] = {}
    BY <1>1, <1>3 DEF SerialInv, RepeatOnlyAfterLoss, OrdersOf, Orders, Accepted, Sent
  <2>2. Orders' = [Orders EXCEPT ![p] = @ \cup {r}]
    BY <1>1 DEF Orders, Accepted, BrokerAccepts
  <2>3. Contract!Order(p, r)
    BY <1>1, <2>1, <2>2 DEF Contract!Order, Contract!NothingOrdered, Orders, BrokerAccepts, proposalVars
  <2> QED
    BY <1>1, <2>3 DEF Contract!Next
<1> QED
  BY <1>2, <1>3

LEMMA DeclineIsContract ==
    ASSUME TypeOK, NEW some \in SUBSET Proposals, \A p \in some : status[p] = "PROPOSED",
           NEW word \in {"REJECTED", "EXPIRED"},
           status' = [p \in Proposals |-> IF p \in some THEN word ELSE status[p]],
           UNCHANGED <<book, job, lost>>
    PROVE  Contract!Next
<1>1. Contract!Decline(some, word)
  BY DEF Contract!Decline, Accepted
<1> QED
  BY <1>1 DEF Contract!Next

LEMMA ForgetIsContract ==
    ASSUME IInv, NEW some \in SUBSET Requests, lost' = lost \cup {job[r] : r \in some},
           \A r \in some : pc[r] \in Executing, UNCHANGED <<status, book, job>>
    PROVE  Contract!Next
<1>1. \A r \in some : job[r] \in Proposals /\ status[job[r]] \in Approved
  BY ApprovalAssumption DEF IInv, TypeOK, DeclinedNeverOrdered, Executing
<1>2. Contract!Forget({job[r] : r \in some})
  BY <1>1 DEF Contract!Forget, Contract!WasApproved, Approved, Accepted
<1>3. {job[r] : r \in some} \in SUBSET Proposals
  BY <1>1
<1> QED
  BY <1>2, <1>3 DEF Contract!Next

\* Every step of a handler, of the broker or of another actor is one of the contract.
LEMMA NextMeetsContract ==
    ASSUME IInv, SerialInv, [Next]_vars
    PROVE  [Contract!Next]_Contract!vars
<1>1. ASSUME NEW r \in Requests, ReadProposal(r) PROVE UNCHANGED seen
  BY <1>1 DEF ReadProposal, seen, proposalVars, brokerVars
<1>2. ASSUME NEW r \in Requests, ClaimConflict(r) PROVE UNCHANGED seen
  BY <1>2 DEF ClaimConflict, seen, proposalVars, brokerVars
<1>3. ASSUME NEW r \in Requests, Lookup(r) PROVE UNCHANGED seen
  BY <1>3 DEF Lookup, seen, proposalVars, brokerVars
<1>4. ASSUME NEW r \in Requests, Guard(r) PROVE UNCHANGED seen
  BY <1>4 DEF Guard, seen, proposalVars, brokerVars
<1>5. ASSUME NEW r \in Requests, CheckDailyLoss(r) PROVE UNCHANGED seen
  BY <1>5 DEF CheckDailyLoss, seen, proposalVars, brokerVars
<1>6. ASSUME NEW r \in Requests, Place(r) PROVE UNCHANGED seen
  BY <1>6 DEF Place, seen, proposalVars, brokerVars
<1>7. ASSUME NEW r \in Requests, ReplyAccepted(r) PROVE UNCHANGED seen
  BY <1>7 DEF ReplyAccepted, seen, proposalVars, brokerVars
<1>8. ASSUME NEW r \in Requests, ReplyError(r) PROVE UNCHANGED seen
  BY <1>8 DEF ReplyError, seen, proposalVars, brokerVars
<1>9. ASSUME NEW r \in Requests, InsertTrade(r) PROVE UNCHANGED seen
  BY <1>9 DEF InsertTrade, seen, proposalVars, brokerVars
<1>10. ASSUME NEW r \in Requests, InsertFails(r) PROVE UNCHANGED seen
  BY <1>10 DEF InsertFails, seen, proposalVars, brokerVars
<1>11. ASSUME NEW r \in Requests, NEW p \in Proposals, Start(r, p) PROVE [Contract!Next]_Contract!vars
  <2>1. r \notin book
    BY <1>11 DEF Start, IInv, Linked, AfterSend, Sent
  <2>2. \A q \in Proposals : Accepted(q)' = Accepted(q)
    BY <1>11, <2>1 DEF Start, Accepted, brokerVars, IInv, TypeOK
  <2> QED
    BY <1>11, <2>2 DEF Start, Contract!vars, proposalVars, brokerVars
<1>12. ASSUME NEW r \in Requests, Claim(r) PROVE Contract!Next
  <2>1. job[r] \in Proposals
    BY <1>12 DEF Claim, IInv, TypeOK
  <2>2. Contract!Approve(job[r])
    BY <1>12, <2>1 DEF Claim, Contract!Approve, Accepted, brokerVars
  <2> QED
    BY <2>1, <2>2 DEF Contract!Next
<1>13. ASSUME NEW r \in Requests, Replay(r) PROVE Contract!Next
  <2>1. pc[r] \in Executing /\ held[r] \in Requests /\ trades[held[r]] # NoTrade
    BY <1>13 DEF Replay, Executing, IInv, TypeOK, AtHand
  <2>2. job[r] \in Proposals
    BY <2>1 DEF IInv, TypeOK, Executing
  <2>3. job[held[r]] = job[r]
    BY <2>1, <2>2, ApprovalAssumption DEF IInv, OneKeyPerProposal
  <2>4. PICK s \in book : job[s] = job[r]
    BY <2>1, <2>3 DEF IInv, LedgerTruthful
  <2> QED
    BY <1>13, <2>1, <2>4, SubmittedIsTrue DEF Replay, brokerVars
<1>14. ASSUME NEW r \in Requests, MarkStored(r) PROVE Contract!Next
  <2>1. pc[r] \in Executing /\ held[r] \in Requests /\ trades[held[r]] # NoTrade
    BY <1>14, ApprovalAssumption DEF MarkStored, Executing, IInv, TypeOK, AtHand
  <2>2. job[r] \in Proposals
    BY <2>1 DEF IInv, TypeOK, Executing
  <2>3. job[held[r]] = job[r]
    BY <2>1, <2>2, ApprovalAssumption DEF IInv, OneKeyPerProposal
  <2>4. PICK s \in book : job[s] = job[r]
    BY <2>1, <2>3 DEF IInv, LedgerTruthful
  <2> QED
    BY <1>14, <2>1, <2>4, SubmittedIsTrue DEF MarkStored, brokerVars
<1>15. ASSUME NEW r \in Requests, MarkUnstored(r) PROVE Contract!Next
  <2>1. pc[r] \in Executing /\ r \in book
    BY <1>15 DEF MarkUnstored, Executing, IInv, AtHand
  <2> QED
    BY <1>15, <2>1, SubmittedIsTrue DEF MarkUnstored, brokerVars
<1>16. ASSUME NEW r \in Requests, MarkBlocked(r) PROVE Contract!Next
  BY <1>16, FailedIsTrue DEF MarkBlocked, brokerVars
<1>17. ASSUME NEW r \in Requests, MarkFailed(r) PROVE Contract!Next
  BY <1>17, FailedIsTrue DEF MarkFailed, brokerVars
<1>18. ASSUME NEW r \in Requests, MarkRaises(r) PROVE Contract!Next
  <2> DEFINE some == {r}
  <2>1. \A s \in some : pc[s] \in Executing
    BY <1>18 DEF MarkRaises, Executing
  <2>2. lost' = lost \cup {job[s] : s \in some}
    BY <1>18 DEF MarkRaises
  <2>3. UNCHANGED <<status, book, job>>
    BY <1>18 DEF MarkRaises, proposalVars, brokerVars
  <2>4. some \in SUBSET Requests
    OBVIOUS
  <2> HIDE DEF some
  <2> QED
    BY <2>1, <2>2, <2>3, <2>4, ForgetIsContract
<1>19. ASSUME NEW r \in Requests, BrokerRefuses(r) PROVE UNCHANGED seen
  BY <1>19 DEF BrokerRefuses, seen, proposalVars
<1>20. ASSUME NEW p \in Proposals, Reject(p) PROVE Contract!Next
  <2>1. status' = [q \in Proposals |-> IF q \in {p} THEN "REJECTED" ELSE status[q]]
    BY <1>20 DEF Reject, IInv, TypeOK
  <2>2. \A q \in {p} : status[q] = "PROPOSED"
    BY <1>20 DEF Reject
  <2> QED
    BY <1>20, <2>1, <2>2, DeclineIsContract DEF Reject, brokerVars, IInv
<1>21. ASSUME NEW due \in SUBSET Proposals, RunExpiry(due) PROVE Contract!Next
  <2> DEFINE some == {p \in due : status[p] = "PROPOSED"}
  <2>1. status' = [q \in Proposals |-> IF q \in some THEN "EXPIRED" ELSE status[q]]
    BY <1>21 DEF RunExpiry
  <2> QED
    BY <1>21, <2>1, DeclineIsContract DEF RunExpiry, brokerVars, IInv
<1>22. CASE ToggleKillSwitch \/ LossChanges \/ UNCHANGED vars
  <2>1. UNCHANGED seen
    BY <1>22 DEF ToggleKillSwitch, LossChanges, vars, seen, proposalVars, brokerVars
  <2> QED
    BY <2>1, Unseen
<1>23. CASE Restart
  <2>1. Unrecorded \in SUBSET Requests /\ \A r \in Unrecorded : pc[r] \in Executing
    BY DEF Unrecorded, Executing, Sent, IInv, TypeOK
  <2> QED
    BY <1>23, <2>1, ForgetIsContract DEF Restart, proposalVars, brokerVars
<1>24. ASSUME NEW r \in Requests, Handler(r) \/ BrokerDecides(r) PROVE [Contract!Next]_Contract!vars
  BY <1>24, Unseen, OrderHasCause, <1>1, <1>2, <1>3, <1>4, <1>5, <1>6, <1>7, <1>8, <1>9, <1>10, <1>12, <1>13, <1>14, <1>15, <1>16, <1>17, <1>18, <1>19 DEF Handler, BrokerDecides
<1> QED
  BY <1>11, <1>20, <1>21, <1>22, <1>23, <1>24 DEF Next

\* Order approval keeps the contract, for any proposals, requests and faults:
\* the refinement that MeetsContract states.
THEOREM ContractMet == Spec => MeetsContract
<1>1. Init => Contract!Init
  BY InitMeetsContract
<1>2. IInv /\ SerialInv /\ [Next]_vars => [Contract!Next]_Contract!vars
  BY NextMeetsContract
<1>3. Spec => []IInv
  BY InvariantHolds
<1>4. Spec => []SerialInv
  BY SerialInvariantHolds
<1> QED
  BY <1>1, <1>2, <1>3, <1>4, PTL DEF Spec, MeetsContract, Contract!Spec
==============================================================================
