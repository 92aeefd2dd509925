---------------------------- MODULE OrderApproval ----------------------------
(***************************************************************************)
(* The approval path of the semi-automatic order pipeline                  *)
(* (backend/app/services/orders/approval.py and its callers in             *)
(* api/proposals.py, api/portfolio.py and notify/telegram_commands.py).    *)
(*                                                                         *)
(* A request is one call of approve_and_execute: one HTTP tap, one element *)
(* of a batch approval or one Telegram confirmation.  It is a coroutine    *)
(* that yields at every await, so each database round trip and the broker  *)
(* round trip is an action of its own and requests interleave between      *)
(* them.  The uuid4 a request mints is new in every call, so it is         *)
(* represented by the request itself.                                      *)
(***************************************************************************)
EXTENDS Naturals, FiniteSets

CONSTANTS
    Proposals,      \* rows of order_proposals
    Requests,       \* calls of approve_and_execute: the bound on taps and retries
    Terms,          \* Terms[p]: the columns of proposal p that the gates look at
    Faults,         \* what the environment may do, a subset of FaultKinds
    MaxRestarts,    \* bound: process restarts in one behaviour
    NoProposal, NoKey, NoTrade

Accounts == {"PAPER", "REAL", "ISA", "DC", "IRP", "PENSION"}

TermsType == [market: {"KR", "US"}, account: Accounts, side: {"BUY", "SELL"},
              overCap: BOOLEAN]

\* "overlap": two requests for one proposal in flight together.
\* "restart": the process stops and starts again.  "insert": the trade row
\* cannot be stored.  "reply": a broker reply is lost or times out.
FaultKinds == {"overlap", "restart", "insert", "reply"}

ASSUME ApprovalAssumption ==
    /\ Terms \in [Proposals -> TermsType]
    /\ Faults \subseteq FaultKinds
    /\ MaxRestarts \in Nat
    /\ NoProposal \notin Proposals
    /\ NoKey \notin Requests
    /\ NoTrade \notin Requests

VARIABLES
    status,         \* order_proposals.status
    clientOrderId,  \* order_proposals.client_order_id
    tradeId,        \* order_proposals.trade_id, as the key of the trade row
    trades,         \* trades[k]: the broker order stored in the row whose client_order_id is k
    pc,             \* the await each request stands at, or its outcome
    job,            \* the proposal a request was called for
    held,           \* the client_order_id a request carries
    wire,           \* order submissions the broker has not decided yet
    book,           \* submissions the broker accepted: real orders
    killSwitch,     \* AutomationSafetyState.kill_switch_enabled
    lossBreached,   \* today's realized loss is past AUTOMATION_MAX_DAILY_LOSS_PCT
    restarts,       \* restarts so far
    lost            \* history: proposals with an order sent, then forgotten

proposalVars == <<status, clientOrderId, tradeId>>
brokerVars == <<wire, book>>
gateVars == <<killSwitch, lossBreached>>
vars == <<proposalVars, trades, pc, job, held, brokerVars, gateVars, restarts, lost>>

Approved == {"APPROVED", "SUBMITTED", "FAILED"}
Declined == {"REJECTED", "EXPIRED"}
Statuses == {"PROPOSED"} \cup Approved \cup Declined

\* A request that has claimed its proposal, or joined the claim, and not answered.
Executing == {"lookup", "replay", "guard", "loss", "place", "await", "persist",
              "mark_stored", "mark_unstored", "mark_blocked", "mark_failed"}
InFlight == {"read", "claim"} \cup Executing
Outcomes == {"conflict", "replayed", "blocked", "failed", "submitted"}
Finished == Outcomes \cup {"raised", "dead"}

Sent == wire \cup book

Active(p) == {r \in Requests : pc[r] \in InFlight /\ job[r] = p}

TypeOK ==
    /\ status \in [Proposals -> Statuses]
    /\ clientOrderId \in [Proposals -> Requests \cup {NoKey}]
    /\ tradeId \in [Proposals -> Requests \cup {NoTrade}]
    /\ trades \in [Requests -> Requests \cup {NoTrade}]
    /\ pc \in [Requests -> {"idle"} \cup InFlight \cup Finished]
    /\ job \in [Requests -> Proposals \cup {NoProposal}]
    /\ \A r \in Requests : pc[r] # "idle" <=> job[r] \in Proposals
    /\ held \in [Requests -> Requests \cup {NoKey}]
    /\ \A r \in Requests : pc[r] \in Executing => held[r] \in Requests
    /\ wire \subseteq Requests
    /\ book \subseteq Requests
    /\ killSwitch \in BOOLEAN
    /\ lossBreached \in BOOLEAN
    /\ restarts \in 0..MaxRestarts
    /\ lost \subseteq Proposals

Init ==
    /\ status = [p \in Proposals |-> "PROPOSED"]
    /\ clientOrderId = [p \in Proposals |-> NoKey]
    /\ tradeId = [p \in Proposals |-> NoTrade]
    /\ trades = [k \in Requests |-> NoTrade]
    /\ pc = [r \in Requests |-> "idle"]
    /\ job = [r \in Requests |-> NoProposal]
    /\ held = [r \in Requests |-> NoKey]
    /\ wire = {}
    /\ book = {}
    /\ killSwitch \in BOOLEAN
    /\ lossBreached = FALSE
    /\ restarts = 0
    /\ lost = {}

-----------------------------------------------------------------------------
(* The gates.                                                              *)

\* order_request_for: a US proposal goes to Toss, every other one to KIS.
Broker(p) == IF Terms[p].market = "US" THEN "TOSS" ELSE "KIS"

\* Accounts whose order TR is unverified: advisory only.
Unverified == {"DC", "IRP", "PENSION"}

LiveMode(p) == Broker(p) = "TOSS" \/ Terms[p].account # "PAPER"

\* guard_order and assert_order_allowed, in one synchronous stretch.
GuardBlocks(p) ==
    \/ Broker(p) = "KIS" /\ Terms[p].account \in Unverified
    \/ LiveMode(p) /\ (killSwitch \/ Terms[p].overCap)

\* assert_daily_loss_ok: only live KIS buys are held back.
LossBlocks(p) ==
    /\ Broker(p) = "KIS" /\ LiveMode(p)
    /\ Terms[p].side = "BUY"
    /\ lossBreached

-----------------------------------------------------------------------------
(* approve_and_execute, one action per await.                              *)

Goto(r, label) == pc' = [pc EXCEPT ![r] = label]

\* A tap, a batch element or a Telegram confirmation starts the coroutine.
Start(r, p) ==
    /\ pc[r] = "idle"
    /\ "overlap" \in Faults \/ Active(p) = {}
    /\ Goto(r, "read")
    /\ job' = [job EXCEPT ![r] = p]
    /\ UNCHANGED <<proposalVars, trades, held, brokerVars, gateVars, restarts, lost>>

\* Mutant of ReadProposal: a FAILED proposal is retried like an APPROVED one.
ReadRetriable(r) ==
    LET p == job[r] IN
    /\ pc[r] = "read"
    /\ \/ status[p] = "PROPOSED" /\ Goto(r, "claim") /\ UNCHANGED held
       \/ /\ status[p] \in {"APPROVED", "FAILED"}
          /\ Goto(r, "lookup")
          /\ held' = [held EXCEPT ![r] = clientOrderId[p]]
       \/ /\ status[p] \notin {"PROPOSED", "APPROVED", "FAILED"}
          /\ Goto(r, "conflict") /\ UNCHANGED held
    /\ UNCHANGED <<proposalVars, trades, job, brokerVars, gateVars, restarts, lost>>

\* session.get and the branch on the status it returned.
ReadProposal(r) ==
    LET p == job[r] IN
    /\ pc[r] = "read"
    /\ \/ status[p] = "PROPOSED" /\ Goto(r, "claim") /\ UNCHANGED held
       \/ /\ status[p] = "APPROVED" /\ clientOrderId[p] # NoKey
          /\ Goto(r, "lookup")
          /\ held' = [held EXCEPT ![r] = clientOrderId[p]]
       \/ /\ status[p] # "PROPOSED"
          /\ ~(status[p] = "APPROVED" /\ clientOrderId[p] # NoKey)
          /\ Goto(r, "conflict") /\ UNCHANGED held
    /\ UNCHANGED <<proposalVars, trades, job, brokerVars, gateVars, restarts, lost>>

\* Mutant of Claim: the UPDATE goes by primary key, as mark_proposal's does.
ClaimById(r) ==
    LET p == job[r] IN
    /\ pc[r] = "claim"
    /\ status' = [status EXCEPT ![p] = "APPROVED"]
    /\ clientOrderId' = [clientOrderId EXCEPT ![p] = r]
    /\ held' = [held EXCEPT ![r] = r]
    /\ Goto(r, "lookup")
    /\ UNCHANGED <<tradeId, trades, job, brokerVars, gateVars, restarts, lost>>

\* UPDATE ... WHERE status = 'PROPOSED': the row is claimed with a fresh key.
Claim(r) ==
    LET p == job[r] IN
    /\ pc[r] = "claim"
    /\ status[p] = "PROPOSED"
    /\ status' = [status EXCEPT ![p] = "APPROVED"]
    /\ clientOrderId' = [clientOrderId EXCEPT ![p] = r]
    /\ held' = [held EXCEPT ![r] = r]
    /\ Goto(r, "lookup")
    /\ UNCHANGED <<tradeId, trades, job, brokerVars, gateVars, restarts, lost>>

\* The conditional UPDATE matched no row: somebody else handled the proposal.
ClaimConflict(r) ==
    /\ pc[r] = "claim"
    /\ status[job[r]] # "PROPOSED"
    /\ Goto(r, "conflict")
    /\ UNCHANGED <<proposalVars, trades, job, held, brokerVars, gateVars, restarts, lost>>

\* Mutant of Lookup: a retry does not look for the trade of its key.
LookupSkipped(r) ==
    /\ pc[r] = "lookup"
    /\ Goto(r, "guard")
    /\ UNCHANGED <<proposalVars, trades, job, held, brokerVars, gateVars, restarts, lost>>

\* _find_trade_by_client_order_id.
Lookup(r) ==
    /\ pc[r] = "lookup"
    /\ Goto(r, IF trades[held[r]] # NoTrade THEN "replay" ELSE "guard")
    /\ UNCHANGED <<proposalVars, trades, job, held, brokerVars, gateVars, restarts, lost>>

\* Mutant of MarkProposal: a submission is taken for a fill.
MarkFilled(p, newStatus) ==
    status' = [status EXCEPT ![p] = IF newStatus = "SUBMITTED" THEN "FILLED" ELSE newStatus]

\* mark_proposal writes by primary key alone, whatever the status is by now.
MarkProposal(p, newStatus) == status' = [status EXCEPT ![p] = newStatus]

\* The key already has a trade row: the row is linked and no order is placed.
Replay(r) ==
    LET p == job[r] IN
    /\ pc[r] = "replay"
    /\ MarkProposal(p, "SUBMITTED")
    /\ tradeId' = [tradeId EXCEPT ![p] = held[r]]
    /\ Goto(r, "replayed")
    /\ UNCHANGED <<clientOrderId, trades, job, held, brokerVars, gateVars, restarts, lost>>

\* guard_order, then the daily-loss check, which Toss orders skip.
Guard(r) ==
    LET p == job[r] IN
    /\ pc[r] = "guard"
    /\ Goto(r, IF GuardBlocks(p) THEN "mark_blocked"
               ELSE IF Broker(p) = "TOSS" THEN "place" ELSE "loss")
    /\ UNCHANGED <<proposalVars, trades, job, held, brokerVars, gateVars, restarts, lost>>

CheckDailyLoss(r) ==
    /\ pc[r] = "loss"
    /\ Goto(r, IF LossBlocks(job[r]) THEN "mark_blocked" ELSE "place")
    /\ UNCHANGED <<proposalVars, trades, job, held, brokerVars, gateVars, restarts, lost>>

\* place_order sends the submission; no idempotency key travels with it.
Place(r) ==
    /\ pc[r] = "place"
    /\ wire' = wire \cup {r}
    /\ Goto(r, "await")
    /\ UNCHANGED <<proposalVars, trades, job, held, book, gateVars, restarts, lost>>

\* The broker (external) takes or refuses a submission, in any order, even
\* when the request that sent it has given up or died.
BrokerAccepts(r) ==
    /\ r \in wire
    /\ wire' = wire \ {r}
    /\ book' = book \cup {r}
    /\ UNCHANGED <<proposalVars, trades, pc, job, held, gateVars, restarts, lost>>

BrokerRefuses(r) ==
    /\ r \in wire
    /\ wire' = wire \ {r}
    /\ UNCHANGED <<proposalVars, trades, pc, job, held, book, gateVars, restarts, lost>>

\* Mutant of ReplyAccepted: any reply counts as an acceptance.
ReplyUnchecked(r) ==
    /\ pc[r] = "await"
    /\ Goto(r, "persist")
    /\ UNCHANGED <<proposalVars, trades, job, held, brokerVars, gateVars, restarts, lost>>

ReplyAccepted(r) ==
    /\ pc[r] = "await"
    /\ r \in book
    /\ Goto(r, "persist")
    /\ UNCHANGED <<proposalVars, trades, job, held, brokerVars, gateVars, restarts, lost>>

\* A refusal, or an error or timeout that says nothing about the order.
ReplyError(r) ==
    /\ pc[r] = "await"
    /\ r \notin Sent \/ "reply" \in Faults
    /\ Goto(r, "mark_failed")
    /\ UNCHANGED <<proposalVars, trades, job, held, brokerVars, gateVars, restarts, lost>>

\* _persist_trade_skeleton: client_order_id is unique in the trades table.
InsertTrade(r) ==
    /\ pc[r] = "persist"
    /\ trades[held[r]] = NoTrade
    /\ trades' = [trades EXCEPT ![held[r]] = r]
    /\ Goto(r, "mark_stored")
    /\ UNCHANGED <<proposalVars, job, held, brokerVars, gateVars, restarts, lost>>

\* Mutant of InsertFails: an order without a trade row is taken for a failed order.
InsertFailureFails(r) ==
    /\ pc[r] = "persist"
    /\ trades[held[r]] # NoTrade \/ "insert" \in Faults
    /\ Goto(r, "mark_failed")
    /\ UNCHANGED <<proposalVars, trades, job, held, brokerVars, gateVars, restarts, lost>>

InsertFails(r) ==
    /\ pc[r] = "persist"
    /\ trades[held[r]] # NoTrade \/ "insert" \in Faults
    /\ Goto(r, "mark_unstored")
    /\ UNCHANGED <<proposalVars, trades, job, held, brokerVars, gateVars, restarts, lost>>

MarkStored(r) ==
    LET p == job[r] IN
    /\ pc[r] = "mark_stored"
    /\ MarkProposal(p, "SUBMITTED")
    /\ tradeId' = [tradeId EXCEPT ![p] = held[r]]
    /\ Goto(r, "submitted")
    /\ UNCHANGED <<clientOrderId, trades, job, held, brokerVars, gateVars, restarts, lost>>

\* Without a trade row the proposal is still marked SUBMITTED, and keeps its trade_id.
MarkUnstored(r) ==
    /\ pc[r] = "mark_unstored"
    /\ MarkProposal(job[r], "SUBMITTED")
    /\ Goto(r, "submitted")
    /\ UNCHANGED <<clientOrderId, tradeId, trades, job, held, brokerVars, gateVars, restarts, lost>>

\* The rollback of the failed insert expired the proposal object, so that
\* reading proposal.id in mark_proposal can raise out of the handler.
MarkRaises(r) ==
    /\ pc[r] = "mark_unstored"
    /\ Goto(r, "raised")
    /\ lost' = lost \cup {job[r]}
    /\ UNCHANGED <<proposalVars, trades, job, held, brokerVars, gateVars, restarts>>

\* Mutant of MarkBlocked: the block is answered without the FAILED mark.
BlockedUnmarked(r) ==
    /\ pc[r] = "mark_blocked"
    /\ Goto(r, "blocked")
    /\ UNCHANGED <<proposalVars, trades, job, held, brokerVars, gateVars, restarts, lost>>

MarkBlocked(r) ==
    /\ pc[r] = "mark_blocked"
    /\ MarkProposal(job[r], "FAILED")
    /\ Goto(r, "blocked")
    /\ UNCHANGED <<clientOrderId, tradeId, trades, job, held, brokerVars, gateVars, restarts, lost>>

MarkFailed(r) ==
    /\ pc[r] = "mark_failed"
    /\ MarkProposal(job[r], "FAILED")
    /\ Goto(r, "failed")
    /\ UNCHANGED <<clientOrderId, tradeId, trades, job, held, brokerVars, gateVars, restarts, lost>>

-----------------------------------------------------------------------------
(* The other actors on the same rows, and the environment.                 *)

\* Mutant of Reject: the status is not part of the WHERE.
RejectById(p) ==
    /\ status' = [status EXCEPT ![p] = "REJECTED"]
    /\ UNCHANGED <<clientOrderId, tradeId, trades, pc, job, held, brokerVars, gateVars,
                   restarts, lost>>

\* reject_proposal / reject_proposal_cas: one conditional UPDATE.
Reject(p) ==
    /\ status[p] = "PROPOSED"
    /\ status' = [status EXCEPT ![p] = "REJECTED"]
    /\ UNCHANGED <<clientOrderId, tradeId, trades, pc, job, held, brokerVars, gateVars,
                   restarts, lost>>

\* Mutant of RunExpiry: every row past its expires_at expires.
ExpireAll(due) ==
    /\ due # {}
    /\ status' = [p \in Proposals |-> IF p \in due THEN "EXPIRED" ELSE status[p]]
    /\ UNCHANGED <<clientOrderId, tradeId, trades, pc, job, held, brokerVars, gateVars,
                   restarts, lost>>

\* run_proposal_expiry: one bulk UPDATE over the rows past their expires_at.
RunExpiry(due) ==
    /\ \E p \in due : status[p] = "PROPOSED"
    /\ status' = [p \in Proposals |->
                    IF p \in due /\ status[p] = "PROPOSED" THEN "EXPIRED" ELSE status[p]]
    /\ UNCHANGED <<clientOrderId, tradeId, trades, pc, job, held, brokerVars, gateVars,
                   restarts, lost>>

\* POST /api/automation/kill-switch sets the process-local flag.
ToggleKillSwitch ==
    /\ killSwitch' = ~killSwitch
    /\ UNCHANGED <<proposalVars, trades, pc, job, held, brokerVars, lossBreached,
                   restarts, lost>>

\* A fill realizes a loss past the limit, or a new day starts.
LossChanges ==
    /\ lossBreached' = ~lossBreached
    /\ UNCHANGED <<proposalVars, trades, pc, job, held, brokerVars, killSwitch,
                   restarts, lost>>

\* Requests between sending an order and recording what became of it.
Unrecorded == {r \in Sent : pc[r] \in {"await", "persist", "mark_unstored", "mark_failed"}}

\* Every coroutine dies.  The tables survive, and so do submissions on the wire.
Restart ==
    /\ "restart" \in Faults
    /\ restarts < MaxRestarts
    /\ restarts' = restarts + 1
    /\ pc' = [r \in Requests |-> IF pc[r] \in InFlight THEN "dead" ELSE pc[r]]
    /\ lost' = lost \cup {job[r] : r \in Unrecorded}
    /\ killSwitch' \in BOOLEAN
    /\ UNCHANGED <<proposalVars, trades, job, held, brokerVars, lossBreached>>

Handler(r) ==
    \/ ReadProposal(r) \/ Claim(r) \/ ClaimConflict(r) \/ Lookup(r) \/ Replay(r)
    \/ Guard(r) \/ CheckDailyLoss(r) \/ Place(r)
    \/ ReplyAccepted(r) \/ ReplyError(r) \/ InsertTrade(r) \/ InsertFails(r)
    \/ MarkStored(r) \/ MarkUnstored(r) \/ MarkRaises(r) \/ MarkBlocked(r) \/ MarkFailed(r)

BrokerDecides(r) == BrokerAccepts(r) \/ BrokerRefuses(r)

Next ==
    \/ \E r \in Requests : Handler(r) \/ BrokerDecides(r) \/ \E p \in Proposals : Start(r, p)
    \/ \E p \in Proposals : Reject(p)
    \/ \E due \in SUBSET Proposals : RunExpiry(due)
    \/ ToggleKillSwitch
    \/ LossChanges
    \/ Restart

Spec == Init /\ [][Next]_vars

\* The event loop runs every ready coroutine and the broker decides every
\* submission; nobody has to tap, reject or toggle anything.
Fairness == \A r \in Requests : WF_vars(Handler(r)) /\ WF_vars(BrokerDecides(r))

FairSpec == Spec /\ Fairness

-----------------------------------------------------------------------------
(* Properties.                                                             *)

OrdersOf(p) == {r \in Sent : job[r] = p}

\* A proposal nobody approved, or one the user rejected or the cron expired,
\* has no order and no request working towards one: the conditional UPDATEs of
\* approve, reject and expiry exclude each other whatever was read before them.
DeclinedNeverOrdered ==
    \A r \in Requests :
        (job[r] # NoProposal /\ (pc[r] \in Executing \/ r \in Sent))
            => status[job[r]] \in Approved

\* However many taps race and however often the process restarts, every request
\* that executes a proposal carries the one client_order_id its claim persisted:
\* the retry of a crashed approval never mints a second key.
OneKeyPerProposal ==
    \A r \in Requests :
        (job[r] # NoProposal /\ (pc[r] \in Executing \/ r \in Sent))
            => /\ held[r] = clientOrderId[job[r]]
               /\ held[r] \in Requests
               /\ job[held[r]] = job[r]

\* What the database says was submitted really was: a trade row records an order
\* the broker accepted for the very proposal whose key the row carries, the
\* proposal's trade_id leads to that row, and SUBMITTED means a real order exists.
LedgerTruthful ==
    /\ \A k \in Requests : trades[k] # NoTrade =>
            /\ trades[k] \in book
            /\ job[trades[k]] = job[k]
            /\ clientOrderId[job[k]] = k
    /\ \A p \in Proposals :
            /\ tradeId[p] # NoTrade => /\ tradeId[p] = clientOrderId[p]
                                       /\ trades[tradeId[p]] # NoTrade
            /\ status[p] = "SUBMITTED" => \E r \in book : job[r] = p

\* When no two requests for a proposal overlap, a second order can only follow an
\* order that was sent and then forgotten before its trade row or its FAILED mark
\* was stored: the lookup by client_order_id covers every other restart point.
RepeatOnlyAfterLoss ==
    "overlap" \notin Faults =>
        \A p \in Proposals \ lost : \A r, s \in OrdersOf(p) : r = s

\* FAILED tells the user that nothing was ordered.  With every reply delivered
\* and no overlap, that is so unless an earlier order was forgotten.
FailedMeansNoOrder ==
    (Faults \cap {"overlap", "reply"} = {}) =>
        \A p \in Proposals \ lost : status[p] = "FAILED" => OrdersOf(p) = {}

\* The broker holds at most one order of a proposal, however often its approve
\* button was tapped or its approval retried.
OneOrderPerProposal ==
    \A r, s \in book : job[r] = job[s] => r = s

\* Decisions are final: no write, conditional or by primary key alone, takes a
\* proposal back to PROPOSED, revives a declined one, declines an approved one or
\* sends an executed one back to APPROVED; and a persisted key never changes.
DecisionsAreFinal ==
    [][\A p \in Proposals :
        /\ status[p] \in Declined => status'[p] = status[p]
        /\ status[p] \in Approved => status'[p] \in Approved
        /\ status[p] \in {"SUBMITTED", "FAILED"} => status'[p] # "APPROVED"
        /\ clientOrderId[p] # NoKey => clientOrderId'[p] = clientOrderId[p]]_vars

\* An approved proposal does not stay APPROVED: unless a restart or a failed
\* insert strands it, some request carries it to SUBMITTED or FAILED.
ApprovedResolves ==
    \A p \in Proposals : status[p] = "APPROVED" ~>
        (status[p] \in {"SUBMITTED", "FAILED"} \/ p \in lost \/ restarts > 0)

-----------------------------------------------------------------------------
(* The abstract specification.                                             *)

Accepted(p) == {r \in book : job[r] = p}

Contract == INSTANCE ProposalContract WITH
    OrderIds <- Requests,
    OneAtATime <- "overlap" \notin Faults,
    Answered <- "reply" \notin Faults,
    orders <- [p \in Proposals |-> Accepted(p)],
    forgotten <- lost

\* Seen from outside, where a proposal has a status and the broker has orders,
\* approval keeps its contract: one decision, orders only after an approval, true
\* reports, and for requests that do not overlap one report and no repeated order
\* unless one was forgotten.
MeetsContract == Contract!Spec
=============================================================================
