-------------------------- MODULE ProposalGeneration --------------------------
(***************************************************************************)
(* How order proposals come to be and go                                   *)
(* (backend/app/services/batch/proposal_generator.py and                   *)
(* account_proposals.py) for one account and one month.                    *)
(*                                                                         *)
(* A run compares the month's target with the broker's balance and stores  *)
(* one proposal per leg, that is per stock and side, that is still         *)
(* missing.  On the month's first evening it also saves the target; on the *)
(* other evenings it carries over what is left of the saved one.  Two      *)
(* systems serve an account: the legacy job, which yields to an account    *)
(* whose profile is quant-enabled, and the managed job, which serves only  *)
(* those; and anybody may ask for a run by hand.  What becomes of a        *)
(* proposal on approval is module OrderApproval's: here it is one order.   *)
(***************************************************************************)
EXTENDS Integers, FiniteSets

CONSTANTS
    Legs,            \* (stock_code, side) pairs that the strategies want
    CronRuns,        \* runs the scheduler starts every evening
    ButtonRuns,      \* runs of POST /api/proposals/generate
    Kind,            \* Kind[r]: which of the three entry points r enters by
    Strategy,        \* Strategy[r]: the strategy_name of its proposals
    Missing,         \* shares a leg lacks at the start of the month
    Faults,          \* what the environment may do, a subset of FaultKinds
    MaxToggles, MaxFailures     \* bounds

Runs == CronRuns \cup ButtonRuns
Strategies == {Strategy[r] : r \in Runs}

\* "toggle": the profile is switched while the evening's runs are under way.
\* "fail": a run dies, by an error of the broker or with the process.
FaultKinds == {"toggle", "fail"}

ASSUME GenerationAssumption ==
    /\ CronRuns \cap ButtonRuns = {}
    /\ Kind \in [Runs -> {"legacy", "managed", "explicit"}]
    /\ DOMAIN Strategy = Runs
    /\ Missing \in Nat \ {0}
    /\ Faults \subseteq FaultKinds
    /\ MaxToggles \in Nat /\ MaxFailures \in Nat

VARIABLES
    proposed,      \* (strategy, leg) pairs with a row in status PROPOSED
    quantity,      \* the quantity of that row
    rejected,      \* legs with a row that was REJECTED this month
    working,       \* [leg, qty]: orders of approved proposals at the broker
    gap,           \* the month's target minus the holding
    saved,         \* strategies with a rebalance_targets row for the month
    enabled,       \* AccountProfile.quant_enabled
    evening,       \* the generation cron has fired and the expiry cron has not
    firstDay,      \* the latest price date is the month's first trading day
    due,           \* cron runs still to start
    pc,            \* where each run stands
    drafts,        \* the legs it is going to propose
    size,          \* the quantity it is going to propose for a leg
    toggles, failures,
    revived        \* history: legs proposed again after a rejection

tableVars == <<proposed, quantity, rejected, saved>>
marketVars == <<working, gap>>
clockVars == <<evening, firstDay, due>>
runVars == <<pc, drafts, size>>
vars == <<tableVars, marketVars, enabled, clockVars, runVars, toggles, failures, revived>>

Keys == Strategies \X Legs
Steps == {"off", "check", "target", "residual", "balance", "save", "filter", "dedupe", "commit", "retry"}
Quantities == 0..Missing
Orders == [leg : Legs, by : Strategies, qty : Quantities]

TypeOK ==
    /\ proposed \subseteq Keys
    /\ quantity \in [Keys -> Quantities]
    /\ \A k \in proposed : quantity[k] > 0
    /\ rejected \subseteq Legs /\ revived \subseteq rejected
    /\ working \subseteq Orders
    /\ gap \in [Legs -> Int]
    /\ saved \subseteq Strategies
    /\ enabled \in BOOLEAN /\ evening \in BOOLEAN /\ firstDay \in BOOLEAN
    /\ due \subseteq CronRuns
    /\ pc \in [Runs -> Steps]
    /\ drafts \in [Runs -> SUBSET Legs]
    /\ size \in [Runs -> [Legs -> Quantities]]
    /\ \A r \in Runs : pc[r] = "off" => drafts[r] = {}
    /\ toggles \in 0..MaxToggles /\ failures \in 0..MaxFailures

NoSize == [l \in Legs |-> 0]

Init ==
    /\ proposed = {} /\ quantity = [k \in Keys |-> 0] /\ rejected = {} /\ saved = {}
    /\ working = {} /\ gap = [l \in Legs |-> Missing]
    /\ enabled \in BOOLEAN
    /\ evening = FALSE /\ firstDay = TRUE /\ due = {}
    /\ pc = [r \in Runs |-> "off"]
    /\ drafts = [r \in Runs |-> {}]
    /\ size = [r \in Runs |-> NoSize]
    /\ toggles = 0 /\ failures = 0 /\ revived = {}

-----------------------------------------------------------------------------
(* A run, one action per await.                                            *)

Goto(r, step) == pc' = [pc EXCEPT ![r] = step]

Stop(r) ==
    /\ Goto(r, "off")
    /\ drafts' = [drafts EXCEPT ![r] = {}]
    /\ size' = [size EXCEPT ![r] = NoSize]

\* A run that names its strategy goes straight to run_proposal_generation, here
\* with full_rebalance; the two jobs look at the profile first.
Enter(r) == IF Kind[r] = "explicit" THEN "balance" ELSE "check"

Start(r) ==
    /\ pc[r] = "off"
    /\ r \in due \/ r \in ButtonRuns
    /\ due' = due \ {r}
    /\ Goto(r, Enter(r))
    /\ UNCHANGED <<tableVars, marketVars, enabled, evening, firstDay, drafts, size,
                   toggles, failures, revived>>

\* Mutant of MayServe: the legacy job does not look at the profile.
MayServeAlways(r) == Kind[r] = "legacy" \/ enabled

\* The legacy job yields to the profile, the managed one needs it.
MayServe(r) == IF Kind[r] = "legacy" THEN ~enabled ELSE enabled

\* Mutant of CheckProfile: nothing is carried over after the month's first evening.
CheckProfileOnce(r) ==
    /\ pc[r] = "check"
    /\ IF MayServe(r) /\ firstDay THEN Goto(r, "balance") /\ UNCHANGED <<drafts, size>> ELSE Stop(r)
    /\ UNCHANGED <<tableVars, marketVars, enabled, clockVars, toggles, failures, revived>>

\* The start of a month recomputes the target, other evenings carry it over.
CheckProfile(r) ==
    /\ pc[r] = "check"
    /\ IF MayServe(r)
       THEN Goto(r, IF firstDay THEN "balance" ELSE "target") /\ UNCHANGED <<drafts, size>>
       ELSE Stop(r)
    /\ UNCHANGED <<tableVars, marketVars, enabled, clockVars, toggles, failures, revived>>

\* load_rebalance_target: without a saved target nothing is carried over.
\* A saved target is taken to name a stock here; ProposalRules has the empty one.
LoadTarget(r) ==
    /\ pc[r] = "target"
    /\ IF Strategy[r] \in saved
       THEN Goto(r, "residual") /\ UNCHANGED <<drafts, size>>
       ELSE Stop(r)
    /\ UNCHANGED <<tableVars, marketVars, enabled, clockVars, toggles, failures, revived>>

\* The legs for which full_rebalance_proposals or build_carryover_drafts draws one up.
Lacking == {l \in Legs : gap[l] > 0}

\* Mutant of Residual: the month's whole target instead of what the holding lacks.
ResidualWhole(l) == IF gap[l] > 0 THEN Missing ELSE 0

Residual(l) == IF gap[l] > 0 THEN gap[l] ELSE 0

\* get_balance, and the drafts; a month's target is saved before they are filtered.
ReadBalance(r) ==
    /\ pc[r] \in {"residual", "balance"}
    /\ drafts' = [drafts EXCEPT ![r] = Lacking]
    /\ size' = [size EXCEPT ![r] = [l \in Legs |-> Residual(l)]]
    /\ Goto(r, IF pc[r] = "balance" THEN "save" ELSE "filter")
    /\ UNCHANGED <<tableVars, marketVars, enabled, clockVars, toggles, failures, revived>>

\* _save_rebalance_target.
SaveTarget(r) ==
    /\ pc[r] = "save"
    /\ saved' = saved \cup {Strategy[r]}
    /\ Goto(r, "filter")
    /\ UNCHANGED <<proposed, quantity, rejected, marketVars, enabled, clockVars, drafts, size,
                   toggles, failures, revived>>

\* Mutant of FilterRejected: rejected legs are proposed again.
FilterNothing(r) ==
    /\ pc[r] = "filter"
    /\ Goto(r, "dedupe")
    /\ UNCHANGED <<tableVars, marketVars, enabled, clockVars, drafts, size, toggles, failures,
                   revived>>

\* _rejected_keys and _filter_rejected.
FilterRejected(r) ==
    /\ pc[r] = "filter"
    /\ drafts' = [drafts EXCEPT ![r] = @ \ rejected]
    /\ Goto(r, "dedupe")
    /\ UNCHANGED <<tableVars, marketVars, enabled, clockVars, size, toggles, failures, revived>>

Pending(r) == {l \in Legs : <<Strategy[r], l>> \in proposed}

\* The SELECT of _insert_proposals: legs with a PROPOSED row are left out.
Dedupe(r) ==
    /\ pc[r] = "dedupe"
    /\ IF drafts[r] \subseteq Pending(r)
       THEN Stop(r)
       ELSE /\ drafts' = [drafts EXCEPT ![r] = @ \ Pending(r)]
            /\ Goto(r, "commit")
            /\ UNCHANGED size
    /\ UNCHANGED <<tableVars, marketVars, enabled, clockVars, toggles, failures, revived>>

\* New PROPOSED rows of run r for these legs.
Insert(r, legs) ==
    /\ proposed' = proposed \cup {<<Strategy[r], l>> : l \in legs}
    /\ quantity' = [k \in Keys |-> IF k[1] = Strategy[r] /\ k[2] \in legs
                                   THEN size[r][k[2]] ELSE quantity[k]]
    /\ revived' = revived \cup (legs \cap rejected)
    /\ UNCHANGED <<rejected, saved>>

\* All rows at once, unless the unique index on PROPOSED rows refuses one.
Commit(r) ==
    /\ pc[r] = "commit"
    /\ IF drafts[r] \cap Pending(r) = {}
       THEN Insert(r, drafts[r]) /\ Stop(r)
       ELSE Goto(r, "retry") /\ UNCHANGED <<tableVars, drafts, size, revived>>
    /\ UNCHANGED <<marketVars, enabled, clockVars, toggles, failures>>

\* Row by row, skipping those the index refuses.
RetryRow(r, l) ==
    /\ pc[r] = "retry"
    /\ l \in drafts[r]
    /\ IF l \in Pending(r) THEN UNCHANGED <<tableVars, revived>> ELSE Insert(r, {l})
    /\ drafts' = [drafts EXCEPT ![r] = @ \ {l}]
    /\ UNCHANGED <<marketVars, enabled, clockVars, pc, size, toggles, failures>>

RetryDone(r) ==
    /\ pc[r] = "retry"
    /\ drafts[r] = {}
    /\ Stop(r)
    /\ UNCHANGED <<tableVars, marketVars, enabled, clockVars, toggles, failures, revived>>

Fail(r) ==
    /\ "fail" \in Faults
    /\ failures < MaxFailures
    /\ pc[r] # "off"
    /\ failures' = failures + 1
    /\ Stop(r)
    /\ UNCHANGED <<tableVars, marketVars, enabled, clockVars, toggles, revived>>

-----------------------------------------------------------------------------
(* The user, the broker and the crons.                                     *)

\* approve_and_execute: the proposal becomes one order, or FAILED.
Approve(k) ==
    /\ k \in proposed
    /\ proposed' = proposed \ {k}
    /\ quantity' = [quantity EXCEPT ![k] = 0]
    /\ \/ working' = working \cup {[leg |-> k[2], by |-> k[1], qty |-> quantity[k]]}
       \/ UNCHANGED working
    /\ UNCHANGED <<rejected, saved, gap, enabled, clockVars, runVars, toggles, failures, revived>>

\* reject_proposal.
Reject(k) ==
    /\ k \in proposed
    /\ proposed' = proposed \ {k}
    /\ quantity' = [quantity EXCEPT ![k] = 0]
    /\ rejected' = rejected \cup {k[2]}
    /\ UNCHANGED <<saved, marketVars, enabled, clockVars, runVars, toggles, failures, revived>>

\* The broker (external) fills a working order, in part or in whole, and drops the rest.
Fill(order, n) ==
    /\ order \in working
    /\ n \in 1..order.qty
    /\ working' = working \ {order}
    /\ gap' = [gap EXCEPT ![order.leg] = @ - n]
    /\ UNCHANGED <<tableVars, enabled, clockVars, runVars, toggles, failures, revived>>

Toggle ==
    /\ toggles < MaxToggles
    /\ "toggle" \in Faults \/ ~evening
    /\ enabled' = ~enabled
    /\ toggles' = toggles + 1
    /\ UNCHANGED <<tableVars, marketVars, clockVars, runVars, failures, revived>>

\* PROPOSAL_CRON fires after the close: day orders that are left have died.
Evening ==
    /\ ~evening
    /\ evening' = TRUE
    /\ due' = CronRuns
    /\ working' = {}
    /\ UNCHANGED <<tableVars, gap, enabled, firstDay, runVars, toggles, failures, revived>>

\* run_proposal_expiry: what nobody decided by 08:30 expires.
Morning ==
    /\ evening /\ due = {} /\ \A r \in CronRuns : pc[r] = "off"
    /\ evening' = FALSE /\ firstDay' = FALSE
    /\ proposed' = {}
    /\ quantity' = [k \in Keys |-> 0]
    /\ UNCHANGED <<rejected, saved, marketVars, enabled, due, runVars, toggles, failures, revived>>

RunStep(r) ==
    \/ CheckProfile(r) \/ LoadTarget(r) \/ ReadBalance(r) \/ SaveTarget(r)
    \/ FilterRejected(r) \/ Dedupe(r) \/ Commit(r) \/ RetryDone(r)
    \/ \E l \in Legs : RetryRow(r, l)

Next ==
    \/ \E r \in Runs : Start(r) \/ RunStep(r) \/ Fail(r)
    \/ \E k \in Keys : Approve(k) \/ Reject(k)
    \/ \E order \in working : \E n \in 1..order.qty : Fill(order, n)
    \/ Toggle \/ Evening \/ Morning

Spec == Init /\ [][Next]_vars

\* The scheduler fires, starts its runs and runs their coroutines; the user and
\* the broker owe nothing.
FairSpec ==
    /\ Spec
    /\ WF_vars(Evening) /\ WF_vars(Morning)
    /\ \A r \in Runs : WF_vars(RunStep(r))
    /\ \A r \in CronRuns : WF_vars(Start(r))

-----------------------------------------------------------------------------
(* Properties.                                                             *)

\* A leg the user rejected this month is not proposed again.
RejectionRespected == revived = {}

\* The two systems never propose the same leg of the account side by side.
OneSystemPerLeg ==
    \A s, t \in Strategies : \A l \in Legs :
        (<<s, l>> \in proposed /\ <<t, l>> \in proposed) => s = t

\* Executing what was proposed never takes a holding beyond the month's target:
\* the residual of an evening is not proposed while an order for it still works.
NeverBeyondTarget == \A l \in Legs : gap[l] >= 0

\* Once the month's target is saved, a leg that is short of it is proposed again,
\* whatever failed, expired or died unfilled, until it is reached or rejected.
ResidualIsProposed ==
    \A s \in Strategies, l \in Legs :
        (s \in saved /\ gap[l] > 0) ~>
            \/ gap[l] <= 0
            \/ l \in rejected
            \/ \E t \in Strategies : <<t, l>> \in proposed
=============================================================================
