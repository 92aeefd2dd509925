--------------------------- MODULE ProposalContract ---------------------------
(***************************************************************************)
(* What order approval promises about a proposal, without saying how:      *)
(* it is decided once, orders follow only an approval, what is reported of *)
(* an approved proposal is true, and a second order has a cause.           *)
(* OrderApproval implements it.                                            *)
(***************************************************************************)

CONSTANTS
    Proposals, OrderIds,
    OneAtATime,     \* requests for one proposal do not overlap
    Answered        \* the broker's answers arrive

VARIABLES
    status,         \* what the user sees
    orders,         \* orders[p]: the orders the broker holds for p
    forgotten       \* proposals with an order that nobody may remember

vars == <<status, orders, forgotten>>

Init ==
    /\ status = [p \in Proposals |-> "PROPOSED"]
    /\ orders = [p \in Proposals |-> {}]
    /\ forgotten = {}

WasApproved(p) == status[p] \in {"APPROVED", "SUBMITTED", "FAILED"}

\* One request at a time reports once.
MayReport(p) == IF OneAtATime THEN status[p] = "APPROVED" ELSE WasApproved(p)

\* Nothing was ordered, as far as anybody may remember.
NothingOrdered(p) == orders[p] = {} \/ p \in forgotten

Report(p, word) ==
    /\ MayReport(p)
    /\ status' = [status EXCEPT ![p] = word]
    /\ UNCHANGED <<orders, forgotten>>

Approve(p) ==
    /\ status[p] = "PROPOSED"
    /\ status' = [status EXCEPT ![p] = "APPROVED"]
    /\ UNCHANGED <<orders, forgotten>>

\* The user rejects one proposal, or several expire.
Decline(some, word) ==
    /\ \A p \in some : status[p] = "PROPOSED"
    /\ status' = [p \in Proposals |-> IF p \in some THEN word ELSE status[p]]
    /\ UNCHANGED <<orders, forgotten>>

Order(p, o) ==
    /\ WasApproved(p)
    /\ OneAtATime => NothingOrdered(p)
    /\ orders' = [orders EXCEPT ![p] = @ \cup {o}]
    /\ UNCHANGED <<status, forgotten>>

Submitted(p) == orders[p] # {} /\ Report(p, "SUBMITTED")

Failed(p) == (OneAtATime /\ Answered => NothingOrdered(p)) /\ Report(p, "FAILED")

Forget(some) ==
    /\ \A p \in some : WasApproved(p)
    /\ forgotten' = forgotten \cup some
    /\ UNCHANGED <<status, orders>>

Next ==
    \/ \E p \in Proposals :
          Approve(p) \/ Submitted(p) \/ Failed(p) \/ \E o \in OrderIds : Order(p, o)
    \/ \E some \in SUBSET Proposals :
          Decline(some, "REJECTED") \/ Decline(some, "EXPIRED") \/ Forget(some)

Spec == Init /\ [][Next]_vars
=============================================================================
