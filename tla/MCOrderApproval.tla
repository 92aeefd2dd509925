--------------------------- MODULE MCOrderApproval ---------------------------
(* Instances of OrderApproval for TLC.                                     *)
EXTENDS OrderApproval, TLC

CONSTANTS p1, p2

\* A live KIS buy, subject to both gates, and a live US buy through Toss.
LiveTerms ==
    p1 :> [market |-> "KR", account |-> "REAL", side |-> "BUY", overCap |-> FALSE] @@
    p2 :> [market |-> "US", account |-> "REAL", side |-> "BUY", overCap |-> FALSE]

\* One live KIS buy.
SingleTerms ==
    p1 :> [market |-> "KR", account |-> "REAL", side |-> "BUY", overCap |-> FALSE]

AnyRequest == Permutations(Requests)
=============================================================================
