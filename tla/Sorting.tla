-------------------------------- MODULE Sorting --------------------------------
(* Lists in an order, in a form that can be reasoned about: SetToSortSeq and   *)
(* SelectSeq take an operator.                                                 *)
EXTENDS Integers, FiniteSets

\* The members of a set of numbers in their order.
InOrder(S) == [i \in 1..Cardinality(S) |-> CHOOSE x \in S : Cardinality({y \in S : y < x}) = i - 1]

\* What a sequence has at some places.
Chosen(s, places) == LET at == InOrder(places) IN [i \in DOMAIN at |-> s[at[i]]]
=============================================================================
