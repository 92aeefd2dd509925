------------------------- MODULE MCProposalGeneration -------------------------
(* Instances of ProposalGeneration for TLC.                                *)
EXTENDS ProposalGeneration, TLC

CONSTANTS legacy, managed, button, named

\* The two jobs of the evening, a run of the legacy job by hand, and one that
\* names the legacy job's strategy.
Kinds == (legacy :> "legacy" @@ managed :> "managed" @@ button :> "legacy" @@ named :> "explicit")
Names == (legacy :> "etf_v1" @@ managed :> "etf_v2" @@ button :> "etf_v1" @@ named :> "etf_v1")

KindOfRuns == [r \in Runs |-> Kinds[r]]
NameOfRuns == [r \in Runs |-> Names[r]]

\* The same strategy in the legacy settings and in the account's profile.
SameName == [r \in Runs |-> "etf_v1"]
=============================================================================
