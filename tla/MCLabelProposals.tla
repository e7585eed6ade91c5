-------------------------- MODULE MCLabelProposals --------------------------
(* Finite instances of LabelProposals for TLC. *)
EXTENDS LabelProposals, TLC

\* PROPOSAL_RETRY_DELAYS in minutes.
MCRetryDelay == <<1, 5>>

\* Two attempts instead of three.
MCOneRetry == <<1>>

Symmetry == Permutations(Worker) \union Permutations(Version)
=============================================================================
