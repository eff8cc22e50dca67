--------------------------- MODULE MCRemediation ---------------------------
(***************************************************************************)
(* Instances of Remediation for TLC: model values, who opens the pull      *)
(* requests, and the symmetries of the runs without liveness properties.   *)
(***************************************************************************)
EXTENDS PollChains, DocumentedClaims, OwnershipRefinement, TLC

CONSTANTS s1, s2, t1, t2, t3, pr1, w1, w2, i1, h1, h2

HumanPrs      == [pr \in Prs |-> NULL]
DevinPrs      == [pr \in Prs |-> s1]

TokenSymmetry == Permutations(Tokens)
Symmetry      == Permutations(Workers) \cup Permutations(Handlers) \cup TokenSymmetry

=============================================================================
