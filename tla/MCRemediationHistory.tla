------------------------ MODULE MCRemediationHistory ------------------------
(***************************************************************************)
(* The instances of MCRemediation with the history variables.              *)
(***************************************************************************)
EXTENDS RemediationHistory, MCRemediation

=============================================================================
