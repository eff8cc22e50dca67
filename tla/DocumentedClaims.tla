-------------------------- MODULE DocumentedClaims --------------------------
(***************************************************************************)
(* A statement the repository makes about remediation which the code, as   *)
(* Remediation models it, does not keep: the run that checks it ends in a  *)
(* counterexample.                                                         *)
(***************************************************************************)
EXTENDS Remediation

\* app/remediation.py:86: the atomic claim is the final gate, so overlapping
\* tasks "can never both reach create_session" (creation never outlives the
\* creation lease here).
OneCreator ==
    \A v, w \in Workers : pc[v] = "create" /\ pc[w] = "create" => v = w

=============================================================================
