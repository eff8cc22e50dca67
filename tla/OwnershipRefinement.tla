------------------------ MODULE OwnershipRefinement ------------------------
(***************************************************************************)
(* Remediation implements PollOwnership: what the row, the queues and the  *)
(* control points of the processes mean in its terms.                      *)
(***************************************************************************)
EXTENDS Remediation

\* The token has a poll in the queue or is in a process's hands, also of one
\* that has yet to acknowledge its task.
Circulating ==
    {t \in Tokens :
        \/ \E s \in Sessions : polls[<<s, t>>] > 0
        \/ \E p \in Procs : local[p].token = t}

Held == {t \in Tokens : \E p \in Procs : local[p].token = t /\ pc[p] \notin {"idle", "ack"}}

\* Workers between their granted claim and their last statement under it.
Entitled == {w \in Workers : pc[w] \in CreatorPcs \cup {"release_all", "arm"}}

Ownership == INSTANCE PollOwnership WITH
    Creators    <- Workers,
    open        <- row.status = "running",
    owner       <- row.token,
    lease       <- row.lease,
    entitled    <- Entitled,
    circulating <- Circulating,
    held        <- Held

\* The service keeps the promise of PollOwnership: whatever the processes of
\* Remediation do, fail or repeat, a live poll lease changes hands only to a
\* creator entitled to it, once per claim; a scan takes over lost leases
\* only; a superseded token is dead, and its chain neither renews nor
\* releases its successor; and no unconditional upsert moves the ownership.
ImplementsOwnership == Ownership!Spec

=============================================================================
