---------------------------- MODULE RequeueClaim ----------------------------
(***************************************************************************)
(* A statement the repository makes about closed pull requests which the   *)
(* code does not keep.  To RemediationHistory it adds                      *)
(*   doubtful  since a pull request was last recorded on the row, one of   *)
(*             its detachers published a retry that was delivered although *)
(*             the publication raised                                      *)
(***************************************************************************)
EXTENDS MCRemediationHistory

VARIABLE doubtful

NextDoubtful ==
    /\ ~Recorded
    /\ \/ doubtful
       \/ \E h \in detachers :
             pc[h] = "requeue" /\ pc'[h] = "reattach" /\ remediations' # remediations

DSpec ==
    /\ HInit /\ doubtful = FALSE
    /\ [][HNext /\ doubtful' = NextDoubtful]_<<hvars, doubtful>>

\* app/webhooks.py:114: the detach is conditional "so replays and concurrent
\* deliveries can't requeue twice".  Counted here together with a publication
\* that raised after the broker had taken the task.
NeverRequeuedTwice == requeues + (IF doubtful THEN 1 ELSE 0) <= 1

=============================================================================
