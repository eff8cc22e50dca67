------------------------- MODULE RemediationHistory -------------------------
(***************************************************************************)
(* Remediation with history variables, which no step of the service reads: *)
(* they remember what the row no longer shows.                             *)
(*   creator    the worker whose claim was granted and is still being      *)
(*              redeemed, until it leaves CreatorPcs or another process    *)
(*              overwrites the row with an unconditional statement         *)
(*   touched    the handlers whose detached row somebody has changed since *)
(* and, since a pull request was last recorded on the row:                 *)
(*   detachers  the handlers that detached it and are not finished         *)
(*   requeues   the retries they published without an exception            *)
(***************************************************************************)
EXTENDS Remediation

VARIABLES creator, touched, detachers, requeues

history == <<creator, touched, detachers, requeues>>

\* Control states whose next statement is keyed by the issue alone.
BlindPcs == {"completed_flush", "record_flush", "fail_flush", "release_all",
             "poll_flush", "opened_flush"}

Moves(p) == pc'[p] # pc[p]

GrantedTo(w) == pc[w] = "claim" /\ pc'[w] = "create"

Overwritten ==
    row' # row /\ \E p \in Procs \ {creator} : pc[p] \in BlindPcs /\ Moves(p)

NextCreator ==
    IF \E w \in Workers : GrantedTo(w)
    THEN CHOOSE w \in Workers : GrantedTo(w)
    ELSE IF creator = NULL THEN NULL
    ELSE IF pc'[creator] \notin CreatorPcs \/ Overwritten THEN NULL
    ELSE creator

\* What detach wrote or guarded on.  Compensating is open to these handlers.
Association(r)  == <<r.status, r.session, r.pr>>
Compensating(h) == pc[h] \in {"requeue", "reattach"}

NextTouched ==
    {h \in Handlers :
        /\ Compensating(h) /\ pc'[h] \in {"requeue", "reattach"}
        /\ h \in touched \/ Association(row') # Association(row)}

\* A pull request reaches the row, other than by undoing a detach.
Recorded ==
    /\ row'.pr \in Prs /\ row'.pr # row.pr
    /\ ~ \E h \in Handlers : pc[h] = "reattach" /\ Moves(h)

NextDetachers ==
    {h \in Handlers :
        /\ ~Recorded
        /\ pc'[h] \in {"requeue", "reattach"}
        /\ h \in detachers \/ pc[h] = "detach"}

Confirmed(h) == Requeue(h) /\ pc'[h] = "idle"

NextRequeues ==
    IF Recorded THEN 0
    ELSE IF \E h \in detachers : Confirmed(h) THEN requeues + 1
    ELSE requeues

HistoryTypeOK ==
    /\ creator \in Workers \cup {NULL}
    /\ touched \subseteq Handlers
    /\ detachers \subseteq Handlers
    /\ requeues \in Nat

HInit ==
    /\ Init
    /\ creator = NULL
    /\ touched = {}
    /\ detachers = {}
    /\ requeues = 0

HNext ==
    /\ Next
    /\ creator' = NextCreator
    /\ touched' = NextTouched
    /\ detachers' = NextDetachers
    /\ requeues' = NextRequeues

hvars == <<vars, history>>

HSpec == HInit /\ [][HNext]_hvars

-----------------------------------------------------------------------------

\* A granted claim_remediation stays granted: while its owner creates the
\* session, inside its lease and before an unconditional write hits the row,
\* no other remediate_issue_task can claim the issue and no scan can hand
\* its polling to somebody else.
ClaimIsExclusive ==
    LeaseOutlivesCreate /\ creator # NULL =>
        /\ pc[creator] \in CreatorPcs
        /\ ~Claimable(row)
        /\ row.token = NULL /\ row.lease = "live"

\* reattach_closed_pr undoes a detach only on the row as that detach left
\* it: whatever happened to the row in between (a replacement session, its
\* failure, another pull request) is never overwritten, even when the row
\* looks the same again.
ReattachOnlyUntouched ==
    [][\A h \in Handlers :
          pc[h] = "reattach" /\ Moves(h) /\ row' # row => h \notin touched]_hvars

\* From the moment a pull request is recorded on the row until one is
\* recorded anew, all the deliveries of its closure together, concurrent or
\* replayed, publish at most one retry whose publication does not raise: each
\* has to detach the row first, and only a failed publication undoes that.
NoDoubleRequeue == requeues <= 1

=============================================================================
