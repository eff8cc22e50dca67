---------------------------- MODULE Remediation ----------------------------
(***************************************************************************)
(* One labelled GitHub issue and everything that races over its task row:  *)
(*   - Workers run remediate_issue_task (process_issue) and                *)
(*     poll_session_task (poll_session_once, continue_poll);               *)
(*   - Ingesters run scan_task (scan_and_process);                         *)
(*   - Handlers serve pull_request webhooks (_handle_pull_request).        *)
(* A process is cut at every database statement, broker call and HTTP call *)
(* that can interleave with another process: pc names the next one.  The   *)
(* rows of other issues are never read or written on these paths, so one   *)
(* issue is enough, and it stays open and labelled.                        *)
(***************************************************************************)
EXTENDS Integers, TaskRow

CONSTANTS
    Workers,            \* devin-worker slots
    Ingesters,          \* ingest-worker slots
    PrAuthor,           \* [Prs -> Sessions \cup {NULL}], NULL: a human
    DevinOutcomes,      \* how a session may stop working
    LeaseOutlivesCreate,\* creation finishes within CREATE_LEASE_SECONDS
    LeaseOutlivesHop,   \* a scheduled poll runs within its lease
    MaxFaults,          \* bound on failed calls and lost processes
    MaxRedeliveries     \* bound on tasks delivered again (acks_late)

Procs == Workers \cup Ingesters \cup Handlers

ASSUME ProcessesAreDistinct ==
    /\ Workers \cap Ingesters = {}
    /\ Workers \cap Handlers = {}
    /\ Ingesters \cap Handlers = {}
    /\ NULL \notin Procs

ASSUME Parameters ==
    /\ PrAuthor \in [Prs -> Sessions \cup {NULL}]
    /\ DevinOutcomes \subseteq {"finished", "error", "suspended"}
    /\ LeaseOutlivesCreate \in BOOLEAN
    /\ LeaseOutlivesHop \in BOOLEAN
    /\ MaxFaults \in Nat
    /\ MaxRedeliveries \in Nat

VARIABLES
    row,            \* the issue's task row
    remediations,   \* queued remediate_issue_tasks, by their force_retry
    polls,          \* queued poll_session_tasks, counted by argument
    pc,             \* next statement or call of each process
    local,          \* local variables of each process
    prs,            \* pull requests that reference the issue, on GitHub
    devin,          \* Devin sessions, on the Devin API
    faults,         \* failures so far
    redeliveries    \* redeliveries so far

queues == <<remediations, polls>>
procs  == <<pc, local>>
remote == <<prs, devin>>
bounds == <<faults, redeliveries>>
vars   == <<row, remediations, polls, pc, local, prs, devin,
            faults, redeliveries>>

RemediatePcs == {"find", "completed_load", "completed_flush", "claim",
                 "create", "record_load", "record_flush", "fail_load",
                 "fail_flush", "release_all", "arm"}
PollPcs      == {"ask", "lookup", "poll_load", "poll_flush", "release",
                 "renew"}
PublishPcs   == {"publish", "unpublish"}
ScanPcs      == {"unpolled", "rearm"}
HandlerPcs   == {"opened_flush", "detach", "requeue", "reattach"}

Pcs == {"idle", "ack"} \cup RemediatePcs \cup PollPcs \cup PublishPcs
           \cup ScanPcs \cup HandlerPcs

\* Between a granted claim and the row that records how it ended.
CreatorPcs == {"create", "record_load", "record_flush", "fail_load",
               "fail_flush"}

PrStates    == {"none", "open", "closed", "reopened"}
DevinStates == {"unused", "working", "finished", "error", "suspended"}

Locals == [task    : {"none", "remediate", "poll"},
           force   : BOOLEAN,
           seen    : Statuses \cup {"absent"},
           status  : Statuses,
           pr      : Prs \cup {NULL},
           session : Sessions \cup {NULL},
           token   : Tokens \cup {NULL},
           write   : Writes]

Blank == [task |-> "none", force |-> FALSE, seen |-> "absent",
          status |-> "running", pr |-> NULL, session |-> NULL,
          token |-> NULL, write |-> NoWrite]

\* Every variable keeps to the values the code can store in it: three
\* statuses, counted queue entries, one control point per process.
TypeOK ==
    /\ row \in Rows
    /\ remediations \subseteq BOOLEAN
    /\ polls \in [Sessions \X Tokens -> Nat]
    /\ pc \in [Procs -> Pcs]
    /\ local \in [Procs -> Locals]
    /\ prs \in [Prs -> PrStates]
    /\ devin \in [Sessions -> DevinStates]
    /\ faults \in 0..MaxFaults
    /\ redeliveries \in 0..MaxRedeliveries

\* A poll token is never left on a row without a session to poll or without
\* a lease that a scan can find expired: claiming, arming, releasing and
\* re-arming, in any order, keep the three columns together.
TokenHasLease ==
    row.token # NULL => row.session # NULL /\ row.lease # "none"

Init ==
    /\ row = AbsentRow
    /\ remediations = {}
    /\ polls = [m \in Sessions \X Tokens |-> 0]
    /\ pc = [p \in Procs |-> "idle"]
    /\ local = [p \in Procs |-> Blank]
    /\ prs = [pr \in Prs |-> "none"]
    /\ devin = [s \in Sessions |-> "unused"]
    /\ faults = 0
    /\ redeliveries = 0

(***************************************************************************)
(* Steps of a process.                                                     *)
(***************************************************************************)
Goto(p, next)      == pc' = [pc EXCEPT ![p] = next]
Set(p, locals)     == local' = [local EXCEPT ![p] = locals]
Step(p, at, next)  == pc[p] = at /\ Goto(p, next)
StepIf(p, at, test, yes, no) == Step(p, at, IF test THEN yes ELSE no)

\* A worker acknowledges its message only after the task has returned.
End(p)   == IF p \in Workers THEN "ack" ELSE "idle"
AtEnd(p) == IF p \in Workers THEN local[p] ELSE Blank

Prepare(p, status, session, pr) ==
    Set(p, [local[p] EXCEPT !.write = NetChange(row, status, session, pr)])

Commit(p) ==
    /\ row' = Flushed(row, local[p].write)
    /\ Set(p, [local[p] EXCEPT !.write = NoWrite])

Fault == faults < MaxFaults /\ faults' = faults + 1

Send(session, token) ==
    polls' = [polls EXCEPT ![<<session, token>>] = @ + 1]

OpenPrs == {pr \in Prs : prs[pr] \in {"open", "reopened"}}

FreshSessions == {s \in Sessions : devin[s] = "unused"}

\* secrets.token_hex never repeats; a token nobody holds may be reused here.
FreshTokens ==
    {t \in Tokens :
        /\ row.token # t
        /\ \A s \in Sessions : polls[<<s, t>>] = 0
        /\ \A p \in Procs : local[p].token # t}

(***************************************************************************)
(* process_issue.  The task's first read (get_status) comes with its       *)
(* receipt: no step of the task is before it.                              *)
(***************************************************************************)
ReceiveRemediation(w, force) ==
    /\ force \in remediations
    /\ remediations' = remediations \ {force}
    /\ Step(w, "idle", "find")
    /\ Set(w, [Blank EXCEPT !.task = "remediate", !.force = force,
                            !.seen = row.status])
    /\ UNCHANGED <<row, polls, remote, bounds>>

MaySkip(w) == local[w].seen = "failed" /\ ~local[w].force

FindPr(w) ==
    /\ pc[w] = "find"
    /\ IF OpenPrs = {}
       THEN /\ Goto(w, IF MaySkip(w) THEN "ack" ELSE "claim")
            /\ Set(w, [local[w] EXCEPT !.seen = "absent"])
       ELSE \E pr \in OpenPrs :
            /\ Goto(w, "completed_load")
            /\ Set(w, [local[w] EXCEPT !.seen = "absent", !.pr = pr])
    /\ UNCHANGED <<row, queues, remote, bounds>>

LoadCompleted(w) ==
    /\ Step(w, "completed_load", "completed_flush")
    /\ Prepare(w, "completed", NULL, local[w].pr)
    /\ UNCHANGED <<row, queues, remote, bounds>>

\* A first writer that finds another's row fails on the key: the task ends.
FlushCompleted(w) ==
    /\ Step(w, "completed_flush", "ack")
    /\ IF KeyConflict(row, local[w].write)
       THEN row' = row /\ Set(w, [local[w] EXCEPT !.write = NoWrite])
       ELSE Commit(w)
    /\ UNCHANGED <<queues, remote, bounds>>

Claim(w) ==
    /\ StepIf(w, "claim", Claimable(row), "create", "ack")
    /\ row' = IF Claimable(row) THEN Claimed(row) ELSE row
    /\ UNCHANGED <<queues, local, remote, bounds>>

\* create_session fails with or without a session left on Devin's side (a
\* timed-out POST, or an answer without a session id).
CreateSession(w) ==
    /\ pc[w] = "create"
    /\ \/ \E s \in FreshSessions :
            /\ devin' = [devin EXCEPT ![s] = "working"]
            /\ \/ /\ Goto(w, "record_load")
                  /\ Set(w, [local[w] EXCEPT !.session = s])
               \/ Goto(w, "fail_load") /\ UNCHANGED local
       \/ Goto(w, "fail_load") /\ UNCHANGED <<local, devin>>
    /\ UNCHANGED <<row, queues, prs, bounds>>

LoadRecord(w) ==
    /\ Step(w, "record_load", "record_flush")
    /\ Prepare(w, "running", local[w].session, NULL)
    /\ UNCHANGED <<row, queues, remote, bounds>>

\* A failing post_comment is logged and changes nothing.
FlushRecord(w) ==
    /\ Step(w, "record_flush", "arm")
    /\ Commit(w)
    /\ UNCHANGED <<queues, remote, bounds>>

\* The upsert raises, before its commit or on the way back from it.
RecordRaises(w) ==
    /\ pc[w] \in {"record_load", "record_flush"}
    /\ Goto(w, "fail_load")
    /\ \/ row' = row /\ Set(w, [local[w] EXCEPT !.write = NoWrite])
       \/ pc[w] = "record_flush" /\ Commit(w)
    /\ Fault
    /\ UNCHANGED <<queues, remote, redeliveries>>

LoadFailed(w) ==
    /\ Step(w, "fail_load", "fail_flush")
    /\ Prepare(w, "failed", NULL, NULL)
    /\ UNCHANGED <<row, queues, remote, bounds>>

FlushFailed(w) ==
    /\ Step(w, "fail_flush", "release_all")
    /\ Commit(w)
    /\ UNCHANGED <<queues, remote, bounds>>

ReleaseAll(w) ==
    /\ Step(w, "release_all", "ack")
    /\ row' = Released(row, NULL)
    /\ UNCHANGED <<queues, local, remote, bounds>>

(***************************************************************************)
(* arm_poll, by the creator (any lease) or by a scan (a lost lease only),  *)
(* and _publish_poll.  A publication that raises may have reached the      *)
(* broker all the same.                                                    *)
(***************************************************************************)
ArmPoll(p, at, onlyIfLost) ==
    LET session == local[p].session IN
    /\ pc[p] = at
    /\ IF PollGrantable(row, session, onlyIfLost)
       THEN \E t \in FreshTokens :
            /\ row' = PollClaimed(row, t)
            /\ Goto(p, "publish")
            /\ Set(p, [local[p] EXCEPT !.token = t])
       ELSE row' = row /\ Goto(p, End(p)) /\ Set(p, AtEnd(p))
    /\ UNCHANGED <<queues, remote, bounds>>

Arm(w)   == ArmPoll(w, "arm", FALSE)

Rearm(i) == ArmPoll(i, "rearm", TRUE)

\* Mutant: a publication that raised is tried again instead of given up.
PublishPollRetrying(p) ==
    /\ pc[p] = "publish"
    /\ \/ /\ Send(local[p].session, local[p].token)
          /\ Goto(p, End(p))
          /\ Set(p, AtEnd(p))
          /\ UNCHANGED faults
       \/ /\ Send(local[p].session, local[p].token)
          /\ Fault
          /\ UNCHANGED procs
    /\ UNCHANGED <<row, remediations, remote, redeliveries>>

PublishPoll(p) ==
    /\ pc[p] = "publish"
    /\ \/ /\ Send(local[p].session, local[p].token)
          /\ Goto(p, End(p))
          /\ Set(p, AtEnd(p))
          /\ UNCHANGED faults
       \/ /\ \/ Send(local[p].session, local[p].token)
             \/ UNCHANGED polls
          /\ Goto(p, "unpublish")
          /\ Fault
          /\ UNCHANGED local
    /\ UNCHANGED <<row, remediations, remote, redeliveries>>

Unpublish(p) ==
    /\ Step(p, "unpublish", End(p))
    /\ row' = Released(row, local[p].token)
    /\ Set(p, AtEnd(p))
    /\ UNCHANGED <<queues, remote, bounds>>

(***************************************************************************)
(* poll_session_task.  Its first read comes with its receipt; a superseded *)
(* poll returns at once.                                                   *)
(***************************************************************************)
OwnsPolling(r, session, token) ==
    /\ r.status = "running"
    /\ r.session = session
    /\ r.token = token

ReceivePoll(w, session, token) ==
    /\ polls[<<session, token>>] > 0
    /\ polls' = [polls EXCEPT ![<<session, token>>] = @ - 1]
    /\ StepIf(w, "idle", OwnsPolling(row, session, token), "ask", "ack")
    /\ Set(w, [Blank EXCEPT !.task = "poll", !.session = session,
                            !.token = token])
    /\ UNCHANGED <<row, remediations, remote, bounds>>

\* Mutant: a status the service does not know is stored as it is.
MapDevinStatusByName(state) ==
    CASE state = "finished" -> "completed"
      [] state = "error" -> "failed"
      [] state = "working" -> "running"
      [] OTHER -> state

\* map_devin_status; "finished" is both exit and running/finished.
MapDevinStatus(state) ==
    CASE state = "finished" -> "completed"
      [] state \in {"error", "suspended"} -> "failed"
      [] OTHER -> "running"

ReportedPrs(session) ==
    {pr \in Prs : PrAuthor[pr] = session /\ prs[pr] # "none"} \cup {NULL}

AskDevin(w) ==
    /\ pc[w] = "ask"
    /\ \/ Goto(w, "renew") /\ UNCHANGED local /\ Fault
       \/ /\ \E pr \in ReportedPrs(local[w].session) :
               /\ Goto(w, IF pr = NULL THEN "lookup" ELSE "poll_load")
               /\ Set(w, [local[w] EXCEPT !.pr = pr,
                            !.status = MapDevinStatus(devin[local[w].session])])
          /\ UNCHANGED faults
    /\ UNCHANGED <<row, queues, remote, redeliveries>>

\* A failing find_existing_pr leaves pr_url as it was: None.
LookupPr(w) ==
    /\ Step(w, "lookup", "poll_load")
    /\ \E pr \in OpenPrs \cup {NULL} : Set(w, [local[w] EXCEPT !.pr = pr])
    /\ UNCHANGED <<row, queues, remote, bounds>>

NewStatus(w) ==
    IF local[w].pr # NULL /\ local[w].status = "running"
    THEN "completed"
    ELSE local[w].status

LoadPolled(w) ==
    /\ Step(w, "poll_load", "poll_flush")
    /\ Set(w, [local[w] EXCEPT
                 !.status = NewStatus(w), !.pr = NULL,
                 !.write  = NetChange(row, NewStatus(w), NULL, local[w].pr)])
    /\ UNCHANGED <<row, queues, remote, bounds>>

\* Mutant: a poll that changes nothing does not schedule the next one.
FlushPolledOnlyNews(w) ==
    /\ pc[w] = "poll_flush"
    /\ Goto(w, IF local[w].status # "running" THEN "release"
               ELSE IF local[w].write = NoWrite THEN "ack" ELSE "renew")
    /\ row' = Flushed(row, local[w].write)
    /\ Set(w, [local[w] EXCEPT !.write = NoWrite, !.status = "running"])
    /\ UNCHANGED <<queues, remote, bounds>>

FlushPolled(w) ==
    /\ StepIf(w, "poll_flush", local[w].status = "running", "renew", "release")
    /\ row' = Flushed(row, local[w].write)
    /\ Set(w, [local[w] EXCEPT !.write = NoWrite, !.status = "running"])
    /\ UNCHANGED <<queues, remote, bounds>>

ReleaseOwn(w) ==
    /\ Step(w, "release", "ack")
    /\ row' = Released(row, local[w].token)
    /\ UNCHANGED <<queues, local, remote, bounds>>

RenewPoll(w) ==
    /\ StepIf(w, "renew", Renewable(row, local[w].token), "publish", "ack")
    /\ row' = IF Renewable(row, local[w].token) THEN Renewed(row) ELSE row
    /\ UNCHANGED <<queues, local, remote, bounds>>

Ack(w) ==
    /\ Step(w, "ack", "idle")
    /\ Set(w, Blank)
    /\ UNCHANGED <<row, queues, remote, bounds>>

(***************************************************************************)
(* scan_and_process, and the issues webhook: both only enqueue.            *)
(***************************************************************************)
ScanIssues(i, force) ==
    /\ Step(i, "idle", "unpolled")
    /\ remediations' = remediations \cup {force}
    /\ UNCHANGED <<row, polls, local, remote, bounds>>

GetUnpolled(i) ==
    /\ StepIf(i, "unpolled", Unpolled(row), "rearm", "idle")
    /\ Set(i, IF Unpolled(row)
              THEN [Blank EXCEPT !.session = row.session]
              ELSE Blank)
    /\ UNCHANGED <<row, queues, remote, bounds>>

IssueLabeled ==
    /\ remediations' = remediations \cup {FALSE}
    /\ UNCHANGED <<row, polls, procs, remote, bounds>>

\* Title and URL are not modelled; updated_at is.
IssueEdited ==
    /\ Exists(row)
    /\ row' = Flushed(row, NoWrite)
    /\ UNCHANGED <<queues, procs, remote, bounds>>

(***************************************************************************)
(* _handle_pull_request.  GitHub may deliver an event late, twice or never,*)
(* so an event is deliverable from the moment its cause has happened.      *)
(***************************************************************************)
PullRequestOpened(h, pr) ==
    /\ prs[pr] # "none"
    /\ Exists(row)
    /\ Step(h, "idle", "opened_flush")
    /\ Prepare(h, "completed", NULL, pr)
    /\ UNCHANGED <<row, queues, remote, bounds>>

FlushOpened(h) ==
    /\ Step(h, "opened_flush", "idle")
    /\ Commit(h)
    /\ UNCHANGED <<queues, remote, bounds>>

\* The listing of linked rows, and the issue fetched as open and labelled.
PullRequestClosed(h, pr) ==
    /\ prs[pr] \in {"closed", "reopened"}
    /\ row.pr = pr
    /\ row.status # "running"
    /\ Step(h, "idle", "detach")
    /\ Set(h, [Blank EXCEPT !.pr = pr])
    /\ UNCHANGED <<row, queues, remote, bounds>>

DetachClosedPr(h) ==
    LET pr == local[h].pr IN
    /\ StepIf(h, "detach", Detachable(row, pr), "requeue", "idle")
    /\ row' = IF Detachable(row, pr) THEN Detached(row, h) ELSE row
    /\ Set(h, IF Detachable(row, pr) THEN local[h] ELSE Blank)
    /\ UNCHANGED <<queues, remote, bounds>>

Requeue(h) ==
    /\ pc[h] = "requeue"
    /\ \/ /\ remediations' = remediations \cup {TRUE}
          /\ Goto(h, "idle")
          /\ Set(h, Blank)
          /\ UNCHANGED faults
       \/ /\ \/ UNCHANGED remediations
             \/ remediations' = remediations \cup {TRUE}
          /\ Goto(h, "reattach")
          /\ Fault
          /\ UNCHANGED local
    /\ UNCHANGED <<row, polls, remote, redeliveries>>

Reattach(h) ==
    /\ Step(h, "reattach", "idle")
    /\ row' = IF Reattachable(row, h) THEN Reattached(row, local[h].pr) ELSE row
    /\ Set(h, Blank)
    /\ UNCHANGED <<queues, remote, bounds>>

(***************************************************************************)
(* Failures.  A task that raises, exceeds a time limit or loses its worker *)
(* process is acknowledged and gone (no task_reject_on_worker_lost); a     *)
(* worker host that dies leaves its message unacknowledged.                *)
(***************************************************************************)
Abort(p) ==
    /\ pc[p] \notin {"idle", "ack"}
    /\ Goto(p, "idle")
    /\ Set(p, Blank)
    /\ Fault
    /\ UNCHANGED <<row, queues, remote, redeliveries>>

Redeliver(w) ==
    /\ pc[w] # "idle"
    /\ redeliveries < MaxRedeliveries
    /\ redeliveries' = redeliveries + 1
    /\ Goto(w, "idle")
    /\ Set(w, Blank)
    /\ IF local[w].task = "poll"
       THEN /\ Send(local[w].session, local[w].token)
            /\ UNCHANGED remediations
       ELSE /\ remediations' = remediations \cup {local[w].force}
            /\ UNCHANGED polls
    /\ UNCHANGED <<row, remote, faults>>

(***************************************************************************)
(* The environment: time, GitHub users and Devin.                          *)
(***************************************************************************)
Creating == \E w \in Workers : pc[w] \in CreatorPcs

\* Somebody is about to poll, or to schedule a poll, for the row's owner.
OwnerAlive ==
    \/ \E s \in Sessions : \E t \in Tokens : row.token = t /\ polls[<<s, t>>] > 0
    \/ \E p \in Procs : pc[p] \notin {"idle", "ack"} /\ local[p].token # NULL
                        /\ local[p].token = row.token
    \/ \E w \in Workers : pc[w] \in {"arm"} /\ local[w].session = row.session

ExpireLease ==
    /\ row.lease = "live"
    /\ LeaseOutlivesCreate => ~Creating
    /\ LeaseOutlivesHop => ~OwnerAlive
    /\ row' = Expired(row)
    /\ UNCHANGED <<queues, procs, remote, bounds>>

MovePr(pr, from, to) ==
    /\ prs[pr] \in from
    /\ prs' = [prs EXCEPT ![pr] = to]
    /\ UNCHANGED <<row, queues, procs, devin, bounds>>

OpenPr(pr) ==
    /\ PrAuthor[pr] # NULL => devin[PrAuthor[pr]] = "working"
    /\ MovePr(pr, {"none"}, "open")

ClosePr(pr)  == MovePr(pr, {"open", "reopened"}, "closed")

ReopenPr(pr) == MovePr(pr, {"closed"}, "reopened")

DevinMoves(s) ==
    /\ \/ /\ devin[s] = "working"
          /\ \E to \in DevinOutcomes :
                devin' = [devin EXCEPT ![s] = to]
       \/ /\ devin[s] = "suspended"
          /\ devin' = [devin EXCEPT ![s] = "working"]
    /\ UNCHANGED <<row, queues, procs, prs, bounds>>

WorkerStep(w) ==
    \/ FindPr(w) \/ LoadCompleted(w) \/ FlushCompleted(w) \/ Claim(w)
    \/ CreateSession(w) \/ LoadRecord(w) \/ FlushRecord(w)
    \/ LoadFailed(w) \/ FlushFailed(w) \/ ReleaseAll(w) \/ Arm(w)
    \/ PublishPoll(w) \/ Unpublish(w)
    \/ AskDevin(w) \/ LookupPr(w) \/ LoadPolled(w) \/ FlushPolled(w)
    \/ ReleaseOwn(w) \/ RenewPoll(w) \/ Ack(w)

IngesterStep(i) == GetUnpolled(i) \/ Rearm(i) \/ PublishPoll(i) \/ Unpublish(i)

HandlerStep(h) == FlushOpened(h) \/ DetachClosedPr(h) \/ Requeue(h) \/ Reattach(h)

Next ==
    \/ \E w \in Workers :
        \/ \E force \in BOOLEAN : ReceiveRemediation(w, force)
        \/ \E s \in Sessions, t \in Tokens : ReceivePoll(w, s, t)
        \/ WorkerStep(w)
        \/ RecordRaises(w)
        \/ Redeliver(w)
    \/ \E i \in Ingesters :
        \/ \E force \in BOOLEAN : ScanIssues(i, force)
        \/ IngesterStep(i)
    \/ \E h \in Handlers :
        \/ \E pr \in Prs : PullRequestOpened(h, pr) \/ PullRequestClosed(h, pr)
        \/ HandlerStep(h)
    \/ \E p \in Procs : Abort(p)
    \/ \E pr \in Prs : OpenPr(pr) \/ ClosePr(pr) \/ ReopenPr(pr)
    \/ \E s \in Sessions : DevinMoves(s)
    \/ IssueLabeled
    \/ IssueEdited
    \/ ExpireLease

Spec == Init /\ [][Next]_vars

(***************************************************************************)
(* Fairness.  Workers run what they have taken (Celery's time limits end a *)
(* task that hangs) and take every queued message in the end: the queue is *)
(* first in, first out, but other messages may come between, hence SF.     *)
(* Beat runs the reconciliation scan forever and clocks do not stop.       *)
(* Nothing is assumed of the webhook handlers, which no time limit bounds, *)
(* nor of GitHub, of Devin, of users or of failures.                       *)
(***************************************************************************)
Fairness ==
    /\ \A w \in Workers : WF_vars(WorkerStep(w))
    /\ \A i \in Ingesters : WF_vars(ScanIssues(i, FALSE)) /\ WF_vars(IngesterStep(i))
    /\ \A force \in BOOLEAN :
          SF_vars(\E w \in Workers : ReceiveRemediation(w, force))
    /\ \A s \in Sessions, t \in Tokens :
          SF_vars(\E w \in Workers : ReceivePoll(w, s, t))
    /\ WF_vars(ExpireLease)

FairSpec == Spec /\ Fairness

=============================================================================
