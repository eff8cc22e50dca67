------------------------- MODULE RemediationProofs -------------------------
(***************************************************************************)
(* Theorems about Remediation for every number of workers, ingesters,      *)
(* webhook deliveries, sessions, tokens and pull requests.                 *)
(***************************************************************************)
EXTENDS RemediationHistory, TLAPS

(***************************************************************************)
(* The statements of TaskRow keep the row well formed.                     *)
(***************************************************************************)
LEMMA NetChangeType ==
    ASSUME NEW r \in Rows, NEW status \in Statuses,
           NEW session \in Sessions \cup {NULL}, NEW pr \in Prs \cup {NULL}
    PROVE  NetChange(r, status, session, pr) \in Writes
BY DEF Rows, Writes, NetChange, Changed, Exists

LEMMA FlushedType ==
    ASSUME NEW r \in Rows, NEW w \in Writes
    PROVE  Flushed(r, w) \in Rows
<1>1. /\ Column(r.status, w.status) \in Statuses \cup {"absent"}
      /\ Column(r.session, w.session) \in Sessions \cup {NULL}
      /\ Column(r.pr, w.pr) \in Prs \cup {NULL, DETACHED}
  BY DEF Rows, Writes, Column
<1>. QED
  BY <1>1 DEF Rows, Flushed

LEMMA DetachReattachType ==
    ASSUME NEW r \in Rows, NEW h \in Handlers, NEW pr \in Prs \cup {NULL}
    PROVE  Detached(r, h) \in Rows /\ Reattached(r, pr) \in Rows
BY DEF Rows, Detached, Reattached, Statuses

LEMMA PollClaimedType ==
    ASSUME NEW r \in Rows, NEW t \in Tokens
    PROVE  PollClaimed(r, t) \in Rows
BY DEF Rows, PollClaimed, Leases

LEMMA ClaimReleaseType ==
    ASSUME NEW r \in Rows, NEW u
    PROVE  /\ Claimed(r) \in Rows
           /\ Renewed(r) \in Rows
           /\ Expired(r) \in Rows
           /\ Released(r, u) \in Rows
<1>1. Claimed(r) \in Rows
  BY DEF Rows, Claimed, Statuses, Leases
<1>2. Renewed(r) \in Rows /\ Expired(r) \in Rows
  BY DEF Rows, Renewed, Expired, Leases
<1>3. Released(r, u) \in Rows
  BY DEF Rows, Released, Leases
<1>. QED
  BY <1>1, <1>2, <1>3

LEMMA NoWriteType == NoWrite \in Writes
BY DEF NoWrite, Writes

LEMMA BlankType == Blank \in Locals
BY NoWriteType DEF Blank, Locals, Statuses

(***************************************************************************)
(* Every action keeps the type invariant.  A step moves one process, so    *)
(* what it gives its program counter and its locals decides.               *)
(***************************************************************************)
USE DEF Step, StepIf, Goto, Set, queues, procs, remote, bounds

LEMMA MoveType ==
    ASSUME TypeOK, NEW p \in Procs, NEW next \in Pcs, Goto(p, next)
    PROVE  pc' \in [Procs -> Pcs]
BY DEF TypeOK

LEMMA SetType ==
    ASSUME TypeOK, NEW p \in Procs, NEW l \in Locals, Set(p, l)
    PROVE  local' \in [Procs -> Locals]
BY DEF TypeOK

LEMMA PcNames ==
    /\ {"idle", "ack", "find", "completed_load", "completed_flush", "claim",
        "create", "record_load", "record_flush", "fail_load", "fail_flush",
        "release_all", "arm"} \subseteq Pcs
    /\ {"ask", "lookup", "poll_load", "poll_flush", "release", "renew",
        "publish", "unpublish", "unpolled", "rearm", "opened_flush",
        "detach", "requeue", "reattach"} \subseteq Pcs
BY DEF Pcs, RemediatePcs, PollPcs, PublishPcs, ScanPcs, HandlerPcs

LEMMA RemediateType ==
    ASSUME TypeOK, NEW w \in Workers,
           \/ \E force \in BOOLEAN : ReceiveRemediation(w, force)
           \/ FindPr(w) \/ Claim(w) \/ CreateSession(w)
    PROVE  TypeOK'
<1>. w \in Procs  BY DEF Procs
<1>. local[w] \in Locals  BY DEF TypeOK
<1>1. ASSUME NEW force \in BOOLEAN, ReceiveRemediation(w, force) PROVE TypeOK'
  <2>1. [Blank EXCEPT !.task = "remediate", !.force = force,
                      !.seen = row.status] \in Locals
    BY BlankType DEF Locals, TypeOK, Rows
  <2>. QED
    BY <1>1, <2>1, MoveType, SetType, PcNames DEF ReceiveRemediation, TypeOK
<1>2. CASE FindPr(w)
  <2>1. \A pr \in Prs \cup {NULL} :
           /\ [local[w] EXCEPT !.seen = "absent"] \in Locals
           /\ [local[w] EXCEPT !.seen = "absent", !.pr = pr] \in Locals
    BY DEF Locals
  <2>. QED
    BY <1>2, <2>1, MoveType, SetType, PcNames DEF FindPr, OpenPrs, TypeOK
<1>3. CASE Claim(w)
  BY <1>3, MoveType, PcNames, ClaimReleaseType DEF Claim, TypeOK
<1>4. CASE CreateSession(w)
  <2>1. \A s \in Sessions : [local[w] EXCEPT !.session = s] \in Locals
    BY DEF Locals
  <2>2. devin' \in [Sessions -> DevinStates]
    BY <1>4 DEF CreateSession, TypeOK, DevinStates
  <2>. QED
    BY <1>4, <2>1, <2>2, MoveType, SetType, PcNames
    DEF CreateSession, FreshSessions, TypeOK
<1>. QED
  BY <1>1, <1>2, <1>3, <1>4

\* upsert only ever changes the pending write of its process.
LEMMA WriteType ==
    ASSUME NEW l \in Locals, NEW w \in Writes
    PROVE  [l EXCEPT !.write = w] \in Locals
BY DEF Locals

LEMMA PrepareType ==
    ASSUME TypeOK, NEW p \in Procs, NEW status \in Statuses,
           NEW session \in Sessions \cup {NULL}, NEW pr \in Prs \cup {NULL},
           Prepare(p, status, session, pr)
    PROVE  local' \in [Procs -> Locals]
<1>1. NetChange(row, status, session, pr) \in Writes
  BY NetChangeType DEF TypeOK
<1>2. [local[p] EXCEPT !.write = NetChange(row, status, session, pr)] \in Locals
  BY <1>1, WriteType DEF TypeOK
<1>. QED
  BY <1>1, <1>2, SetType DEF Prepare

LEMMA CommitType ==
    ASSUME TypeOK, NEW p \in Procs, Commit(p)
    PROVE  row' \in Rows /\ local' \in [Procs -> Locals]
<1>1. local[p].write \in Writes
  BY DEF TypeOK, Locals
<1>2. [local[p] EXCEPT !.write = NoWrite] \in Locals
  BY NoWriteType, WriteType DEF TypeOK
<1>. QED
  BY <1>1, <1>2, FlushedType, SetType DEF Commit, TypeOK

LEMMA FaultType ==
    ASSUME TypeOK, Fault
    PROVE  faults' \in 0..MaxFaults
BY Parameters DEF TypeOK, Fault

LEMMA CountUp ==
    ASSUME NEW S, NEW f \in [S -> Nat], NEW x
    PROVE  [f EXCEPT ![x] = @ + 1] \in [S -> Nat]
<1>1. CASE x \in S
  BY <1>1
<1>2. CASE x \notin S
  <2>1. \A y \in S : y # x
    BY <1>2
  <2>. QED
    BY <2>1, Zenon
<1>. QED
  BY <1>1, <1>2

LEMMA CountDown ==
    ASSUME NEW S, NEW f \in [S -> Nat], NEW x \in S, f[x] > 0
    PROVE  [f EXCEPT ![x] = @ - 1] \in [S -> Nat]
OBVIOUS

LEMMA SendType ==
    ASSUME TypeOK, NEW s, NEW t, Send(s, t)
    PROVE  polls' \in [Sessions \X Tokens -> Nat]
BY CountUp DEF TypeOK, Send

LEMMA UpsertType ==
    ASSUME TypeOK, NEW w \in Workers,
           \/ LoadCompleted(w) \/ FlushCompleted(w)
           \/ LoadRecord(w) \/ FlushRecord(w) \/ RecordRaises(w)
           \/ LoadFailed(w) \/ FlushFailed(w) \/ ReleaseAll(w)
    PROVE  TypeOK'
<1>. w \in Procs  BY DEF Procs
<1>. /\ local[w] \in Locals
     /\ local[w].pr \in Prs \cup {NULL}
     /\ local[w].session \in Sessions \cup {NULL}
     /\ [local[w] EXCEPT !.write = NoWrite] \in Locals
  BY NoWriteType DEF TypeOK, Locals
<1>. {"completed", "running", "failed"} \subseteq Statuses
  BY DEF Statuses
<1>1. CASE LoadCompleted(w)
  BY <1>1, MoveType, PrepareType, PcNames DEF LoadCompleted, TypeOK
<1>2. CASE FlushCompleted(w)
  BY <1>2, MoveType, SetType, CommitType, PcNames DEF FlushCompleted, TypeOK
<1>3. CASE LoadRecord(w)
  BY <1>3, MoveType, PrepareType, PcNames DEF LoadRecord, TypeOK
<1>4. CASE FlushRecord(w)
  BY <1>4, MoveType, CommitType, PcNames DEF FlushRecord, TypeOK
<1>5. CASE RecordRaises(w)
  BY <1>5, MoveType, SetType, CommitType, FaultType, PcNames DEF RecordRaises, TypeOK
<1>6. CASE LoadFailed(w)
  BY <1>6, MoveType, PrepareType, PcNames DEF LoadFailed, TypeOK
<1>7. CASE FlushFailed(w)
  BY <1>7, MoveType, CommitType, PcNames DEF FlushFailed, TypeOK
<1>8. CASE ReleaseAll(w)
  BY <1>8, MoveType, ClaimReleaseType, PcNames DEF ReleaseAll, TypeOK
<1>. QED
  BY <1>1, <1>2, <1>3, <1>4, <1>5, <1>6, <1>7, <1>8

LEMMA PublishType ==
    ASSUME TypeOK, NEW p \in Procs,
           \/ \E at \in {"arm", "rearm"}, onlyIfLost \in BOOLEAN :
                 ArmPoll(p, at, onlyIfLost)
           \/ PublishPoll(p) \/ Unpublish(p) \/ Abort(p)
    PROVE  TypeOK'
<1>. AtEnd(p) \in Locals /\ End(p) \in Pcs
  BY BlankType, PcNames DEF AtEnd, End, TypeOK
<1>1. ASSUME NEW at \in {"arm", "rearm"}, NEW onlyIfLost \in BOOLEAN,
             ArmPoll(p, at, onlyIfLost)
      PROVE  TypeOK'
  <2>1. \A t \in FreshTokens : /\ t \in Tokens
                               /\ [local[p] EXCEPT !.token = t] \in Locals
    BY DEF FreshTokens, TypeOK, Locals
  <2>2. row' \in Rows
    BY <1>1, <2>1, PollClaimedType DEF ArmPoll, TypeOK
  <2>. QED
    BY <1>1, <2>1, <2>2, MoveType, SetType, PcNames DEF ArmPoll, TypeOK
<1>2. CASE PublishPoll(p)
  <2>1. polls' \in [Sessions \X Tokens -> Nat]
    BY <1>2, SendType DEF PublishPoll, TypeOK
  <2>. QED
    BY <1>2, <2>1, MoveType, SetType, FaultType, PcNames DEF PublishPoll, TypeOK
<1>3. CASE Unpublish(p)
  BY <1>3, MoveType, SetType, ClaimReleaseType, PcNames DEF Unpublish, TypeOK
<1>4. CASE Abort(p)
  BY <1>4, MoveType, SetType, BlankType, FaultType, PcNames DEF Abort, TypeOK
<1>. QED
  BY <1>1, <1>2, <1>3, <1>4

LEMMA PollType ==
    ASSUME TypeOK, NEW w \in Workers,
           \/ \E s \in Sessions, t \in Tokens : ReceivePoll(w, s, t)
           \/ AskDevin(w) \/ LookupPr(w) \/ LoadPolled(w) \/ FlushPolled(w)
           \/ ReleaseOwn(w) \/ RenewPoll(w) \/ Ack(w) \/ Redeliver(w)
    PROVE  TypeOK'
<1>. w \in Procs  BY DEF Procs
<1>. local[w] \in Locals  BY DEF TypeOK
<1>1. ASSUME NEW s \in Sessions, NEW t \in Tokens, ReceivePoll(w, s, t)
      PROVE  TypeOK'
  <2>1. [Blank EXCEPT !.task = "poll", !.session = s, !.token = t] \in Locals
    BY BlankType DEF Locals
  <2>2. polls' \in [Sessions \X Tokens -> Nat]
    <3>1. <<s, t>> \in Sessions \X Tokens
      OBVIOUS
    <3>. QED
      BY <1>1, <3>1, CountDown DEF TypeOK, ReceivePoll
  <2>. QED
    BY <1>1, <2>1, <2>2, MoveType, SetType, PcNames DEF ReceivePoll, TypeOK
<1>2. CASE AskDevin(w)
  <2>1. \A pr \in ReportedPrs(local[w].session) :
           [local[w] EXCEPT !.pr = pr,
              !.status = MapDevinStatus(devin[local[w].session])] \in Locals
    BY DEF ReportedPrs, MapDevinStatus, Locals, Statuses
  <2>. QED
    BY <1>2, <2>1, MoveType, SetType, FaultType, PcNames DEF AskDevin, TypeOK
<1>3. CASE LookupPr(w)
  <2>1. \A pr \in OpenPrs \cup {NULL} : [local[w] EXCEPT !.pr = pr] \in Locals
    BY DEF OpenPrs, Locals
  <2>. QED
    BY <1>3, <2>1, MoveType, SetType, PcNames DEF LookupPr, TypeOK
<1>4. CASE LoadPolled(w)
  <2>1. NewStatus(w) \in Statuses
    BY DEF NewStatus, Locals, Statuses
  <2>2. NetChange(row, NewStatus(w), NULL, local[w].pr) \in Writes
    BY <2>1, NetChangeType DEF TypeOK, Locals
  <2>. QED
    BY <1>4, <2>1, <2>2, MoveType, PcNames DEF LoadPolled, TypeOK, Locals
<1>5. CASE FlushPolled(w)
  <2>1. /\ local[w].write \in Writes
        /\ [local[w] EXCEPT !.write = NoWrite, !.status = "running"] \in Locals
    BY NoWriteType DEF Locals, Statuses
  <2>. QED
    BY <1>5, <2>1, MoveType, SetType, FlushedType, PcNames DEF FlushPolled, TypeOK
<1>6. CASE ReleaseOwn(w)
  BY <1>6, MoveType, ClaimReleaseType, PcNames DEF ReleaseOwn, TypeOK
<1>7. CASE RenewPoll(w)
  BY <1>7, MoveType, ClaimReleaseType, PcNames DEF RenewPoll, TypeOK
<1>8. CASE Ack(w)
  BY <1>8, MoveType, SetType, BlankType, PcNames DEF Ack, TypeOK
<1>9. CASE Redeliver(w)
  <2>1. redeliveries' \in 0..MaxRedeliveries
    BY <1>9, Parameters DEF Redeliver, TypeOK
  <2>2. polls' \in [Sessions \X Tokens -> Nat]
    BY <1>9, SendType DEF Redeliver, TypeOK
  <2>3. remediations' \subseteq BOOLEAN
    BY <1>9 DEF Redeliver, TypeOK, Locals
  <2>. QED
    BY <1>9, <2>1, <2>2, <2>3, MoveType, SetType, BlankType, PcNames
    DEF Redeliver, TypeOK
<1>. QED
  BY <1>1, <1>2, <1>3, <1>4, <1>5, <1>6, <1>7, <1>8, <1>9

LEMMA IngestType ==
    ASSUME TypeOK, NEW i \in Ingesters,
           \/ \E force \in BOOLEAN : ScanIssues(i, force)
           \/ GetUnpolled(i)
    PROVE  TypeOK'
<1>. i \in Procs  BY DEF Procs
<1>1. ASSUME NEW force \in BOOLEAN, ScanIssues(i, force) PROVE TypeOK'
  BY <1>1, MoveType, PcNames DEF ScanIssues, TypeOK
<1>2. CASE GetUnpolled(i)
  <2>1. [Blank EXCEPT !.session = row.session] \in Locals
    BY BlankType DEF Locals, TypeOK, Rows
  <2>. QED
    BY <1>2, <2>1, BlankType, MoveType, SetType, PcNames DEF GetUnpolled, TypeOK
<1>. QED
  BY <1>1, <1>2

LEMMA HandlerType ==
    ASSUME TypeOK, NEW h \in Handlers,
           \/ \E pr \in Prs : PullRequestOpened(h, pr) \/ PullRequestClosed(h, pr)
           \/ HandlerStep(h)
    PROVE  TypeOK'
<1>. h \in Procs  BY DEF Procs
<1>. local[h] \in Locals /\ local[h].pr \in Prs \cup {NULL}
  BY DEF TypeOK, Locals
<1>1. ASSUME NEW pr \in Prs, PullRequestOpened(h, pr) PROVE TypeOK'
  <2>1. "completed" \in Statuses
    BY DEF Statuses
  <2>. QED
    BY <1>1, <2>1, MoveType, PrepareType, PcNames DEF PullRequestOpened, TypeOK
<1>2. ASSUME NEW pr \in Prs, PullRequestClosed(h, pr) PROVE TypeOK'
  <2>1. [Blank EXCEPT !.pr = pr] \in Locals
    BY BlankType DEF Locals
  <2>. QED
    BY <1>2, <2>1, MoveType, SetType, PcNames DEF PullRequestClosed, TypeOK
<1>3. CASE FlushOpened(h)
  BY <1>3, MoveType, CommitType, PcNames DEF FlushOpened, TypeOK
<1>4. CASE DetachClosedPr(h)
  <2>1. row' \in Rows
    BY <1>4, DetachReattachType DEF DetachClosedPr, TypeOK
  <2>. QED
    BY <1>4, <2>1, BlankType, MoveType, SetType, PcNames DEF DetachClosedPr, TypeOK
<1>5. CASE Requeue(h)
  BY <1>5, BlankType, MoveType, SetType, FaultType, PcNames DEF Requeue, TypeOK
<1>6. CASE Reattach(h)
  <2>1. row' \in Rows
    BY <1>6, DetachReattachType DEF Reattach, TypeOK
  <2>. QED
    BY <1>6, <2>1, BlankType, MoveType, SetType, PcNames DEF Reattach, TypeOK
<1>. QED
  BY <1>1, <1>2, <1>3, <1>4, <1>5, <1>6 DEF HandlerStep

LEMMA EnvironmentType ==
    ASSUME TypeOK,
           \/ \E pr \in Prs : OpenPr(pr) \/ ClosePr(pr) \/ ReopenPr(pr)
           \/ \E s \in Sessions : DevinMoves(s)
           \/ IssueLabeled \/ IssueEdited \/ ExpireLease
    PROVE  TypeOK'
<1>1. ASSUME NEW pr \in Prs, OpenPr(pr) \/ ClosePr(pr) \/ ReopenPr(pr) PROVE TypeOK'
  BY <1>1 DEF OpenPr, ClosePr, ReopenPr, MovePr, PrStates, TypeOK
<1>2. ASSUME NEW s \in Sessions, DevinMoves(s) PROVE TypeOK'
  BY <1>2, Parameters DEF DevinMoves, DevinStates, TypeOK
<1>3. CASE IssueLabeled
  BY <1>3 DEF IssueLabeled, TypeOK
<1>4. CASE IssueEdited
  BY <1>4, NoWriteType, FlushedType DEF IssueEdited, TypeOK
<1>5. CASE ExpireLease
  BY <1>5, ClaimReleaseType DEF ExpireLease, TypeOK
<1>. QED
  BY <1>1, <1>2, <1>3, <1>4, <1>5

LEMMA TypeStep == TypeOK /\ [Next]_vars => TypeOK'
<1>. SUFFICES ASSUME TypeOK, [Next]_vars PROVE TypeOK'
  OBVIOUS
<1>1. ASSUME NEW w \in Workers, WorkerStep(w) PROVE TypeOK'
  <2>. w \in Procs  BY DEF Procs
  <2>1. CASE Arm(w)
    BY <2>1, PublishType DEF Arm
  <2>. QED
    BY <1>1, <2>1, RemediateType, UpsertType, PublishType, PollType DEF WorkerStep
<1>2. ASSUME NEW i \in Ingesters, IngesterStep(i) PROVE TypeOK'
  <2>. i \in Procs  BY DEF Procs
  <2>1. CASE Rearm(i)
    BY <2>1, PublishType DEF Rearm
  <2>. QED
    BY <1>2, <2>1, IngestType, PublishType DEF IngesterStep
<1>3. CASE UNCHANGED vars
  BY <1>3 DEF vars, TypeOK
<1>. QED
  BY <1>1, <1>2, <1>3, RemediateType, UpsertType, PollType, IngestType,
     HandlerType, PublishType, EnvironmentType DEF Next

LEMMA TypeInit == Init => TypeOK
<1>. SUFFICES ASSUME Init PROVE TypeOK
  OBVIOUS
<1>1. AbsentRow \in Rows
  BY DEF AbsentRow, Rows, Leases
<1>2. "unused" \in DevinStates /\ "none" \in PrStates
  BY DEF DevinStates, PrStates
<1>. QED
  BY <1>1, <1>2, BlankType, PcNames, Parameters DEF Init, TypeOK

\* Whatever the order of tasks, webhooks, scans and failures, the row only
\* ever holds values of its columns, queue entries are only consumed when
\* queued, and every process is at a statement of its handler.
THEOREM TypeCorrect == Spec => []TypeOK
<1>. QED
  BY TypeInit, TypeStep, PTL DEF Spec

=============================================================================
