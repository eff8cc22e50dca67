---------------------------- MODULE ClaimProofs ----------------------------
(***************************************************************************)
(* A granted claim is exclusive, and a poll token always has a session and *)
(* a lease; what a webhook compensates for is still what it detached: the  *)
(* invariants of RemediationHistory, for every number of processes,        *)
(* sessions and tokens.                                                    *)
(*                                                                         *)
(* The first two are not inductive.  They rest on what the local variables *)
(* of a process hold at each of its statements (ProcessOK), on a created   *)
(* session belonging to one creator (SessionsOwned), and on what the row   *)
(* shows of the claim being redeemed (ClaimHeld).                          *)
(***************************************************************************)
EXTENDS RemediationProofs

SessionKnownPcs == {"record_load", "record_flush", "arm", "rearm"}
                       \cup PollPcs \cup PublishPcs

TokenKnownPcs   == PollPcs \cup PublishPcs

BeforeSession   == {"find", "completed_load", "completed_flush", "claim", "create"}

OwnerPcs        == {"record_load", "record_flush", "fail_load", "fail_flush", "arm"}

\* What a process holds when its next statement is `at'.
ProcessOK(at, l) ==
    /\ at \in SessionKnownPcs => l.session # NULL
    /\ at \in TokenKnownPcs => l.token # NULL
    /\ at \in BeforeSession => l.session = NULL
    /\ at = "record_flush" => /\ l.write.status \in {NULL, "running"}
                              /\ l.write.session \in {NULL, l.session}
    /\ at = "detach" => l.pr \in Prs

LocalInv == \A p \in Procs : ProcessOK(pc[p], local[p])

\* The worker that created a session and has not yet armed its polling.
Owns(at, l) == at \in OwnerPcs /\ l.session # NULL

SessionsOwned ==
    /\ \A p \in Procs :
          Owns(pc[p], local[p]) => devin[local[p].session] # "unused"
    /\ \A p, q \in Procs :
          Owns(pc[p], local[p]) /\ Owns(pc[q], local[q]) /\ p # q
              => local[p].session # local[q].session

USE DEF Step, StepIf, Goto, Set, queues, procs, remote, bounds

LEMMA LocalMove ==
    ASSUME TypeOK, LocalInv, NEW p \in Procs, NEW next, NEW l,
           Goto(p, next), Set(p, l), ProcessOK(next, l)
    PROVE  LocalInv'
BY DEF TypeOK, LocalInv

LEMMA LocalStay ==
    ASSUME TypeOK, LocalInv, NEW p \in Procs, NEW next,
           Goto(p, next), UNCHANGED local, ProcessOK(next, local[p])
    PROVE  LocalInv'
BY DEF TypeOK, LocalInv

\* Where nothing is asked of a process.
LEMMA RestingOK ==
    ASSUME NEW at \in {"idle", "ack", "fail_load", "fail_flush", "release_all",
                       "unpolled", "opened_flush", "detach", "requeue", "reattach"},
           NEW l, at = "detach" => l.pr \in Prs
    PROVE  ProcessOK(at, l)
BY DEF ProcessOK, SessionKnownPcs, TokenKnownPcs, BeforeSession, PollPcs, PublishPcs

USE DEF SessionKnownPcs, TokenKnownPcs, BeforeSession, PollPcs, PublishPcs

LEMMA RemediateLocal ==
    ASSUME TypeOK, LocalInv, NEW w \in Workers,
           \/ \E force \in BOOLEAN : ReceiveRemediation(w, force)
           \/ FindPr(w) \/ LoadCompleted(w) \/ FlushCompleted(w) \/ Claim(w)
           \/ CreateSession(w)
    PROVE  LocalInv'
<1>. w \in Procs  BY DEF Procs
<1>. ProcessOK(pc[w], local[w]) /\ local[w] \in Locals
  BY DEF LocalInv, TypeOK
<1>1. ASSUME NEW force \in BOOLEAN, ReceiveRemediation(w, force) PROVE LocalInv'
  <2>1. ProcessOK("find", [Blank EXCEPT !.task = "remediate", !.force = force,
                                        !.seen = row.status])
    BY DEF ProcessOK, Blank
  <2>. QED
    BY <1>1, <2>1, LocalMove DEF ReceiveRemediation
<1>2. CASE FindPr(w)
  <2>1. /\ local[w].session = NULL
        /\ [local[w] EXCEPT !.seen = "absent"].session = NULL
        /\ \A pr : [local[w] EXCEPT !.seen = "absent", !.pr = pr].session = NULL
    BY <1>2 DEF FindPr, ProcessOK, Locals
  <2>2. \A at \in {"claim", "completed_load"} : \A l : l.session = NULL => ProcessOK(at, l)
    BY DEF ProcessOK
  <2>3. CASE OpenPrs = {}
    <3>. DEFINE next == IF MaySkip(w) THEN "ack" ELSE "claim"
                l == [local[w] EXCEPT !.seen = "absent"]
    <3>1. ProcessOK(next, l)
      BY <2>1, <2>2, RestingOK
    <3>2. Goto(w, next) /\ Set(w, l)
      BY <1>2, <2>3 DEF FindPr
    <3>. QED
      BY <3>1, <3>2, LocalMove
  <2>4. CASE OpenPrs # {}
    <3>1. PICK pr \in OpenPrs : /\ Goto(w, "completed_load")
                               /\ Set(w, [local[w] EXCEPT !.seen = "absent", !.pr = pr])
      BY <1>2, <2>4 DEF FindPr
    <3>. QED
      BY <2>1, <2>2, <3>1, LocalMove
  <2>. QED
    BY <2>3, <2>4
<1>3. CASE LoadCompleted(w)
  <2>. DEFINE l == [local[w] EXCEPT !.write = NetChange(row, "completed", NULL, local[w].pr)]
  <2>1. l.session = NULL
    BY <1>3 DEF LoadCompleted, ProcessOK, Locals
  <2>2. ProcessOK("completed_flush", l)
    BY <2>1 DEF ProcessOK
  <2>. QED
    BY <1>3, <2>2, LocalMove DEF LoadCompleted, Prepare
<1>4. CASE FlushCompleted(w)
  <2>1. Goto(w, "ack") /\ Set(w, [local[w] EXCEPT !.write = NoWrite])
    BY <1>4 DEF FlushCompleted, Commit
  <2>. QED
    BY <2>1, RestingOK, LocalMove
<1>5. CASE Claim(w)
  BY <1>5, RestingOK, LocalStay DEF Claim, ProcessOK
<1>6. CASE CreateSession(w)
  <2>1. \A s \in Sessions : [local[w] EXCEPT !.session = s].session = s
    BY DEF Locals
  <2>2. \A s \in Sessions : ProcessOK("record_load", [local[w] EXCEPT !.session = s])
    BY <2>1, NullIsNoValue DEF ProcessOK
  <2>3. CASE Goto(w, "fail_load") /\ UNCHANGED local
    BY <2>3, RestingOK, LocalStay
  <2>4. ASSUME NEW s \in Sessions, Goto(w, "record_load"),
               Set(w, [local[w] EXCEPT !.session = s])
        PROVE  LocalInv'
    BY <2>2, <2>4, LocalMove
  <2>. QED
    BY <1>6, <2>3, <2>4 DEF CreateSession, FreshSessions
<1>. QED
  BY <1>1, <1>2, <1>3, <1>4, <1>5, <1>6

LEMMA RecordLocal ==
    ASSUME TypeOK, LocalInv, NEW w \in Workers,
           \/ LoadRecord(w) \/ FlushRecord(w) \/ RecordRaises(w)
           \/ LoadFailed(w) \/ FlushFailed(w) \/ ReleaseAll(w)
    PROVE  LocalInv'
<1>. w \in Procs  BY DEF Procs
<1>. ProcessOK(pc[w], local[w]) /\ local[w] \in Locals
  BY DEF LocalInv, TypeOK
<1>1. CASE LoadRecord(w)
  <2>. DEFINE change == NetChange(row, "running", local[w].session, NULL)
              l == [local[w] EXCEPT !.write = change]
  <2>1. /\ change.status \in {NULL, "running"}
        /\ change.session \in {NULL, local[w].session}
    BY DEF NetChange, Changed
  <2>2. l.session = local[w].session /\ l.write = change
    BY DEF Locals
  <2>3. local[w].session # NULL
    BY <1>1 DEF LoadRecord, ProcessOK
  <2>4. ProcessOK("record_flush", l)
    BY <2>1, <2>2, <2>3 DEF ProcessOK
  <2>. QED
    BY <1>1, <2>4, LocalMove DEF LoadRecord, Prepare
<1>2. CASE FlushRecord(w)
  <2>1. [local[w] EXCEPT !.write = NoWrite].session # NULL
    BY <1>2 DEF FlushRecord, ProcessOK, Locals
  <2>2. ProcessOK("arm", [local[w] EXCEPT !.write = NoWrite])
    BY <2>1 DEF ProcessOK
  <2>. QED
    BY <1>2, <2>2, LocalMove DEF FlushRecord, Commit
<1>3. CASE RecordRaises(w)
  <2>1. ProcessOK("fail_load", [local[w] EXCEPT !.write = NoWrite])
    BY RestingOK
  <2>. QED
    BY <1>3, <2>1, LocalMove DEF RecordRaises, Commit
<1>4. CASE LoadFailed(w)
  BY <1>4, RestingOK, LocalMove DEF LoadFailed, Prepare
<1>5. CASE FlushFailed(w)
  BY <1>5, RestingOK, LocalMove DEF FlushFailed, Commit
<1>6. CASE ReleaseAll(w)
  BY <1>6, RestingOK, LocalStay DEF ReleaseAll
<1>. QED
  BY <1>1, <1>2, <1>3, <1>4, <1>5, <1>6

LEMMA PublishLocal ==
    ASSUME TypeOK, LocalInv, NEW p \in Procs,
           \/ \E at \in {"arm", "rearm"}, onlyIfLost \in BOOLEAN :
                 ArmPoll(p, at, onlyIfLost)
           \/ PublishPoll(p) \/ Unpublish(p) \/ Abort(p)
    PROVE  LocalInv'
<1>. /\ ProcessOK(pc[p], local[p]) /\ local[p] \in Locals
     /\ \A l : ProcessOK(End(p), l)
  BY RestingOK DEF LocalInv, TypeOK, End
<1>1. ASSUME NEW at \in {"arm", "rearm"}, NEW onlyIfLost \in BOOLEAN,
             ArmPoll(p, at, onlyIfLost)
      PROVE  LocalInv'
  <2>1. ASSUME NEW t \in FreshTokens, Goto(p, "publish"),
               Set(p, [local[p] EXCEPT !.token = t])
        PROVE  LocalInv'
    <3>1. /\ [local[p] EXCEPT !.token = t].token # NULL
          /\ [local[p] EXCEPT !.token = t].session # NULL
      BY <1>1, NullIsNoValue DEF ArmPoll, ProcessOK, Locals, FreshTokens
    <3>2. ProcessOK("publish", [local[p] EXCEPT !.token = t])
      BY <3>1 DEF ProcessOK
    <3>. QED
      BY <2>1, <3>2, LocalMove
  <2>2. CASE Goto(p, End(p)) /\ Set(p, AtEnd(p))
    BY <2>2, LocalMove
  <2>. QED
    BY <1>1, <2>1, <2>2 DEF ArmPoll
<1>2. CASE PublishPoll(p)
  <2>1. CASE Goto(p, End(p)) /\ Set(p, AtEnd(p))
    BY <2>1, LocalMove
  <2>2. CASE Goto(p, "unpublish") /\ UNCHANGED local
    <3>1. ProcessOK("unpublish", local[p])
      BY <1>2 DEF PublishPoll, ProcessOK
    <3>. QED
      BY <2>2, <3>1, LocalStay
  <2>. QED
    BY <1>2, <2>1, <2>2 DEF PublishPoll
<1>3. CASE Unpublish(p)
  BY <1>3, LocalMove DEF Unpublish
<1>4. CASE Abort(p)
  BY <1>4, RestingOK, LocalMove DEF Abort
<1>. QED
  BY <1>1, <1>2, <1>3, <1>4

LEMMA PollLocal ==
    ASSUME TypeOK, LocalInv, NEW w \in Workers,
           \/ \E s \in Sessions, t \in Tokens : ReceivePoll(w, s, t)
           \/ AskDevin(w) \/ LookupPr(w) \/ LoadPolled(w) \/ FlushPolled(w)
           \/ ReleaseOwn(w) \/ RenewPoll(w) \/ Ack(w) \/ Redeliver(w)
    PROVE  LocalInv'
<1>. w \in Procs  BY DEF Procs
<1>. ProcessOK(pc[w], local[w]) /\ local[w] \in Locals
  BY DEF LocalInv, TypeOK
<1>. \A at \in PollPcs \cup {"publish"} :
        \A l : l.session # NULL /\ l.token # NULL => ProcessOK(at, l)
  BY DEF ProcessOK
<1>1. ASSUME NEW s \in Sessions, NEW t \in Tokens, ReceivePoll(w, s, t)
      PROVE  LocalInv'
  <2>. DEFINE l == [Blank EXCEPT !.task = "poll", !.session = s, !.token = t]
              next == IF OwnsPolling(row, s, t) THEN "ask" ELSE "ack"
  <2>1. l.session = s /\ l.token = t /\ s # NULL /\ t # NULL
    BY NullIsNoValue DEF Blank
  <2>2. ProcessOK(next, l)
    BY <2>1, RestingOK
  <2>3. Goto(w, next) /\ Set(w, l)
    BY <1>1 DEF ReceivePoll
  <2>. HIDE DEF l, next
  <2>. QED
    BY <2>2, <2>3, LocalMove
<1>2. CASE AskDevin(w)
  <2>0. local[w].session # NULL /\ local[w].token # NULL
    BY <1>2 DEF AskDevin, ProcessOK
  <2>1. CASE Goto(w, "renew") /\ UNCHANGED local
    BY <2>0, <2>1, LocalStay
  <2>2. ASSUME NEW pr, NEW status, NEW next \in {"lookup", "poll_load"}, Goto(w, next),
               Set(w, [local[w] EXCEPT !.pr = pr, !.status = status])
        PROVE  LocalInv'
    <3>. DEFINE l == [local[w] EXCEPT !.pr = pr, !.status = status]
    <3>1. l.session # NULL /\ l.token # NULL
      BY <2>0 DEF Locals
    <3>2. ProcessOK(next, l)
      BY <3>1
    <3>3. Goto(w, next) /\ Set(w, l)
      BY <2>2
    <3>. HIDE DEF l
    <3>. QED
      BY <3>2, <3>3, LocalMove
  <2>. QED
    BY <1>2, <2>1, <2>2 DEF AskDevin
<1>3. CASE LookupPr(w)
  <2>0. local[w].session # NULL /\ local[w].token # NULL
    BY <1>3 DEF LookupPr, ProcessOK
  <2>1. PICK pr : Goto(w, "poll_load") /\ Set(w, [local[w] EXCEPT !.pr = pr])
    BY <1>3 DEF LookupPr
  <2>. DEFINE l == [local[w] EXCEPT !.pr = pr]
  <2>2. l.session # NULL /\ l.token # NULL
    BY <2>0 DEF Locals
  <2>3. ProcessOK("poll_load", l)
    BY <2>2
  <2>. QED
    BY <2>1, <2>3, LocalMove
<1>4. CASE LoadPolled(w)
  <2>. DEFINE l == [local[w] EXCEPT
                      !.status = NewStatus(w), !.pr = NULL,
                      !.write  = NetChange(row, NewStatus(w), NULL, local[w].pr)]
  <2>0. local[w].session # NULL /\ local[w].token # NULL
    BY <1>4 DEF LoadPolled, ProcessOK
  <2>1. l.session # NULL /\ l.token # NULL
    BY <2>0 DEF Locals
  <2>2. ProcessOK("poll_flush", l)
    BY <2>1
  <2>3. Goto(w, "poll_flush") /\ Set(w, l)
    BY <1>4 DEF LoadPolled
  <2>. HIDE DEF l
  <2>. QED
    BY <2>2, <2>3, LocalMove
<1>5. CASE FlushPolled(w)
  <2>. DEFINE l == [local[w] EXCEPT !.write = NoWrite, !.status = "running"]
              next == IF local[w].status = "running" THEN "renew" ELSE "release"
  <2>1. l.session # NULL /\ l.token # NULL
    BY <1>5 DEF FlushPolled, ProcessOK, Locals
  <2>2. ProcessOK(next, l)
    BY <2>1
  <2>3. Goto(w, next) /\ Set(w, l)
    BY <1>5 DEF FlushPolled
  <2>. HIDE DEF l, next
  <2>. QED
    BY <2>2, <2>3, LocalMove
<1>6. CASE ReleaseOwn(w)
  BY <1>6, RestingOK, LocalStay DEF ReleaseOwn
<1>7. CASE RenewPoll(w)
  <2>. DEFINE next == IF Renewable(row, local[w].token) THEN "publish" ELSE "ack"
  <2>1. ProcessOK(next, local[w])
    BY <1>7, RestingOK DEF RenewPoll, ProcessOK
  <2>2. Goto(w, next) /\ UNCHANGED local
    BY <1>7 DEF RenewPoll
  <2>. QED
    BY <2>1, <2>2, LocalStay
<1>8. CASE Ack(w)
  BY <1>8, RestingOK, LocalMove DEF Ack
<1>9. CASE Redeliver(w)
  BY <1>9, RestingOK, LocalMove DEF Redeliver
<1>. QED
  BY <1>1, <1>2, <1>3, <1>4, <1>5, <1>6, <1>7, <1>8, <1>9

LEMMA IngestLocal ==
    ASSUME TypeOK, LocalInv, NEW i \in Ingesters,
           \/ \E force \in BOOLEAN : ScanIssues(i, force)
           \/ GetUnpolled(i)
    PROVE  LocalInv'
<1>. i \in Procs  BY DEF Procs
<1>1. ASSUME NEW force \in BOOLEAN, ScanIssues(i, force) PROVE LocalInv'
  BY <1>1, RestingOK, LocalStay DEF ScanIssues
<1>2. CASE GetUnpolled(i)
  <2>1. CASE Unpolled(row)
    <3>. DEFINE l == [Blank EXCEPT !.session = row.session]
    <3>1. l.session # NULL
      BY <2>1 DEF Unpolled, Blank
    <3>2. ProcessOK("rearm", l)
      BY <3>1 DEF ProcessOK
    <3>. QED
      BY <1>2, <2>1, <3>2, LocalMove DEF GetUnpolled
  <2>2. CASE ~Unpolled(row)
    BY <1>2, <2>2, RestingOK, LocalMove DEF GetUnpolled
  <2>. QED
    BY <2>1, <2>2
<1>. QED
  BY <1>1, <1>2

LEMMA HandlerLocal ==
    ASSUME TypeOK, LocalInv, NEW h \in Handlers,
           \/ \E pr \in Prs : PullRequestOpened(h, pr) \/ PullRequestClosed(h, pr)
           \/ HandlerStep(h)
    PROVE  LocalInv'
<1>. h \in Procs  BY DEF Procs
<1>1. ASSUME NEW pr \in Prs, PullRequestOpened(h, pr) PROVE LocalInv'
  BY <1>1, RestingOK, LocalMove DEF PullRequestOpened, Prepare
<1>2. ASSUME NEW pr \in Prs, PullRequestClosed(h, pr) PROVE LocalInv'
  <2>1. [Blank EXCEPT !.pr = pr].pr = pr
    BY DEF Blank
  <2>. QED
    BY <1>2, <2>1, RestingOK, LocalMove DEF PullRequestClosed
<1>3. CASE FlushOpened(h)
  BY <1>3, RestingOK, LocalMove DEF FlushOpened, Commit
<1>4. CASE DetachClosedPr(h)
  <2>1. CASE Detachable(row, local[h].pr)
    BY <1>4, <2>1, RestingOK, LocalMove DEF DetachClosedPr
  <2>2. CASE ~Detachable(row, local[h].pr)
    BY <1>4, <2>2, RestingOK, LocalMove DEF DetachClosedPr
  <2>. QED
    BY <2>1, <2>2
<1>5. CASE Requeue(h)
  <2>1. CASE Goto(h, "idle") /\ Set(h, Blank)
    BY <2>1, RestingOK, LocalMove
  <2>2. CASE Goto(h, "reattach") /\ UNCHANGED local
    BY <2>2, RestingOK, LocalStay
  <2>. QED
    BY <1>5, <2>1, <2>2 DEF Requeue
<1>6. CASE Reattach(h)
  BY <1>6, RestingOK, LocalMove DEF Reattach
<1>. QED
  BY <1>1, <1>2, <1>3, <1>4, <1>5, <1>6 DEF HandlerStep

LEMMA LocalStep == TypeOK /\ LocalInv /\ [Next]_vars => LocalInv'
<1>. SUFFICES ASSUME TypeOK, LocalInv, [Next]_vars PROVE LocalInv'
  OBVIOUS
<1>1. ASSUME NEW w \in Workers, WorkerStep(w) PROVE LocalInv'
  <2>. w \in Procs  BY DEF Procs
  <2>1. CASE Arm(w)
    BY <2>1, PublishLocal DEF Arm
  <2>. QED
    BY <1>1, <2>1, RemediateLocal, RecordLocal, PublishLocal, PollLocal DEF WorkerStep
<1>2. ASSUME NEW i \in Ingesters, IngesterStep(i) PROVE LocalInv'
  <2>. i \in Procs  BY DEF Procs
  <2>1. CASE Rearm(i)
    BY <2>1, PublishLocal DEF Rearm
  <2>. QED
    BY <1>2, <2>1, IngestLocal, PublishLocal DEF IngesterStep
<1>3. CASE UNCHANGED procs
  BY <1>3 DEF LocalInv
<1>4. CASE \/ \E pr \in Prs : OpenPr(pr) \/ ClosePr(pr) \/ ReopenPr(pr)
           \/ \E s \in Sessions : DevinMoves(s)
           \/ IssueLabeled \/ IssueEdited \/ ExpireLease
  BY <1>3, <1>4
  DEF OpenPr, ClosePr, ReopenPr, MovePr, DevinMoves, IssueLabeled, IssueEdited, ExpireLease
<1>. QED
  BY <1>1, <1>2, <1>3, <1>4, RemediateLocal, RecordLocal, PollLocal, IngestLocal,
     HandlerLocal, PublishLocal DEF Next, vars

(***************************************************************************)
(* A created session has one owner: a session is handed out fresh, and no  *)
(* other step makes a process own one it did not own before.               *)
(***************************************************************************)
LEMMA OwnedKept ==
    ASSUME TypeOK, SessionsOwned,
           \A s \in Sessions : devin[s] # "unused" => devin'[s] # "unused",
           \A p \in Procs : Owns(pc[p], local[p])' =>
                /\ Owns(pc[p], local[p])
                /\ local'[p].session = local[p].session
    PROVE  SessionsOwned'
BY DEF SessionsOwned, Owns, TypeOK, Locals

\* A step that moves one process, and gives it no session.
LEMMA OwnerMove ==
    ASSUME TypeOK, NEW p \in Procs, NEW next, NEW l, Goto(p, next), Set(p, l),
           Owns(next, l) => /\ Owns(pc[p], local[p])
                            /\ l.session = local[p].session
    PROVE  \A q \in Procs : Owns(pc[q], local[q])' =>
                /\ Owns(pc[q], local[q])
                /\ local'[q].session = local[q].session
BY DEF TypeOK, Owns

LEMMA OwnerStay ==
    ASSUME TypeOK, NEW p \in Procs, NEW next, Goto(p, next), UNCHANGED local,
           next \in OwnerPcs => pc[p] \in OwnerPcs \/ local[p].session = NULL
    PROVE  \A q \in Procs : Owns(pc[q], local[q])' =>
                /\ Owns(pc[q], local[q])
                /\ local'[q].session = local[q].session
BY DEF TypeOK, Owns

LEMMA OwnedCreate ==
    ASSUME TypeOK, LocalInv, SessionsOwned, NEW w \in Workers, CreateSession(w)
    PROVE  SessionsOwned'
<1>. w \in Procs  BY DEF Procs
<1>0. local[w].session = NULL
  BY DEF CreateSession, LocalInv, ProcessOK
<1>1. \A s \in Sessions : devin[s] # "unused" => devin'[s] # "unused"
  BY DEF CreateSession, TypeOK
<1>2. CASE Goto(w, "fail_load") /\ UNCHANGED local
  BY <1>0, <1>1, <1>2, OwnerStay, OwnedKept
<1>3. ASSUME NEW s \in FreshSessions, devin' = [devin EXCEPT ![s] = "working"],
             Goto(w, "record_load"), Set(w, [local[w] EXCEPT !.session = s])
      PROVE  SessionsOwned'
  <2>1. /\ s \in Sessions /\ devin[s] = "unused" /\ devin'[s] = "working"
        /\ local'[w].session = s
        /\ \A p \in Procs \ {w} : local'[p] = local[p] /\ pc'[p] = pc[p]
    BY <1>3 DEF FreshSessions, TypeOK, Locals
  <2>2. \A p \in Procs \ {w} :
           Owns(pc[p], local[p]) => /\ local[p].session \in Sessions
                                    /\ local[p].session # s
                                    /\ devin'[local[p].session] # "unused"
    BY <1>1, <2>1 DEF SessionsOwned, Owns, TypeOK, Locals
  <2>. QED
    BY <2>1, <2>2 DEF SessionsOwned, Owns
<1>. QED
  BY <1>2, <1>3 DEF CreateSession

\* A step of one process to a statement where it owns nothing.
LEMMA OwnedLeave ==
    ASSUME TypeOK, SessionsOwned, NEW p \in Procs, pc'[p] \notin OwnerPcs,
           UNCHANGED devin,
           \A q \in Procs \ {p} : pc'[q] = pc[q] /\ local'[q] = local[q]
    PROVE  SessionsOwned'
<1>1. \A q \in Procs : Owns(pc[q], local[q])' =>
                /\ Owns(pc[q], local[q])
                /\ local'[q].session = local[q].session
  BY DEF TypeOK, Owns
<1>. QED
  BY <1>1, OwnedKept

LEMMA OwnedRecord ==
    ASSUME TypeOK, SessionsOwned, NEW w \in Workers,
           LoadRecord(w) \/ FlushRecord(w) \/ RecordRaises(w) \/ LoadFailed(w)
    PROVE  SessionsOwned'
<1>. w \in Procs  BY DEF Procs
<1>1. PICK next, l : /\ Goto(w, next) /\ Set(w, l)
                     /\ l.session = local[w].session /\ pc[w] \in OwnerPcs
  <2>1. \A change : [local[w] EXCEPT !.write = change].session = local[w].session
    BY DEF TypeOK, Locals
  <2>. QED
    BY <2>1 DEF LoadRecord, FlushRecord, RecordRaises, LoadFailed, Prepare, Commit, OwnerPcs
<1>2. UNCHANGED devin
  BY DEF LoadRecord, FlushRecord, RecordRaises, LoadFailed
<1>. QED
  BY <1>1, <1>2, OwnerMove, OwnedKept DEF Owns

LEMMA OwnedWorker ==
    ASSUME TypeOK, SessionsOwned, NEW w \in Workers,
           \/ \E force \in BOOLEAN : ReceiveRemediation(w, force)
           \/ \E s \in Sessions, t \in Tokens : ReceivePoll(w, s, t)
           \/ FindPr(w) \/ LoadCompleted(w) \/ FlushCompleted(w) \/ Claim(w)
           \/ FlushFailed(w) \/ ReleaseAll(w)
           \/ AskDevin(w) \/ LookupPr(w) \/ LoadPolled(w) \/ FlushPolled(w)
           \/ ReleaseOwn(w) \/ RenewPoll(w) \/ Ack(w) \/ Redeliver(w)
    PROVE  SessionsOwned'
<1>. w \in Procs  BY DEF Procs
<1>1. UNCHANGED devin /\ \A q \in Procs \ {w} : pc'[q] = pc[q] /\ local'[q] = local[q]
  BY DEF TypeOK, ReceiveRemediation, ReceivePoll, FindPr, LoadCompleted, Prepare,
         FlushCompleted, Claim, FlushFailed, Commit, ReleaseAll, AskDevin, LookupPr,
         LoadPolled, FlushPolled, ReleaseOwn, RenewPoll, Ack, Redeliver
<1>2. CASE \/ \E force \in BOOLEAN : ReceiveRemediation(w, force)
           \/ \E s \in Sessions, t \in Tokens : ReceivePoll(w, s, t)
           \/ Ack(w) \/ Redeliver(w)
  <2>. pc'[w] \notin OwnerPcs
    BY <1>2 DEF TypeOK, OwnerPcs, ReceiveRemediation, ReceivePoll, Ack, Redeliver
  <2>. QED
    BY <1>1, OwnedLeave
<1>3. CASE FindPr(w) \/ LoadCompleted(w) \/ FlushCompleted(w) \/ Claim(w)
           \/ FlushFailed(w) \/ ReleaseAll(w)
  <2>. pc'[w] \notin OwnerPcs
    BY <1>3 DEF TypeOK, OwnerPcs, FindPr, LoadCompleted, FlushCompleted, Claim,
                FlushFailed, ReleaseAll
  <2>. QED
    BY <1>1, OwnedLeave
<1>4. CASE AskDevin(w) \/ LookupPr(w) \/ LoadPolled(w) \/ FlushPolled(w)
           \/ ReleaseOwn(w) \/ RenewPoll(w)
  <2>. pc'[w] \notin OwnerPcs
    BY <1>4 DEF TypeOK, OwnerPcs, AskDevin, LookupPr, LoadPolled, FlushPolled,
                ReleaseOwn, RenewPoll
  <2>. QED
    BY <1>1, OwnedLeave
<1>. QED
  BY <1>2, <1>3, <1>4

LEMMA OwnedOther ==
    ASSUME TypeOK, SessionsOwned, NEW p \in Procs,
           \/ \E at \in {"arm", "rearm"}, onlyIfLost \in BOOLEAN :
                 ArmPoll(p, at, onlyIfLost)
           \/ PublishPoll(p) \/ Unpublish(p) \/ Abort(p)
           \/ \E force \in BOOLEAN : ScanIssues(p, force)
           \/ GetUnpolled(p)
           \/ \E pr \in Prs : PullRequestOpened(p, pr) \/ PullRequestClosed(p, pr)
           \/ HandlerStep(p)
    PROVE  SessionsOwned'
<1>1. UNCHANGED devin /\ \A q \in Procs \ {p} : pc'[q] = pc[q] /\ local'[q] = local[q]
  BY DEF TypeOK, ArmPoll, PublishPoll, Unpublish, Abort, ScanIssues, GetUnpolled,
         PullRequestOpened, Prepare, PullRequestClosed, HandlerStep, FlushOpened,
         Commit, DetachClosedPr, Requeue, Reattach
<1>2. pc'[p] \notin OwnerPcs
  BY DEF TypeOK, OwnerPcs, End, ArmPoll, PublishPoll, Unpublish, Abort, ScanIssues,
         GetUnpolled, PullRequestOpened, PullRequestClosed, HandlerStep, FlushOpened,
         DetachClosedPr, Requeue, Reattach
<1>. QED
  BY <1>1, <1>2, OwnedLeave

LEMMA OwnedStep == TypeOK /\ LocalInv /\ SessionsOwned /\ [Next]_vars => SessionsOwned'
<1>. SUFFICES ASSUME TypeOK, LocalInv, SessionsOwned, [Next]_vars
              PROVE  SessionsOwned'
  OBVIOUS
<1>. Workers \subseteq Procs /\ Ingesters \subseteq Procs /\ Handlers \subseteq Procs
  BY DEF Procs
<1>1. ASSUME NEW w \in Workers, WorkerStep(w) PROVE SessionsOwned'
  BY <1>1, OwnedCreate, OwnedRecord, OwnedWorker, OwnedOther DEF WorkerStep, Arm
<1>2. ASSUME NEW i \in Ingesters, IngesterStep(i) PROVE SessionsOwned'
  BY <1>2, OwnedOther DEF IngesterStep, Rearm
<1>3. CASE UNCHANGED <<pc, local, devin>>
  BY <1>3 DEF SessionsOwned
<1>4. ASSUME NEW s \in Sessions, DevinMoves(s) PROVE SessionsOwned'
  <2>1. \A r \in Sessions : devin[r] # "unused" => devin'[r] # "unused"
    BY <1>4, Parameters DEF DevinMoves, TypeOK
  <2>2. UNCHANGED <<pc, local>>
    BY <1>4 DEF DevinMoves
  <2>. QED
    BY <2>1, <2>2, OwnedKept
<1>5. CASE \/ \E pr \in Prs : OpenPr(pr) \/ ClosePr(pr) \/ ReopenPr(pr)
           \/ IssueLabeled \/ IssueEdited \/ ExpireLease
  BY <1>3, <1>5
  DEF OpenPr, ClosePr, ReopenPr, MovePr, IssueLabeled, IssueEdited, ExpireLease
<1>. QED
  BY <1>1, <1>2, <1>3, <1>4, <1>5, OwnedRecord, OwnedWorker, OwnedOther DEF Next, vars

(***************************************************************************)
(* The row while a claim is being redeemed.                                *)
(***************************************************************************)
HeldRow(r) == r.status = "running" /\ r.token = NULL /\ r.lease = "live"

ClaimHeld ==
    LeaseOutlivesCreate /\ creator # NULL =>
        /\ pc[creator] \in CreatorPcs
        /\ HeldRow(row)
        /\ row.session \in {NULL, local[creator].session}

\* The steps of a process by what they do to the row: nothing, one UPDATE
\* with a WHERE clause, or an UPDATE keyed by the issue alone.
Reads(p) ==
    \/ \E force \in BOOLEAN : ReceiveRemediation(p, force)
    \/ \E s \in Sessions, t \in Tokens : ReceivePoll(p, s, t)
    \/ FindPr(p) \/ LoadCompleted(p) \/ CreateSession(p) \/ LoadRecord(p)
    \/ LoadFailed(p) \/ PublishPoll(p) \/ AskDevin(p) \/ LookupPr(p)
    \/ LoadPolled(p) \/ Ack(p) \/ (p \in Workers /\ Redeliver(p)) \/ Abort(p)
    \/ \E force \in BOOLEAN : ScanIssues(p, force)
    \/ GetUnpolled(p) \/ Requeue(p)
    \/ \E pr \in Prs : PullRequestOpened(p, pr) \/ PullRequestClosed(p, pr)

Conditional(p) ==
    \/ Claim(p) \/ Arm(p) \/ Rearm(p) \/ Unpublish(p) \/ ReleaseOwn(p)
    \/ RenewPoll(p) \/ DetachClosedPr(p) \/ Reattach(p)

Blind(p) ==
    \/ FlushCompleted(p) \/ FlushRecord(p) \/ FlushFailed(p) \/ ReleaseAll(p)
    \/ FlushPolled(p) \/ FlushOpened(p) \/ RecordRaises(p)

\* No statement with a WHERE clause changes a held row: it is not claimable,
\* nobody owns its polling, no detach finds it settled.
LEMMA ConditionalKeeps ==
    ASSUME TypeOK, LocalInv, HeldRow(row), NEW p \in Procs,
           pc[p] = "arm" => local[p].session # row.session,
           Conditional(p)
    PROVE  HeldRow(row') /\ row'.session = row.session
<1>. row \in Rows /\ ProcessOK(pc[p], local[p])
  BY DEF TypeOK, LocalInv
<1>1. CASE Claim(p)
  BY <1>1 DEF Claim, Claimable, LeaseLost, HeldRow
<1>2. CASE Arm(p) \/ Rearm(p)
  BY <1>2 DEF Arm, Rearm, ArmPoll, PollGrantable, LeaseLost, HeldRow
<1>3. CASE Unpublish(p) \/ ReleaseOwn(p)
  BY <1>3 DEF Unpublish, ReleaseOwn, Released, ProcessOK, HeldRow
<1>4. CASE RenewPoll(p)
  BY <1>4 DEF RenewPoll, Renewed, HeldRow, Rows
<1>5. CASE DetachClosedPr(p) \/ Reattach(p)
  BY <1>5 DEF DetachClosedPr, Detachable, Reattach, Reattachable, HeldRow
<1>. QED
  BY <1>1, <1>2, <1>3, <1>4, <1>5 DEF Conditional

\* What a process leaves alone when its statement is not a write.
LEMMA ReadersKeep ==
    ASSUME NEW p \in Procs, Reads(p)
    PROVE  row' = row
BY DEF Reads, ReceiveRemediation, ReceivePoll, FindPr, LoadCompleted, CreateSession,
       LoadRecord, LoadFailed, PublishPoll, AskDevin, LookupPr, LoadPolled, Ack,
       Redeliver, Abort, ScanIssues, GetUnpolled, Requeue, PullRequestOpened,
       PullRequestClosed

\* The unconditional writers move from a blind statement.
LEMMA WritersAreBlind ==
    ASSUME TypeOK, NEW p \in Procs, Blind(p)
    PROVE  /\ pc[p] \in BlindPcs \/ row' = row
           /\ Moves(p)
BY DEF BlindPcs, Moves, TypeOK, Blind, FlushCompleted, FlushRecord, FlushFailed,
       ReleaseAll, FlushPolled, FlushOpened, RecordRaises

LEMMA OthersStay ==
    ASSUME TypeOK, NEW p \in Procs, Reads(p) \/ Conditional(p) \/ Blind(p)
    PROVE  \A q \in Procs \ {p} : pc'[q] = pc[q] /\ local'[q] = local[q]
<1>1. CASE Reads(p)
  BY <1>1
  DEF TypeOK, Reads, ReceiveRemediation, ReceivePoll, FindPr, LoadCompleted,
      CreateSession, LoadRecord, LoadFailed, PublishPoll, AskDevin, LookupPr,
      LoadPolled, Ack, Redeliver, Abort, ScanIssues, GetUnpolled, Requeue,
      PullRequestOpened, PullRequestClosed, Prepare
<1>2. CASE Conditional(p)
  BY <1>2
  DEF TypeOK, Conditional, Claim, Arm, Rearm, ArmPoll, Unpublish, ReleaseOwn,
      RenewPoll, DetachClosedPr, Reattach
<1>3. CASE Blind(p)
  BY <1>3
  DEF TypeOK, Blind, FlushCompleted, FlushRecord, FlushFailed, ReleaseAll,
      FlushPolled, FlushOpened, RecordRaises, Commit
<1>. QED
  BY <1>1, <1>2, <1>3

Surroundings ==
    \/ \E pr \in Prs : OpenPr(pr) \/ ClosePr(pr) \/ ReopenPr(pr)
    \/ \E s \in Sessions : DevinMoves(s)
    \/ IssueLabeled \/ IssueEdited \/ ExpireLease

LEMMA NextCases ==
    ASSUME Next
    PROVE  \/ \E p \in Procs : Reads(p) \/ Conditional(p) \/ Blind(p)
           \/ Surroundings
<1>. Workers \subseteq Procs /\ Ingesters \subseteq Procs /\ Handlers \subseteq Procs
  BY DEF Procs
<1>1. ASSUME NEW w \in Workers, WorkerStep(w)
      PROVE  Reads(w) \/ Conditional(w) \/ Blind(w)
  BY <1>1 DEF WorkerStep, Reads, Conditional, Blind
<1>2. ASSUME NEW i \in Ingesters, IngesterStep(i) PROVE Reads(i) \/ Conditional(i)
  BY <1>2 DEF IngesterStep, Reads, Conditional
<1>3. ASSUME NEW h \in Handlers, HandlerStep(h)
      PROVE  Reads(h) \/ Conditional(h) \/ Blind(h)
  BY <1>3 DEF HandlerStep, Reads, Conditional, Blind
<1>4. \A p \in Procs :
        /\ (\E force \in BOOLEAN : ReceiveRemediation(p, force)) => Reads(p)
        /\ (\E s \in Sessions, t \in Tokens : ReceivePoll(p, s, t)) => Reads(p)
        /\ (\E force \in BOOLEAN : ScanIssues(p, force)) => Reads(p)
        /\ (\E pr \in Prs : PullRequestOpened(p, pr) \/ PullRequestClosed(p, pr))
              => Reads(p)
        /\ (p \in Workers /\ Redeliver(p)) \/ Abort(p) => Reads(p)
        /\ RecordRaises(p) => Blind(p)
  BY DEF Reads, Blind
<1>. QED
  BY <1>1, <1>2, <1>3, <1>4 DEF Next, Surroundings

LEMMA OthersKeepClaim ==
    ASSUME TypeOK, LocalInv, SessionsOwned, HistoryTypeOK, ClaimHeld,
           LeaseOutlivesCreate, creator # NULL,
           NEW p \in Procs, p # creator,
           Reads(p) \/ Conditional(p) \/ Blind(p), ~Overwritten
    PROVE  /\ HeldRow(row') /\ row'.session = row.session
           /\ pc'[creator] = pc[creator] /\ local'[creator] = local[creator]
<1>. /\ creator \in Procs /\ pc[creator] \in CreatorPcs
     /\ HeldRow(row) /\ row.session \in {NULL, local[creator].session}
  BY DEF HistoryTypeOK, ClaimHeld, Procs
<1>1. pc'[creator] = pc[creator] /\ local'[creator] = local[creator]
  BY OthersStay
<1>2. CASE Reads(p)
  BY <1>1, <1>2, ReadersKeep
<1>3. CASE Blind(p)
  BY <1>1, <1>3, WritersAreBlind DEF Overwritten
<1>4. CASE Conditional(p)
  <2>1. ASSUME pc[p] = "arm" PROVE local[p].session # row.session
    <3>1. local[p].session # NULL /\ Owns(pc[p], local[p])
      BY <2>1 DEF LocalInv, ProcessOK, Owns, OwnerPcs
    <3>2. CASE row.session = NULL
      BY <3>1, <3>2
    <3>3. CASE row.session # NULL
      <4>1. Owns(pc[creator], local[creator])
        BY <3>3 DEF CreatorPcs, OwnerPcs, Owns, LocalInv, ProcessOK
      <4>. QED
        BY <3>1, <3>3, <4>1 DEF SessionsOwned
    <3>. QED
      BY <3>2, <3>3
  <2>. QED
    BY <1>1, <1>4, <2>1, ConditionalKeeps
<1>. QED
  BY <1>2, <1>3, <1>4

LEMMA CreatorKeepsClaim ==
    ASSUME TypeOK, LocalInv, HistoryTypeOK, ClaimHeld,
           LeaseOutlivesCreate, creator # NULL,
           Reads(creator) \/ Conditional(creator) \/ Blind(creator),
           pc'[creator] \in CreatorPcs
    PROVE  HeldRow(row') /\ row'.session \in {NULL, local'[creator].session}
<1>. DEFINE c == creator
<1>. /\ c \in Procs /\ pc[c] \in CreatorPcs /\ pc[c] \in Pcs
     /\ local[c] \in Locals /\ row \in Rows /\ ProcessOK(pc[c], local[c])
     /\ HeldRow(row) /\ row.session \in {NULL, local[c].session}
  BY DEF HistoryTypeOK, ClaimHeld, Procs, TypeOK, LocalInv
<1>1. CreateSession(c) \/ LoadRecord(c) \/ LoadFailed(c) \/ RecordRaises(c)
  <2>1. CASE Reads(c)
    BY <2>1
    DEF TypeOK, CreatorPcs, Reads, ReceiveRemediation, ReceivePoll, FindPr,
        LoadCompleted, PublishPoll, AskDevin, LookupPr, LoadPolled, Ack, Redeliver,
        Abort, ScanIssues, GetUnpolled, Requeue, PullRequestOpened, PullRequestClosed
  <2>2. CASE Conditional(c)
    BY <2>2
    DEF CreatorPcs, Conditional, Claim, Arm, Rearm, ArmPoll, Unpublish, ReleaseOwn,
        RenewPoll, DetachClosedPr, Reattach
  <2>3. CASE Blind(c)
    BY <2>3
    DEF TypeOK, CreatorPcs, Blind, FlushCompleted, FlushRecord, FlushFailed,
        ReleaseAll, FlushPolled, FlushOpened
  <2>. QED
    BY <2>1, <2>2, <2>3
<1>2. CASE CreateSession(c)
  <2>1. row' = row /\ row.session = NULL
    BY <1>2 DEF CreateSession, ProcessOK
  <2>. QED
    BY <2>1
<1>3. CASE LoadRecord(c) \/ LoadFailed(c)
  <2>1. row' = row /\ local'[c].session = local[c].session
    BY <1>3 DEF LoadRecord, LoadFailed, Prepare, TypeOK, Locals
  <2>. QED
    BY <2>1
<1>4. CASE RecordRaises(c)
  <2>1. local'[c].session = local[c].session
    BY <1>4 DEF RecordRaises, Commit, TypeOK, Locals
  <2>2. CASE row' = row
    BY <2>1, <2>2
  <2>3. CASE pc[c] = "record_flush" /\ Commit(c)
    <3>1. /\ local[c].write.status \in {NULL, "running"}
          /\ local[c].write.session \in {NULL, local[c].session}
      BY <2>3 DEF ProcessOK
    <3>2. /\ row'.status = Column(row.status, local[c].write.status)
          /\ row'.session = Column(row.session, local[c].write.session)
          /\ row'.token = row.token /\ row'.lease = row.lease
      BY <2>3 DEF Commit, Flushed, Rows
    <3>. QED
      BY <2>1, <3>1, <3>2 DEF Column, HeldRow
  <2>. QED
    BY <1>4, <2>2, <2>3 DEF RecordRaises
<1>. QED
  BY <1>1, <1>2, <1>3, <1>4

LEMMA GrantHolds ==
    ASSUME TypeOK, HistoryTypeOK, Next, NEW w \in Workers, GrantedTo(w)
    PROVE  pc'[w] \in CreatorPcs /\ HeldRow(row') /\ row'.session = NULL
<1>. w \in Procs /\ row \in Rows  BY DEF Procs, TypeOK
<1>1. PICK p \in Procs : Reads(p) \/ Conditional(p) \/ Blind(p)
  BY NextCases
  DEF GrantedTo, Surroundings, OpenPr, ClosePr, ReopenPr, MovePr, DevinMoves,
      IssueLabeled, IssueEdited, ExpireLease
<1>2. p = w
  BY <1>1, OthersStay DEF GrantedTo
<1>3. Claim(w)
  <2>1. ~Blind(w)
    BY DEF GrantedTo, Blind, FlushCompleted, FlushRecord, FlushFailed, ReleaseAll,
           FlushPolled, FlushOpened, RecordRaises
  <2>2. ~Reads(w)
    BY DEF TypeOK, GrantedTo, Reads, ReceiveRemediation, ReceivePoll, FindPr,
           LoadCompleted, CreateSession, LoadRecord, LoadFailed, PublishPoll,
           AskDevin, LookupPr, LoadPolled, Ack, Redeliver, Abort, ScanIssues,
           GetUnpolled, Requeue, PullRequestOpened, PullRequestClosed
  <2>3. Conditional(w) => Claim(w)
    BY DEF GrantedTo, Conditional, Arm, Rearm, ArmPoll, Unpublish, ReleaseOwn,
           RenewPoll, DetachClosedPr, Reattach
  <2>. QED
    BY <1>1, <1>2, <2>1, <2>2, <2>3
<1>. QED
  BY <1>3 DEF Claim, Claimed, TypeOK, GrantedTo, CreatorPcs, HeldRow, Rows

LEMMA HistoryTypeStep ==
    ASSUME TypeOK, HistoryTypeOK, HNext
    PROVE  HistoryTypeOK'
<1>1. creator' \in Workers \cup {NULL}
  BY DEF HNext, NextCreator, HistoryTypeOK
<1>2. touched' \subseteq Handlers
  BY DEF HNext, NextTouched
<1>3. detachers' \subseteq Handlers
  BY DEF HNext, NextDetachers
<1>4. requeues' \in Nat
  BY DEF HNext, NextRequeues, HistoryTypeOK
<1>. QED
  BY <1>1, <1>2, <1>3, <1>4 DEF HistoryTypeOK

LEMMA ClaimHeldStep ==
    ASSUME TypeOK, LocalInv, SessionsOwned, HistoryTypeOK, ClaimHeld, HNext
    PROVE  ClaimHeld'
<1>. SUFFICES ASSUME LeaseOutlivesCreate, creator' # NULL
              PROVE  /\ pc'[creator'] \in CreatorPcs
                     /\ HeldRow(row')
                     /\ row'.session \in {NULL, local'[creator'].session}
  BY DEF ClaimHeld
<1>. Next /\ creator' = NextCreator
  BY DEF HNext
<1>1. CASE \E w \in Workers : GrantedTo(w)
  <2>1. creator' \in Workers /\ GrantedTo(creator')
    BY <1>1 DEF NextCreator
  <2>. QED
    BY <2>1, GrantHolds
<1>2. CASE ~\E w \in Workers : GrantedTo(w)
  <2>1. /\ creator # NULL /\ creator' = creator
        /\ pc'[creator] \in CreatorPcs /\ ~Overwritten
    BY <1>2 DEF NextCreator
  <2>2. /\ creator \in Procs /\ pc[creator] \in CreatorPcs
        /\ HeldRow(row) /\ row.session \in {NULL, local[creator].session}
    BY <2>1 DEF ClaimHeld, HistoryTypeOK, Procs
  <2>3. ASSUME NEW p \in Procs, Reads(p) \/ Conditional(p) \/ Blind(p)
        PROVE  HeldRow(row') /\ row'.session \in {NULL, local'[creator].session}
    <3>1. CASE p = creator
      BY <2>1, <2>3, <3>1, CreatorKeepsClaim
    <3>2. CASE p # creator
      BY <2>1, <2>2, <2>3, <3>2, OthersKeepClaim
    <3>. QED
      BY <3>1, <3>2
  <2>4. CASE Surroundings
    <3>1. UNCHANGED local
      BY <2>4 DEF Surroundings, OpenPr, ClosePr, ReopenPr, MovePr, DevinMoves,
                  IssueLabeled, IssueEdited, ExpireLease
    <3>2. CASE row' = row
      BY <2>1, <2>2, <3>1, <3>2
    <3>3. CASE IssueEdited
      <4>1. /\ HeldRow(row') /\ row'.session = row.session
        BY <2>2, <3>3 DEF IssueEdited, Flushed, Column, NoWrite, HeldRow, TypeOK, Rows
      <4>. QED
        BY <2>1, <2>2, <3>1, <4>1
    <3>4. ~ExpireLease
      BY <2>1, <2>2 DEF ExpireLease, Creating, HistoryTypeOK
    <3>. QED
      BY <2>4, <3>2, <3>3, <3>4
      DEF Surroundings, OpenPr, ClosePr, ReopenPr, MovePr, DevinMoves, IssueLabeled
  <2>. QED
    BY <2>1, <2>3, <2>4, NextCases
<1>. QED
  BY <1>1, <1>2

(***************************************************************************)
(* The strengthened invariant, and the theorem.                            *)
(***************************************************************************)
ClaimInv == TypeOK /\ HistoryTypeOK /\ LocalInv /\ SessionsOwned /\ ClaimHeld

LEMMA ClaimInvInit == HInit => ClaimInv
<1>. SUFFICES ASSUME HInit PROVE ClaimInv
  OBVIOUS
<1>1. TypeOK
  BY TypeInit DEF HInit
<1>2. \A p \in Procs : pc[p] = "idle"
  BY DEF HInit, Init
<1>3. LocalInv
  BY <1>2, RestingOK DEF LocalInv
<1>4. SessionsOwned
  BY <1>2 DEF SessionsOwned, Owns, OwnerPcs
<1>5. HistoryTypeOK /\ ClaimHeld
  BY DEF HInit, HistoryTypeOK, ClaimHeld
<1>. QED
  BY <1>1, <1>3, <1>4, <1>5 DEF ClaimInv

LEMMA ClaimInvStep == ClaimInv /\ [HNext]_hvars => ClaimInv'
<1>. SUFFICES ASSUME ClaimInv, [HNext]_hvars PROVE ClaimInv'
  OBVIOUS
<1>1. CASE HNext
  BY <1>1, TypeStep, LocalStep, OwnedStep, HistoryTypeStep, ClaimHeldStep
  DEF ClaimInv, HNext
<1>2. CASE UNCHANGED hvars
  <2>. UNCHANGED <<vars, creator, touched, detachers, requeues>>
    BY <1>2 DEF hvars, history
  <2>1. TypeOK' /\ LocalInv' /\ SessionsOwned'
    BY TypeStep, LocalStep, OwnedStep DEF ClaimInv
  <2>. QED
    BY <2>1 DEF ClaimInv, HistoryTypeOK, ClaimHeld, vars
<1>. QED
  BY <1>1, <1>2

\* While a worker redeems its granted claim, within its lease and before an
\* unconditional write by somebody else, the row cannot be claimed and its
\* polling cannot be armed: for any number of workers, scans and webhooks.
THEOREM ClaimExclusive == HSpec => []ClaimIsExclusive
<1>1. ClaimInv => ClaimIsExclusive
  BY DEF ClaimInv, ClaimHeld, HeldRow, ClaimIsExclusive, Claimable, LeaseLost
<1>. QED
  BY <1>1, ClaimInvInit, ClaimInvStep, PTL DEF HSpec

(***************************************************************************)
(* A poll token on the row has a session to poll and a lease to expire.    *)
(***************************************************************************)
LEMMA ConditionalKeepsToken ==
    ASSUME TypeOK, LocalInv, TokenHasLease, NEW p \in Procs, Conditional(p)
    PROVE  TokenHasLease'
<1>. row \in Rows /\ ProcessOK(pc[p], local[p])
  BY DEF TypeOK, LocalInv
<1>1. CASE Claim(p)
  BY <1>1 DEF Claim, Claimed, TokenHasLease, Rows
<1>2. CASE Arm(p) \/ Rearm(p)
  BY <1>2 DEF Arm, Rearm, ArmPoll, PollGrantable, PollClaimed, ProcessOK, TokenHasLease, Rows
<1>3. CASE Unpublish(p) \/ ReleaseOwn(p)
  BY <1>3 DEF Unpublish, ReleaseOwn, Released, TokenHasLease, Rows
<1>4. CASE RenewPoll(p)
  BY <1>4 DEF RenewPoll, Renewed, TokenHasLease, Rows
<1>5. CASE DetachClosedPr(p) \/ Reattach(p)
  BY <1>5 DEF DetachClosedPr, Detached, Reattach, Reattached, TokenHasLease, Rows
<1>. QED
  BY <1>1, <1>2, <1>3, <1>4, <1>5 DEF Conditional

LEMMA FlushKeepsToken ==
    ASSUME NEW r \in Rows, NEW w \in Writes
    PROVE  /\ Flushed(r, w).token = r.token
           /\ Flushed(r, w).lease = r.lease
           /\ r.session # NULL => Flushed(r, w).session # NULL
BY DEF Flushed, Column, Rows

LEMMA BlindKeepsToken ==
    ASSUME TypeOK, TokenHasLease, NEW p \in Procs, Blind(p)
    PROVE  TokenHasLease'
<1>. row \in Rows /\ local[p].write \in Writes
  BY DEF TypeOK, Locals
<1>1. \/ row' = row
      \/ row' = Flushed(row, local[p].write)
      \/ row' = Released(row, NULL)
  BY DEF Blind, FlushCompleted, FlushRecord, FlushFailed, ReleaseAll, FlushPolled,
         FlushOpened, RecordRaises, Commit
<1>2. Released(row, NULL).token = NULL
  BY DEF Released, Rows
<1>. QED
  BY <1>1, <1>2, FlushKeepsToken DEF TokenHasLease

LEMMA TokenStep ==
    ASSUME TypeOK, LocalInv, TokenHasLease, [Next]_vars
    PROVE  TokenHasLease'
<1>1. CASE UNCHANGED row
  BY <1>1 DEF TokenHasLease
<1>2. ASSUME NEW p \in Procs, Reads(p) \/ Conditional(p) \/ Blind(p)
      PROVE  TokenHasLease'
  BY <1>1, <1>2, ReadersKeep, ConditionalKeepsToken, BlindKeepsToken
<1>3. CASE IssueEdited
  BY <1>3, NoWriteType, FlushKeepsToken DEF IssueEdited, TypeOK, TokenHasLease
<1>4. CASE ExpireLease
  BY <1>4 DEF ExpireLease, Expired, TypeOK, Rows, TokenHasLease
<1>. QED
  BY <1>1, <1>2, <1>3, <1>4, NextCases
  DEF vars, Surroundings, OpenPr, ClosePr, ReopenPr, MovePr, DevinMoves, IssueLabeled

\* Claiming, recording, arming, renewing, releasing, re-arming, webhooks and
\* stale polls, in any order, never leave a token on a row that has no
\* session, or no lease by which a scan could find the chain lost.
THEOREM TokenAlwaysHasLease == Spec => []TokenHasLease
<1>. DEFINE Inv == TypeOK /\ LocalInv /\ TokenHasLease
<1>1. Init => Inv
  <2>. SUFFICES ASSUME Init PROVE Inv
    OBVIOUS
  <2>1. TypeOK /\ LocalInv
    BY TypeInit, RestingOK DEF Init, LocalInv
  <2>. QED
    BY <2>1 DEF Init, AbsentRow, TokenHasLease
<1>2. Inv /\ [Next]_vars => Inv'
  BY TypeStep, LocalStep, TokenStep
<1>. QED
  BY <1>1, <1>2, PTL DEF Spec

(***************************************************************************)
(* The compensation of a webhook that could not publish its retry, for     *)
(* every number of concurrent deliveries, workers and pull requests.       *)
(*                                                                         *)
(* The stamp a detach leaves in updated_at is what the argument turns on:  *)
(* every statement that changes the status, session or pull request of the *)
(* row also overwrites the stamp, so a row that still bears a handler's    *)
(* stamp has not been changed since that handler detached it.  That one    *)
(* retry at most is published turns on the empty pr_url a detach leaves:   *)
(* no later detach finds its own pull request there, until the stamp's     *)
(* owner, who then publishes nothing, puts it back.                        *)
(***************************************************************************)
HIDE DEF SessionKnownPcs, TokenKnownPcs, BeforeSession, PollPcs, PublishPcs

StampIsFresh == \A h \in Handlers : Compensating(h) /\ row.stamp = h => h \notin touched

\* A statement of another process that leaves a handler's stamp in place has
\* not changed the association.
LEMMA StampGuards ==
    ASSUME TypeOK, NEW p \in Procs, Reads(p) \/ Conditional(p) \/ Blind(p),
           NEW h \in Handlers, Compensating(h), row'.stamp = h
    PROVE  row.stamp = h /\ Association(row') = Association(row)
<1>. row \in Rows /\ h # NULL
  BY NullIsNoValue DEF TypeOK
<1>1. CASE row' = row
  BY <1>1
<1>2. CASE Claim(p)
  BY <1>2 DEF Claim, Claimed, Association, Rows
<1>3. CASE Arm(p) \/ Rearm(p)
  BY <1>3 DEF Arm, Rearm, ArmPoll, PollClaimed, Association, Rows
<1>4. CASE Unpublish(p) \/ ReleaseOwn(p) \/ ReleaseAll(p)
  BY <1>4 DEF Unpublish, ReleaseOwn, ReleaseAll, Released, Association, Rows
<1>5. CASE RenewPoll(p)
  BY <1>5 DEF RenewPoll, Renewed, Association, Rows
<1>6. CASE DetachClosedPr(p)
  <2>1. p # h
    BY <1>6 DEF DetachClosedPr, Compensating
  <2>. QED
    BY <1>6, <2>1 DEF DetachClosedPr, Detached, Rows
<1>7. CASE Reattach(p)
  BY <1>7 DEF Reattach, Reattached, Association, Rows
<1>8. ASSUME NEW w \in Writes, row' = Flushed(row, w)
      PROVE  FALSE
  BY <1>8 DEF Flushed, Rows
<1>9. CASE Blind(p)
  <2>1. local[p].write \in Writes
    BY DEF TypeOK, Locals
  <2>. QED
    BY <1>1, <1>4, <1>8, <1>9, <2>1
    DEF Blind, FlushCompleted, FlushRecord, FlushFailed, FlushPolled, FlushOpened,
        RecordRaises, Commit
<1>. QED
  BY <1>1, <1>2, <1>3, <1>4, <1>5, <1>6, <1>7, <1>9, ReadersKeep DEF Conditional

\* A handler's stamp is still there: so is what the handler detached.
LEMMA StampKept ==
    ASSUME TypeOK, Next, NEW h \in Handlers, Compensating(h), row'.stamp = h
    PROVE  row.stamp = h /\ Association(row') = Association(row)
<1>. row \in Rows /\ h # NULL
  BY NullIsNoValue DEF TypeOK
<1>1. CASE row' = row
  BY <1>1
<1>2. ASSUME NEW p \in Procs, Reads(p) \/ Conditional(p) \/ Blind(p)
      PROVE  row.stamp = h /\ Association(row') = Association(row)
  BY <1>2, StampGuards
<1>3. CASE IssueEdited
  BY <1>3 DEF IssueEdited, Flushed
<1>4. CASE ExpireLease
  BY <1>4 DEF ExpireLease, Expired, Association, Rows
<1>. QED
  BY <1>1, <1>2, <1>3, <1>4, NextCases
  DEF Surroundings, OpenPr, ClosePr, ReopenPr, MovePr, DevinMoves, IssueLabeled

LEMMA StampStep ==
    ASSUME TypeOK, StampIsFresh, HNext
    PROVE  StampIsFresh'
<1>. SUFFICES ASSUME NEW h \in Handlers, pc'[h] \in {"requeue", "reattach"},
                     row'.stamp = h, h \in touched'
              PROVE  FALSE
  BY DEF StampIsFresh, Compensating
<1>. Next /\ touched' = NextTouched
  BY DEF HNext
<1>1. /\ Compensating(h)
      /\ h \in touched \/ Association(row') # Association(row)
  BY DEF NextTouched
<1>. QED
  BY <1>1, StampKept DEF StampIsFresh

\* A handler leaves "reattach" by its own step, and only its compensation,
\* which finds the row as it detached it, changes the row.
LEMMA LeavesReattach ==
    ASSUME TypeOK, Next, NEW h \in Handlers, pc[h] = "reattach", Moves(h)
    PROVE  /\ \A k \in Handlers \ {h} : pc'[k] = pc[k]
           /\ pc'[h] = "idle"
           /\ row' # row => row.stamp = h /\ row.pr = DETACHED
<1>. h \in Procs /\ Handlers \subseteq Procs
  BY DEF Procs
<1>1. PICK p \in Procs : Reads(p) \/ Conditional(p) \/ Blind(p)
  BY NextCases
  DEF Moves, Surroundings, OpenPr, ClosePr, ReopenPr, MovePr, DevinMoves,
      IssueLabeled, IssueEdited, ExpireLease
<1>2. p = h
  BY <1>1, OthersStay DEF Moves
<1>3. Reads(h) => row' = row /\ pc'[h] = "idle"
  BY ReadersKeep
  DEF TypeOK, Reads, ReceiveRemediation, ReceivePoll, FindPr, LoadCompleted,
      CreateSession, LoadRecord, LoadFailed, PublishPoll, AskDevin, LookupPr,
      LoadPolled, Ack, Redeliver, Abort, ScanIssues, GetUnpolled, Requeue,
      PullRequestOpened, PullRequestClosed
<1>4. ~Blind(h)
  BY DEF Blind, FlushCompleted, FlushRecord, FlushFailed, ReleaseAll, FlushPolled,
         FlushOpened, RecordRaises
<1>5. Conditional(h) => Reattach(h)
  BY DEF Conditional, Claim, Arm, Rearm, ArmPoll, Unpublish, ReleaseOwn, RenewPoll,
         DetachClosedPr
<1>6. Reattach(h) => pc'[h] = "idle" /\ (row' # row => row.stamp = h /\ row.pr = DETACHED)
  BY DEF TypeOK, Reattach, Reattachable
<1>. QED
  BY <1>1, <1>2, <1>3, <1>4, <1>5, <1>6, OthersStay

\* Only its own compensation takes a handler out of "reattach" with a change
\* of the row.
LEMMA ReattachStep ==
    ASSUME TypeOK, StampIsFresh, HNext, NEW h \in Handlers,
           pc[h] = "reattach", Moves(h), row' # row
    PROVE  h \notin touched
BY LeavesReattach DEF HNext, StampIsFresh, Compensating

\* A failed publication puts a closed pull request back only on a row nobody
\* has changed since it was detached, in every interleaving of deliveries,
\* replays, workers and polls.
THEOREM ReattachIsSafe == HSpec => ReattachOnlyUntouched
<1>. DEFINE Inv == TypeOK /\ StampIsFresh
            Safe == \A h \in Handlers :
                       pc[h] = "reattach" /\ Moves(h) /\ row' # row => h \notin touched
<1>1. HInit => Inv
  <2>. SUFFICES ASSUME HInit PROVE Inv
    OBVIOUS
  <2>1. TypeOK
    BY TypeInit DEF HInit
  <2>2. StampIsFresh
    BY DEF HInit, StampIsFresh
  <2>. QED
    BY <2>1, <2>2
<1>2. Inv /\ [HNext]_hvars => Inv'
  <2>. SUFFICES ASSUME Inv, [HNext]_hvars PROVE Inv'
    OBVIOUS
  <2>1. CASE HNext
    BY <2>1, TypeStep, StampStep DEF HNext
  <2>2. CASE UNCHANGED hvars
    <3>. UNCHANGED <<vars, creator, touched, detachers, requeues>>
      BY <2>2 DEF hvars, history
    <3>1. TypeOK'
      BY TypeStep
    <3>2. UNCHANGED <<pc, row, touched>>
      BY DEF vars
    <3>3. StampIsFresh'
      BY <3>2 DEF StampIsFresh, Compensating
    <3>. QED
      BY <3>1, <3>3
  <2>. QED
    BY <2>1, <2>2
<1>3. Inv /\ [HNext]_hvars => [Safe]_hvars
  <2>. SUFFICES ASSUME Inv, HNext PROVE Safe
    OBVIOUS
  <2>. QED
    BY ReattachStep
<1>. QED
  BY <1>1, <1>2, <1>3, PTL DEF HSpec, ReattachOnlyUntouched

-----------------------------------------------------------------------------

\* Since a pull request was recorded: one handler at a time has detached it
\* and is not finished, none has once a retry is published, and meanwhile the
\* row shows no pull request that another delivery could detach.  Whoever can
\* still put the association back is that handler.
OneRetry ==
    /\ \A h \in detachers : Compensating(h)
    /\ \A h, k \in detachers : h = k
    /\ requeues <= 1
    /\ requeues = 1 => detachers = {}
    /\ requeues = 1 \/ detachers # {} => row.pr \notin Prs
    /\ \A h \in Handlers :
          Compensating(h) /\ row.stamp = h /\ row.pr = DETACHED => h \in detachers

\* Only a detach makes a handler hold a row, and the row it detached still
\* pointed at the closed pull request.
LEMMA DetachStarts ==
    ASSUME TypeOK, LocalInv, Next, NEW h \in Handlers,
           ~Compensating(h), pc'[h] \in {"requeue", "reattach"}
    PROVE  /\ \A k \in Handlers \ {h} : pc'[k] = pc[k]
           /\ pc[h] = "detach"
           /\ row.pr \in Prs
           /\ row'.pr = DETACHED
<1>. h \in Procs /\ Handlers \subseteq Procs /\ row \in Rows
  BY DEF Procs, TypeOK
<1>1. PICK p \in Procs : Reads(p) \/ Conditional(p) \/ Blind(p)
  BY NextCases
  DEF Compensating, Surroundings, OpenPr, ClosePr, ReopenPr, MovePr, DevinMoves,
      IssueLabeled, IssueEdited, ExpireLease
<1>2. p = h
  BY <1>1, OthersStay DEF Compensating
<1>3. ~Reads(h)
  <2>1. /\ ~ \E force \in BOOLEAN : ReceiveRemediation(h, force)
        /\ ~ \E s \in Sessions, t \in Tokens : ReceivePoll(h, s, t)
    <3>. pc \in [Procs -> Pcs]
      BY DEF TypeOK
    <3>1. ASSUME NEW force \in BOOLEAN, ReceiveRemediation(h, force) PROVE FALSE
      BY <3>1 DEF Compensating, ReceiveRemediation
    <3>2. ASSUME NEW s \in Sessions, NEW t \in Tokens, ReceivePoll(h, s, t) PROVE FALSE
      BY <3>2 DEF Compensating, ReceivePoll
    <3>. QED
      BY <3>1, <3>2
  <2>2. /\ ~FindPr(h) /\ ~LoadCompleted(h)
    BY DEF Compensating, TypeOK, FindPr, LoadCompleted
  <2>3. /\ ~CreateSession(h) /\ ~LoadRecord(h) /\ ~LoadFailed(h) /\ ~PublishPoll(h)
    BY DEF Compensating, TypeOK, CreateSession, LoadRecord, LoadFailed, PublishPoll, End
  <2>4. /\ ~AskDevin(h) /\ ~LookupPr(h) /\ ~LoadPolled(h) /\ ~Ack(h)
        /\ ~Redeliver(h) /\ ~Abort(h)
    BY DEF Compensating, TypeOK, AskDevin, LookupPr, LoadPolled, Ack, Redeliver, Abort
  <2>5. /\ ~ \E force \in BOOLEAN : ScanIssues(h, force)
        /\ ~GetUnpolled(h) /\ ~Requeue(h)
        /\ ~ \E pr \in Prs : PullRequestOpened(h, pr) \/ PullRequestClosed(h, pr)
    BY DEF Compensating, TypeOK, ScanIssues, GetUnpolled, Requeue,
           PullRequestOpened, PullRequestClosed
  <2>. QED
    BY <2>1, <2>2, <2>3, <2>4, <2>5 DEF Reads
<1>4. ~Blind(h)
  BY DEF Compensating, TypeOK, Blind, FlushCompleted, FlushRecord, FlushFailed,
         ReleaseAll, FlushPolled, FlushOpened, RecordRaises
<1>5. Conditional(h) => DetachClosedPr(h)
  BY DEF Compensating, TypeOK, Conditional, Claim, Arm, Rearm, ArmPoll, Unpublish,
         ReleaseOwn, RenewPoll, Reattach, End
<1>6. DetachClosedPr(h)
  BY <1>1, <1>2, <1>3, <1>4, <1>5
<1>7. Detachable(row, local[h].pr)
  BY <1>6 DEF DetachClosedPr, TypeOK
<1>8. pc[h] = "detach" /\ local[h].pr \in Prs
  BY <1>6 DEF DetachClosedPr, LocalInv, ProcessOK
<1>9. row'.pr = DETACHED
  BY <1>6, <1>7 DEF DetachClosedPr, Detached, Rows
<1>. QED
  BY <1>1, <1>2, <1>7, <1>8, <1>9, OthersStay DEF Detachable

\* A new detacher found a pull request on the row: it is the only one.
LEMMA NewDetacher ==
    ASSUME TypeOK, LocalInv, HistoryTypeOK, OneRetry, HNext,
           NEW h \in detachers', h \notin detachers
    PROVE  /\ \A k \in Handlers \ {h} : pc'[k] = pc[k]
           /\ row.pr \in Prs /\ row'.pr = DETACHED
           /\ detachers' = {h} /\ requeues' = 0
<1>. Next /\ detachers' = NextDetachers /\ requeues' = NextRequeues /\ h \in Handlers
  BY DEF HNext, NextDetachers
<1>1. pc[h] = "detach" /\ pc'[h] \in {"requeue", "reattach"}
  BY DEF NextDetachers
<1>2. /\ \A k \in Handlers \ {h} : pc'[k] = pc[k]
      /\ row.pr \in Prs /\ row'.pr = DETACHED
  BY <1>1, DetachStarts DEF Compensating
<1>3. detachers = {} /\ requeues = 0
  BY <1>2 DEF OneRetry, HistoryTypeOK
<1>4. requeues' = 0
  BY <1>3 DEF NextRequeues
<1>5. detachers' = {h}
  BY <1>2, <1>3 DEF NextDetachers
<1>. QED
  BY <1>2, <1>4, <1>5

LEMMA OneRetryStep ==
    ASSUME TypeOK, LocalInv, HistoryTypeOK, OneRetry, HNext
    PROVE  OneRetry'
<1>. /\ Next /\ detachers' = NextDetachers /\ requeues' = NextRequeues
     /\ detachers \subseteq Handlers /\ requeues \in Nat /\ DETACHED \notin Prs
  BY NullIsNoValue DEF HNext, HistoryTypeOK
<1>1. CASE Recorded
  <2>1. detachers' = {} /\ requeues' = 0 /\ row'.pr # DETACHED
    BY <1>1 DEF Recorded, NextDetachers, NextRequeues
  <2>. QED
    BY <2>1 DEF OneRetry
<1>2. ASSUME NEW h \in detachers', h \notin detachers
      PROVE  OneRetry'
  <2>1. /\ \A k \in Handlers \ {h} : pc'[k] = pc[k]
        /\ row.pr \in Prs /\ row'.pr = DETACHED
        /\ detachers' = {h} /\ requeues' = 0
    BY <1>2, NewDetacher
  <2>2. Compensating(h)'
    BY DEF NextDetachers, Compensating
  <2>3. ASSUME NEW k \in Handlers \ {h}, Compensating(k)', row'.stamp = k
        PROVE  FALSE
    <3>1. Compensating(k)
      BY <2>1, <2>3 DEF Compensating
    <3>2. row'.pr = row.pr
      BY <2>3, <3>1, StampKept DEF Association
    <3>. QED
      BY <2>1, <3>2
  <2>. QED
    BY <2>1, <2>2, <2>3 DEF OneRetry
<1>3. CASE ~Recorded /\ detachers' \subseteq detachers
  <2>1. \A h \in detachers' : Compensating(h)'
    BY DEF NextDetachers, Compensating
  <2>2. \A h, k \in detachers' : h = k
    BY <1>3 DEF OneRetry
  <2>3. requeues' <= 1 /\ (requeues' = 1 => detachers' = {})
    <3>1. ASSUME NEW h \in detachers, Confirmed(h)
          PROVE  requeues' = 1 /\ detachers' = {}
      <4>1. requeues = 0 /\ \A k \in detachers : k = h
        BY DEF OneRetry
      <4>2. h \notin detachers'
        BY <3>1 DEF Confirmed, NextDetachers
      <4>. QED
        BY <1>3, <3>1, <4>1, <4>2 DEF NextRequeues
    <3>2. CASE ~ \E h \in detachers : Confirmed(h)
      BY <1>3, <3>2 DEF NextRequeues, OneRetry
    <3>. QED
      BY <3>1, <3>2
  <2>4. ASSUME row'.pr \in Prs
        PROVE  requeues' # 1 /\ detachers' = {}
    <3>1. CASE row.pr \in Prs
      <4>1. detachers = {} /\ requeues # 1
        BY <3>1 DEF OneRetry
      <4>. QED
        BY <1>3, <4>1 DEF NextRequeues
    <3>2. CASE row.pr \notin Prs
      <4>1. PICK h \in Handlers : pc[h] = "reattach" /\ Moves(h)
        BY <1>3, <2>4, <3>2 DEF Recorded
      <4>2. /\ \A k \in Handlers \ {h} : pc'[k] = pc[k]
            /\ pc'[h] = "idle"
            /\ row.stamp = h /\ row.pr = DETACHED
        BY <2>4, <3>2, <4>1, LeavesReattach
      <4>3. h \in detachers /\ requeues = 0
        BY <4>1, <4>2 DEF OneRetry, Compensating
      <4>4. detachers' = {}
        BY <1>3, <4>2, <4>3 DEF OneRetry, NextDetachers
      <4>5. ~ \E k \in detachers : Confirmed(k)
        BY <4>1, <4>3 DEF OneRetry, Confirmed, Requeue
      <4>. QED
        BY <1>3, <4>3, <4>4, <4>5 DEF NextRequeues
    <3>. QED
      BY <3>1, <3>2
  <2>5. ASSUME NEW h \in Handlers, Compensating(h)', row'.stamp = h, row'.pr = DETACHED
        PROVE  h \in detachers'
    <3>1. pc'[h] \in {"requeue", "reattach"}
      BY <2>5 DEF Compensating
    <3>2. CASE Compensating(h)
      <4>1. row.stamp = h /\ row.pr = DETACHED
        BY <2>5, <3>2, StampKept DEF Association
      <4>. QED
        BY <1>3, <3>1, <3>2, <4>1 DEF OneRetry, NextDetachers
    <3>3. CASE ~Compensating(h)
      BY <1>3, <3>1, <3>3, DetachStarts DEF NextDetachers
    <3>. QED
      BY <3>2, <3>3
  <2>. QED
    BY <2>1, <2>2, <2>3, <2>4, <2>5 DEF OneRetry
<1>. QED
  BY <1>1, <1>2, <1>3 DEF NextDetachers

\* However many deliveries of a closed pull request are handled at once, and
\* however often each is replayed, they publish one confirmed retry at most
\* before a pull request is recorded on the row again.
THEOREM RequeuedOnce == HSpec => []NoDoubleRequeue
<1>. DEFINE Inv == TypeOK /\ LocalInv /\ HistoryTypeOK /\ OneRetry
<1>1. HInit => Inv
  <2>. SUFFICES ASSUME HInit PROVE Inv
    OBVIOUS
  <2>1. TypeOK /\ LocalInv /\ HistoryTypeOK
    BY ClaimInvInit DEF ClaimInv
  <2>2. \A h \in Handlers : ~Compensating(h)
    BY DEF HInit, Init, Compensating, Procs
  <2>. QED
    BY <2>1, <2>2 DEF HInit, OneRetry
<1>2. Inv /\ [HNext]_hvars => Inv'
  <2>. SUFFICES ASSUME Inv, [HNext]_hvars PROVE Inv'
    OBVIOUS
  <2>1. CASE HNext
    BY <2>1, TypeStep, LocalStep, HistoryTypeStep, OneRetryStep DEF HNext
  <2>2. CASE UNCHANGED hvars
    <3>1. UNCHANGED <<vars, creator, touched, detachers, requeues>> /\ UNCHANGED <<pc, row>>
      BY <2>2 DEF hvars, history, vars
    <3>2. TypeOK' /\ LocalInv'
      BY <3>1, TypeStep, LocalStep
    <3>. QED
      BY <3>1, <3>2 DEF HistoryTypeOK, OneRetry, Compensating
  <2>. QED
    BY <2>1, <2>2
<1>3. Inv => NoDoubleRequeue
  BY DEF OneRetry, NoDoubleRequeue
<1>. QED
  BY <1>1, <1>2, <1>3, PTL DEF HSpec

=============================================================================
