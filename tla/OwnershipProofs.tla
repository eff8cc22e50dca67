-------------------------- MODULE OwnershipProofs --------------------------
(***************************************************************************)
(* Remediation implements PollOwnership, for every number of workers,      *)
(* scanners, deliveries, sessions and tokens: each statement, broker call  *)
(* and failure of the service is one step of claiming and polling as       *)
(* PollOwnership allows it, or changes nothing of it.                      *)
(*                                                                         *)
(* The simulation rests on the types, on what processes hold at their      *)
(* statements (LocalInv of ClaimProofs), on the row's token having a       *)
(* session (TokenHasLease), and on where tokens may be (TokensPlaced).     *)
(***************************************************************************)
EXTENDS ClaimProofs, OwnershipRefinement, PollChains, FiniteSetTheorems

USE DEF Step, StepIf, Goto, Set, queues, procs, remote, bounds

\* Where a process can be that carries a token, what a poll carries, and what
\* it is that polls.
Placed(at, l) ==
    /\ l.token # NULL => at \in TokenKnownPcs \cup {"ack"}
    /\ l.task = "poll" => l.token # NULL
    /\ at \in PollPcs => l.task = "poll"

TokensPlaced == \A p \in Procs : Placed(pc[p], local[p])

\* The steps after which a process has the token and the task it had.
Steady(p) ==
    \/ FindPr(p) \/ LoadCompleted(p) \/ FlushCompleted(p) \/ Claim(p)
    \/ CreateSession(p) \/ LoadRecord(p) \/ FlushRecord(p) \/ RecordRaises(p)
    \/ LoadFailed(p) \/ FlushFailed(p) \/ ReleaseAll(p)
    \/ AskDevin(p) \/ LookupPr(p) \/ LoadPolled(p) \/ FlushPolled(p)
    \/ ReleaseOwn(p) \/ RenewPoll(p) \/ FlushOpened(p)
    \/ \E force \in BOOLEAN : ScanIssues(p, force)
    \/ \E pr \in Prs : PullRequestOpened(p, pr)

LEMMA SteadyKeeps ==
    ASSUME TypeOK, NEW p \in Procs, Steady(p)
    PROVE  local'[p].token = local[p].token /\ local'[p].task = local[p].task
<1>. local[p] \in Locals /\ local \in [Procs -> Locals]
  BY DEF TypeOK
<1>1. CASE FindPr(p)
  <2>1. \A pr : LET l == [local[p] EXCEPT !.seen = "absent", !.pr = pr]
                IN  l.token = local[p].token /\ l.task = local[p].task
    BY DEF Locals
  <2>2. \E pr : local'[p] \in {[local[p] EXCEPT !.seen = "absent"],
                               [local[p] EXCEPT !.seen = "absent", !.pr = pr]}
    BY <1>1 DEF FindPr
  <2>. QED
    BY <2>1, <2>2 DEF Locals
<1>2. CASE AskDevin(p)
  <2>. DEFINE status == MapDevinStatus(devin[local[p].session])
  <2>1. \A pr : LET l == [local[p] EXCEPT !.pr = pr, !.status = status]
                IN  l.token = local[p].token /\ l.task = local[p].task
    BY DEF Locals
  <2>. HIDE DEF status
  <2>2. CASE UNCHANGED local
    BY <2>2
  <2>3. ASSUME NEW pr, Set(p, [local[p] EXCEPT !.pr = pr, !.status = status])
        PROVE  local'[p].token = local[p].token /\ local'[p].task = local[p].task
    BY <2>1, <2>3
  <2>. QED
    BY <1>2, <2>2, <2>3 DEF AskDevin, status
<1>3. CASE CreateSession(p) \/ LookupPr(p)
  BY <1>3 DEF CreateSession, LookupPr, Locals
<1>4. CASE LoadPolled(p)
  BY <1>4 DEF LoadPolled, Locals
<1>5. CASE FlushPolled(p)
  BY <1>5 DEF FlushPolled, Locals
<1>6. CASE \/ LoadCompleted(p) \/ LoadRecord(p) \/ LoadFailed(p)
           \/ \E pr \in Prs : PullRequestOpened(p, pr)
  <2>1. \E change : local'[p] = [local[p] EXCEPT !.write = change]
    BY <1>6 DEF LoadCompleted, LoadRecord, LoadFailed, PullRequestOpened, Prepare
  <2>. QED
    BY <2>1 DEF Locals
<1>7. CASE FlushCompleted(p) \/ FlushRecord(p) \/ RecordRaises(p) \/ FlushFailed(p)
           \/ FlushOpened(p)
  BY <1>7 DEF FlushCompleted, FlushRecord, RecordRaises, FlushFailed, FlushOpened,
              Commit, Locals
<1>8. CASE \/ Claim(p) \/ ReleaseAll(p) \/ ReleaseOwn(p) \/ RenewPoll(p)
           \/ \E force \in BOOLEAN : ScanIssues(p, force)
  BY <1>8 DEF Claim, ReleaseAll, ReleaseOwn, RenewPoll, ScanIssues
<1>. QED
  BY <1>1, <1>2, <1>3, <1>4, <1>5, <1>6, <1>7, <1>8 DEF Steady

\* A step that keeps the token of a process keeps it where tokens may be.
LEMMA SteadyPlaced ==
    ASSUME TypeOK, NEW p \in Procs, Placed(pc[p], local[p]), Steady(p)
    PROVE  Placed(pc'[p], local'[p])
<1>1. local'[p].token = local[p].token /\ local'[p].task = local[p].task
  BY SteadyKeeps
<1>2. pc[p] \in TokenKnownPcs \cup {"ack"} => pc'[p] \in TokenKnownPcs \cup {"ack"}
  BY DEF TypeOK, Steady, FindPr, LoadCompleted, FlushCompleted, Claim, CreateSession,
         LoadRecord, FlushRecord, RecordRaises, LoadFailed, FlushFailed, ReleaseAll,
         AskDevin, LookupPr, LoadPolled, FlushPolled, ReleaseOwn, RenewPoll,
         FlushOpened, ScanIssues, PullRequestOpened,
         TokenKnownPcs, PollPcs, PublishPcs
<1>3. pc'[p] \in PollPcs => pc[p] \in PollPcs
  BY DEF TypeOK, Steady, FindPr, LoadCompleted, FlushCompleted, Claim, CreateSession,
         LoadRecord, FlushRecord, RecordRaises, LoadFailed, FlushFailed, ReleaseAll,
         AskDevin, LookupPr, LoadPolled, FlushPolled, ReleaseOwn, RenewPoll,
         FlushOpened, ScanIssues, PullRequestOpened, PollPcs
<1>. QED
  BY <1>1, <1>2, <1>3 DEF Placed

LEMMA OtherPlaced ==
    ASSUME TypeOK, NEW p \in Procs, Placed(pc[p], local[p]),
           Reads(p) \/ Conditional(p) \/ Blind(p), ~Steady(p)
    PROVE  Placed(pc'[p], local'[p])
<1>. local[p] \in Locals /\ pc \in [Procs -> Pcs] /\ local \in [Procs -> Locals]
  BY DEF TypeOK
<1>. \A at : at \notin PollPcs => Placed(at, Blank)
  BY DEF Placed, Blank
<1>1. CASE \E force \in BOOLEAN : ReceiveRemediation(p, force)
  BY <1>1 DEF ReceiveRemediation, Placed, Blank, PollPcs
<1>2. ASSUME NEW s \in Sessions, NEW t \in Tokens, ReceivePoll(p, s, t)
      PROVE  Placed(pc'[p], local'[p])
  <2>1. pc'[p] \in {"ask", "ack"} /\ local'[p].token = t /\ local'[p].task = "poll"
    BY <1>2 DEF ReceivePoll, Blank
  <2>. QED
    BY <2>1, NullIsNoValue DEF Placed, TokenKnownPcs, PollPcs
<1>3. CASE Ack(p) \/ Redeliver(p) \/ Abort(p) \/ Reattach(p)
           \/ \E pr \in Prs : PullRequestClosed(p, pr)
  BY <1>3 DEF Ack, Redeliver, Abort, Reattach, PullRequestClosed, Placed, Blank, PollPcs
<1>4. CASE GetUnpolled(p) \/ Requeue(p) \/ DetachClosedPr(p)
  BY <1>4 DEF GetUnpolled, Requeue, DetachClosedPr, Placed, Blank, TokenKnownPcs,
              PollPcs, PublishPcs
<1>5. ASSUME NEW at \in {"arm", "rearm"}, NEW onlyIfLost, ArmPoll(p, at, onlyIfLost)
      PROVE  Placed(pc'[p], local'[p])
  <2>1. CASE pc'[p] = "publish" /\ \E t \in FreshTokens :
                local'[p] = [local[p] EXCEPT !.token = t]
    <3>1. \E t \in Tokens : local'[p].token = t
      BY <2>1 DEF FreshTokens, Locals
    <3>. QED
      BY <2>1, <3>1, NullIsNoValue DEF Placed, TokenKnownPcs, PublishPcs, PollPcs
  <2>2. CASE pc'[p] = End(p) /\ local'[p] = AtEnd(p)
    BY <2>2, <1>5 DEF ArmPoll, End, AtEnd, Placed, Blank, PollPcs
  <2>. QED
    BY <1>5, <2>1, <2>2 DEF ArmPoll
<1>6. CASE PublishPoll(p) \/ Unpublish(p)
  BY <1>6 DEF PublishPoll, Unpublish, AtEnd, End, Placed, Blank, TokenKnownPcs, PublishPcs, PollPcs
<1>. QED
  BY <1>1, <1>2, <1>3, <1>4, <1>5, <1>6 DEF Reads, Conditional, Blind, Steady, Arm, Rearm

LEMMA SurroundingsKeepProcs ==
    ASSUME Surroundings
    PROVE  UNCHANGED <<pc, local, polls>>
BY DEF Surroundings, OpenPr, ClosePr, ReopenPr, MovePr, DevinMoves, IssueLabeled,
       IssueEdited, ExpireLease

LEMMA PlacedStep == TypeOK /\ TokensPlaced /\ [Next]_vars => TokensPlaced'
<1>. SUFFICES ASSUME TypeOK, TokensPlaced, [Next]_vars PROVE TokensPlaced'
  OBVIOUS
<1>1. ASSUME NEW p \in Procs, Reads(p) \/ Conditional(p) \/ Blind(p)
      PROVE  TokensPlaced'
  <2>. Placed(pc[p], local[p])
    BY DEF TokensPlaced
  <2>1. \A q \in Procs \ {p} : pc'[q] = pc[q] /\ local'[q] = local[q]
    BY <1>1, OthersStay
  <2>2. Placed(pc'[p], local'[p])
    BY <1>1, SteadyPlaced, OtherPlaced
  <2>. QED
    BY <2>1, <2>2 DEF TokensPlaced
<1>2. CASE UNCHANGED <<pc, local>>
  BY <1>2 DEF TokensPlaced
<1>. QED
  BY <1>1, <1>2, NextCases, SurroundingsKeepProcs DEF vars

(***************************************************************************)
(* What a step of one process does to the tokens that are about.           *)
(***************************************************************************)
InQueue(t) == \E s \in Sessions : polls[<<s, t>>] > 0

Holding(p) == pc[p] \notin {"idle", "ack"}

OnlyMoves(p) == \A q \in Procs \ {p} : pc'[q] = pc[q] /\ local'[q] = local[q]

LEMMA TokensKept ==
    ASSUME NEW p \in Procs, OnlyMoves(p), UNCHANGED polls,
           local'[p].token = local[p].token,
           local[p].token # NULL => (Holding(p) <=> Holding(p)')
    PROVE  UNCHANGED <<Circulating, Held>>
<1>1. \A q \in Procs : local'[q].token = local[q].token
  BY DEF OnlyMoves
<1>2. \A q \in Procs : local[q].token \in Tokens => (Holding(q) <=> Holding(q)')
  BY NullIsNoValue DEF OnlyMoves, Holding
<1>. QED
  BY <1>1, <1>2 DEF Circulating, Held, Holding

\* The token a process held is out of its hands: what Leave and Release allow.
Left(t) ==
    \/ UNCHANGED <<Circulating, Held>>
    \/ /\ Held' = Held \ {t}
       /\ Circulating' \in {Circulating, Circulating \ {t}}

LEMMA TokenLeft ==
    ASSUME NEW p \in Procs, OnlyMoves(p), NEW t, local[p].token = t,
           local'[p].token \in {t, NULL}, ~Holding(p)',
           \A u \in Tokens : InQueue(u) <=> InQueue(u)'
    PROVE  Left(t)
<1>. NULL \notin Tokens
  BY NullIsNoValue
<1>1. \A q \in Procs \ {p} : /\ local'[q].token = local[q].token
                             /\ Holding(q)' <=> Holding(q)
  BY DEF OnlyMoves, Holding
<1>2. \A u \in Tokens \ {t} : /\ u \in Circulating' <=> u \in Circulating
                              /\ u \in Held' <=> u \in Held
  BY <1>1 DEF Circulating, Held, InQueue, Holding
<1>3. Circulating \subseteq Tokens /\ Held \subseteq Tokens
      /\ Circulating' \subseteq Tokens /\ Held' \subseteq Tokens
  BY DEF Circulating, Held
<1>4. CASE \E q \in Procs \ {p} : local[q].token = t /\ Holding(q)
  <2>1. t \in Tokens => /\ t \in Circulating /\ t \in Circulating'
                        /\ t \in Held /\ t \in Held'
    BY <1>1, <1>4 DEF Circulating, Held, Holding
  <2>. QED
    BY <1>2, <1>3, <2>1 DEF Left
<1>5. CASE ~\E q \in Procs \ {p} : local[q].token = t /\ Holding(q)
  <2>1. t \notin Held'
    BY <1>1, <1>5 DEF Held, Holding
  <2>2. t \in Circulating' => t \in Circulating
    BY <1>1 DEF Circulating, InQueue
  <2>. QED
    BY <1>2, <1>3, <2>1, <2>2 DEF Left
<1>. QED
  BY <1>4, <1>5

\* A process that publishes or gives back its poll still has the token in the
\* queue, if nowhere else.
LEMMA TokenSent ==
    ASSUME TypeOK, NEW p \in Procs, OnlyMoves(p), NEW t, local[p].token = t,
           local'[p].token \in {t, NULL}, ~Holding(p)',
           NEW s, Send(s, t)
    PROVE  Left(t)
<1>. NULL \notin Tokens
  BY NullIsNoValue
<1>1. \A q \in Procs \ {p} : /\ local'[q].token = local[q].token
                             /\ Holding(q)' <=> Holding(q)
  BY DEF OnlyMoves, Holding
<1>2. \A m \in Sessions \X Tokens : polls'[m] = IF m = <<s, t>> THEN polls[m] + 1 ELSE polls[m]
  BY DEF TypeOK, Send
<1>3. \A u \in Tokens \ {t} : InQueue(u) <=> InQueue(u)'
  BY <1>2 DEF InQueue
<1>4. \A u \in Tokens \ {t} : /\ u \in Circulating' <=> u \in Circulating
                              /\ u \in Held' <=> u \in Held
  BY <1>1, <1>3 DEF Circulating, Held, InQueue, Holding
<1>5. /\ Circulating \subseteq Tokens /\ Held \subseteq Tokens
      /\ Circulating' \subseteq Tokens /\ Held' \subseteq Tokens
  BY DEF Circulating, Held
<1>6. t \in Tokens => t \in Circulating
  BY DEF Circulating
<1>7. CASE \E q \in Procs \ {p} : local[q].token = t /\ Holding(q)
  <2>1. t \in Tokens => /\ t \in Circulating' /\ t \in Held /\ t \in Held'
    BY <1>1, <1>7 DEF Circulating, Held, Holding
  <2>. QED
    BY <1>4, <1>5, <1>6, <2>1 DEF Left
<1>8. CASE ~\E q \in Procs \ {p} : local[q].token = t /\ Holding(q)
  <2>1. t \notin Held'
    BY <1>1, <1>8 DEF Held, Holding
  <2>. QED
    BY <1>4, <1>5, <1>6, <2>1 DEF Left
<1>. QED
  BY <1>7, <1>8

LEMMA TokenTaken ==
    ASSUME NEW p \in Procs, OnlyMoves(p), NEW t \in Tokens,
           local[p].token = NULL, local'[p].token = t,
           \A u \in Tokens \ {t} : InQueue(u) <=> InQueue(u)'
    PROVE  /\ Circulating' = Circulating \cup {t}
           /\ Held' = IF Holding(p)' THEN Held \cup {t} ELSE Held
<1>. NULL \notin Tokens
  BY NullIsNoValue
<1>1. \A q \in Procs \ {p} : /\ local'[q].token = local[q].token
                             /\ Holding(q)' <=> Holding(q)
  BY DEF OnlyMoves, Holding
<1>2. \A u \in Tokens \ {t} : /\ u \in Circulating' <=> u \in Circulating
                              /\ u \in Held' <=> u \in Held
  BY <1>1 DEF Circulating, Held, InQueue, Holding
<1>3. t \in Circulating'
  BY DEF Circulating
<1>4. t \in Held' <=> (Holding(p)' \/ t \in Held)
  BY <1>1 DEF Held, Holding
<1>5. /\ Circulating \subseteq Tokens /\ Held \subseteq Tokens
      /\ Circulating' \subseteq Tokens /\ Held' \subseteq Tokens
  BY DEF Circulating, Held
<1>. QED
  BY <1>2, <1>3, <1>4, <1>5

(***************************************************************************)
(* The simulation.                                                         *)
(***************************************************************************)
OwnershipStep == Ownership!Next \/ UNCHANGED Ownership!ownership

EntitledPcs == CreatorPcs \cup {"release_all", "arm"}

USE DEF Ownership!ownership, Ownership!tokens

LEMMA EntitledKept ==
    ASSUME NEW p \in Procs, OnlyMoves(p),
           pc[p] \in EntitledPcs <=> pc'[p] \in EntitledPcs
    PROVE  Entitled' = Entitled
BY DEF OnlyMoves, Entitled, EntitledPcs, Procs

LEMMA EntitledLeft ==
    ASSUME NEW p \in Procs, OnlyMoves(p), pc'[p] \notin EntitledPcs
    PROVE  Entitled' = Entitled \ {p}
BY DEF OnlyMoves, Entitled, EntitledPcs, Procs

\* An unconditional statement: whether the issue is open changes, or nothing.
LEMMA RewriteStep ==
    ASSUME row'.token = row.token, row'.lease = row.lease,
           UNCHANGED <<Entitled, Circulating, Held>>
    PROVE  OwnershipStep
BY DEF OwnershipStep, Ownership!Next, Ownership!Rewrite

\* Holds of the steps that only read, but for those that move a token.
LEMMA QuietSteps ==
    ASSUME TypeOK, TokensPlaced, NEW p \in Procs,
           \/ \E force \in BOOLEAN : ReceiveRemediation(p, force)
           \/ FindPr(p) \/ LoadCompleted(p) \/ CreateSession(p) \/ LoadRecord(p)
           \/ LoadFailed(p) \/ AskDevin(p) \/ LookupPr(p) \/ LoadPolled(p)
           \/ \E force \in BOOLEAN : ScanIssues(p, force)
           \/ GetUnpolled(p) \/ Requeue(p)
           \/ \E pr \in Prs : PullRequestOpened(p, pr) \/ PullRequestClosed(p, pr)
    PROVE  OwnershipStep
<1>. pc \in [Procs -> Pcs] /\ local \in [Procs -> Locals] /\ Placed(pc[p], local[p])
  BY DEF TypeOK, TokensPlaced
<1>1. OnlyMoves(p) /\ UNCHANGED <<row, polls>>
  <2>1. Reads(p)
    BY DEF Reads
  <2>2. UNCHANGED polls
    BY DEF ReceiveRemediation, FindPr, LoadCompleted, CreateSession, LoadRecord,
           LoadFailed, AskDevin, LookupPr, LoadPolled, ScanIssues, GetUnpolled,
           Requeue, PullRequestOpened, PullRequestClosed
  <2>. QED
    BY <2>1, <2>2, OthersStay, ReadersKeep DEF OnlyMoves
<1>2. pc[p] \in EntitledPcs <=> pc'[p] \in EntitledPcs
  BY DEF EntitledPcs, CreatorPcs, ReceiveRemediation, FindPr, LoadCompleted,
         CreateSession, LoadRecord, LoadFailed, AskDevin, LookupPr, LoadPolled,
         ScanIssues, GetUnpolled, Requeue, PullRequestOpened, PullRequestClosed
<1>3. /\ local'[p].token = local[p].token
      /\ local[p].token # NULL => (Holding(p) <=> Holding(p)')
  <2>1. CASE \/ FindPr(p) \/ LoadCompleted(p) \/ CreateSession(p) \/ LoadRecord(p)
             \/ LoadFailed(p)
             \/ \E force \in BOOLEAN : ScanIssues(p, force)
             \/ \E pr \in Prs : PullRequestOpened(p, pr)
    <3>1. local[p].token = NULL
      BY <2>1 DEF Placed, TokenKnownPcs, PollPcs, PublishPcs, FindPr, LoadCompleted,
                  CreateSession, LoadRecord, LoadFailed, ScanIssues, PullRequestOpened
    <3>. QED
      BY <2>1, <3>1, SteadyKeeps DEF Steady
  <2>2. CASE AskDevin(p) \/ LookupPr(p) \/ LoadPolled(p)
    <3>1. Holding(p) /\ Holding(p)'
      BY <2>2 DEF Holding, AskDevin, LookupPr, LoadPolled
    <3>. QED
      BY <2>2, <3>1, SteadyKeeps DEF Steady
  <2>3. CASE \/ \E force \in BOOLEAN : ReceiveRemediation(p, force)
             \/ GetUnpolled(p) \/ Requeue(p)
             \/ \E pr \in Prs : PullRequestClosed(p, pr)
    <3>1. local[p].token = NULL
      BY <2>3 DEF Placed, TokenKnownPcs, PollPcs, PublishPcs, ReceiveRemediation,
                  GetUnpolled, Requeue, PullRequestClosed
    <3>2. ASSUME NEW force \in BOOLEAN, ReceiveRemediation(p, force)
          PROVE  local'[p].token = NULL
      BY <3>2 DEF ReceiveRemediation, Blank
    <3>3. CASE GetUnpolled(p)
      BY <3>1, <3>3 DEF GetUnpolled, Blank
    <3>4. CASE Requeue(p)
      <4>1. Blank.token = NULL
        BY DEF Blank
      <4>. QED
        BY <3>1, <3>4, <4>1 DEF Requeue
    <3>5. ASSUME NEW pr \in Prs, PullRequestClosed(p, pr)
          PROVE  local'[p].token = NULL
      BY <3>5 DEF PullRequestClosed, Blank
    <3>. QED
      BY <2>3, <3>1, <3>2, <3>3, <3>4, <3>5
  <2>. QED
    BY <2>1, <2>2, <2>3
<1>. QED
  BY <1>1, <1>2, <1>3, TokensKept, EntitledKept, RewriteStep

LEMMA FlushSteps ==
    ASSUME TypeOK, TokensPlaced, NEW p \in Procs,
           \/ FlushCompleted(p) \/ FlushRecord(p) \/ RecordRaises(p)
           \/ FlushFailed(p) \/ FlushPolled(p) \/ FlushOpened(p)
    PROVE  OwnershipStep
<1>. pc \in [Procs -> Pcs] /\ row \in Rows /\ Placed(pc[p], local[p])
     /\ local[p].write \in Writes
  BY DEF TypeOK, TokensPlaced, Locals
<1>1. OnlyMoves(p)
  BY OthersStay DEF Blind, OnlyMoves
<1>2. UNCHANGED polls
  BY DEF FlushCompleted, FlushRecord, RecordRaises, FlushFailed, FlushPolled, FlushOpened
<1>3. row'.token = row.token /\ row'.lease = row.lease
  <2>1. row' = row \/ row' = Flushed(row, local[p].write)
    BY DEF FlushCompleted, FlushRecord, RecordRaises, FlushFailed, FlushPolled,
           FlushOpened, Commit
  <2>. QED
    BY <2>1, FlushKeepsToken
<1>4. pc[p] \in EntitledPcs <=> pc'[p] \in EntitledPcs
  BY DEF EntitledPcs, CreatorPcs, FlushCompleted, FlushRecord, RecordRaises,
         FlushFailed, FlushPolled, FlushOpened
<1>5. local'[p].token = local[p].token
  BY SteadyKeeps DEF Steady
<1>6. local[p].token # NULL => (Holding(p) <=> Holding(p)')
  BY DEF Placed, Holding, TokenKnownPcs, PollPcs, PublishPcs, FlushCompleted,
         FlushRecord, RecordRaises, FlushFailed, FlushPolled, FlushOpened
<1>. QED
  BY <1>1, <1>2, <1>3, <1>4, <1>5, <1>6, TokensKept, EntitledKept, RewriteStep

\* What a creator's process has in its hands: no token.
LEMMA CreatorsHoldNone ==
    ASSUME TypeOK, TokensPlaced, NEW p \in Procs, pc[p] \in EntitledPcs \cup {"claim", "rearm"}
    PROVE  local[p].token = NULL
BY DEF TypeOK, TokensPlaced, Placed, EntitledPcs, CreatorPcs, TokenKnownPcs, PollPcs,
       PublishPcs

LEMMA ClaimSteps ==
    ASSUME TypeOK, TokenHasLease, TokensPlaced, NEW w \in Workers, Claim(w)
    PROVE  OwnershipStep
<1>. w \in Procs /\ row \in Rows /\ pc \in [Procs -> Pcs]
  BY DEF TypeOK, Procs
<1>1. OnlyMoves(w) /\ UNCHANGED <<polls, local>>
  BY OthersStay DEF Conditional, OnlyMoves, Claim
<1>2. local[w].token = NULL
  BY CreatorsHoldNone DEF Claim
<1>3. UNCHANGED <<Circulating, Held>>
  BY <1>1, <1>2, TokensKept
<1>4. CASE Claimable(row)
  <2>1. pc[w] = "claim" /\ pc'[w] = "create" /\ row' = Claimed(row)
    BY <1>4 DEF Claim
  <2>2. w \notin Entitled /\ Entitled' = Entitled \cup {w}
    BY <1>1, <2>1 DEF OnlyMoves, Entitled, CreatorPcs, Procs
  <2>3. row.status # "running" \/ (row.token = NULL /\ row.lease # "live")
    BY <1>4 DEF Claimable, LeaseLost, TokenHasLease
  <2>4. row'.status = "running" /\ row'.token = NULL /\ row'.lease = "live"
    BY <2>1 DEF Claimed, Rows
  <2>5. Ownership!Claim(w)
    BY <1>3, <2>2, <2>3, <2>4 DEF Ownership!Claim, Ownership!Lost
  <2>. QED
    BY <2>5 DEF OwnershipStep, Ownership!Next
<1>5. CASE ~Claimable(row)
  <2>1. row' = row /\ pc[w] \notin EntitledPcs /\ pc'[w] \notin EntitledPcs
    BY <1>5 DEF Claim, EntitledPcs, CreatorPcs
  <2>. QED
    BY <1>1, <1>3, <2>1, EntitledKept, RewriteStep
<1>. QED
  BY <1>4, <1>5

LEMMA DropSteps ==
    ASSUME TypeOK, TokensPlaced, NEW w \in Workers, ReleaseAll(w)
    PROVE  OwnershipStep
<1>. w \in Procs /\ row \in Rows /\ pc \in [Procs -> Pcs]
  BY DEF TypeOK, Procs
<1>1. OnlyMoves(w) /\ UNCHANGED <<polls, local>>
  BY OthersStay DEF Blind, OnlyMoves, ReleaseAll
<1>2. local[w].token = NULL
  BY CreatorsHoldNone DEF ReleaseAll, EntitledPcs
<1>3. UNCHANGED <<Circulating, Held>>
  BY <1>1, <1>2, TokensKept
<1>4. w \in Entitled /\ Entitled' = Entitled \ {w}
  BY <1>1, EntitledLeft DEF ReleaseAll, Entitled, EntitledPcs, CreatorPcs
<1>5. row'.status = row.status /\ row'.token = NULL /\ row'.lease = "none"
  BY DEF ReleaseAll, Released, Rows
<1>6. Ownership!Drop(w)
  BY <1>3, <1>4, <1>5 DEF Ownership!Drop
<1>. QED
  BY <1>6 DEF OwnershipStep, Ownership!Next

\* A granted arm_poll: the fresh token is in the hands of its process alone.
LEMMA Armed ==
    ASSUME TypeOK, TokensPlaced, NEW p \in Procs, NEW at \in {"arm", "rearm"}, NEW onlyIfLost,
           ArmPoll(p, at, onlyIfLost), PollGrantable(row, local[p].session, onlyIfLost)
    PROVE  /\ OnlyMoves(p) /\ pc'[p] = "publish"
           /\ \E t \in Tokens : Ownership!Own(t)
           /\ UNCHANGED row.status
<1>. row \in Rows /\ pc \in [Procs -> Pcs] /\ local \in [Procs -> Locals]
  BY DEF TypeOK
<1>. HIDE DEF Goto, Set
<1>1. PICK t \in FreshTokens : /\ row' = PollClaimed(row, t)
                               /\ Goto(p, "publish")
                               /\ Set(p, [local[p] EXCEPT !.token = t])
  BY Zenon DEF ArmPoll
<1>. USE DEF Goto, Set
<1>2. t \in Tokens /\ row.token # t /\ t \notin Circulating
  <2>1. /\ t \in Tokens /\ row.token # t
        /\ \A s \in Sessions : polls[<<s, t>>] = 0
        /\ \A q \in Procs : local[q].token # t
    BY DEF FreshTokens
  <2>2. ASSUME NEW s \in Sessions PROVE ~(polls[<<s, t>>] > 0)
    <3>1. polls[<<s, t>>] = 0
      BY <2>1
    <3>. QED
      BY <3>1
  <2>. QED
    BY <2>1, <2>2 DEF Circulating
<1>3. OnlyMoves(p) /\ UNCHANGED polls
  BY <1>1 DEF OnlyMoves, ArmPoll
<1>4. local[p].token = NULL /\ local'[p].token = t
  <2>1. local[p].token = NULL
    BY CreatorsHoldNone DEF ArmPoll, EntitledPcs
  <2>. QED
    BY <1>1, <2>1 DEF Locals
<1>5. pc'[p] = "publish" /\ Holding(p)'
  BY <1>1 DEF Holding
<1>6. Circulating' = Circulating \cup {t} /\ Held' = Held \cup {t}
  BY <1>2, <1>3, <1>4, <1>5, TokenTaken DEF InQueue
<1>7. row.status = "running" /\ row'.status = "running" /\ row'.token = t /\ row'.lease = "live"
  BY <1>1 DEF PollGrantable, PollClaimed, Rows
<1>8. Ownership!Own(t)
  BY <1>2, <1>6, <1>7 DEF Ownership!Own, Ownership!Fresh
<1>. QED
  BY <1>2, <1>3, <1>5, <1>7, <1>8

LEMMA ArmSteps ==
    ASSUME TypeOK, TokensPlaced, NEW w \in Workers, Arm(w)
    PROVE  OwnershipStep
<1>. w \in Procs
  BY DEF Procs
<1>1. w \in Entitled
  BY DEF Arm, ArmPoll, Entitled
<1>2. CASE PollGrantable(row, local[w].session, FALSE)
  <2>1. PICK t \in Tokens : Ownership!Own(t)
    BY <1>2, Armed DEF Arm
  <2>2. OnlyMoves(w) /\ pc'[w] = "publish"
    BY <1>2, Armed DEF Arm
  <2>3. Entitled' = Entitled \ {w}
    BY <2>2, EntitledLeft DEF EntitledPcs, CreatorPcs
  <2>4. Ownership!Install(w, t)
    BY <1>1, <2>1, <2>3 DEF Ownership!Install
  <2>. QED
    BY <2>4 DEF OwnershipStep, Ownership!Next
<1>3. CASE ~PollGrantable(row, local[w].session, FALSE)
  <2>1. row' = row /\ UNCHANGED <<polls, local>> /\ pc'[w] = "ack"
    BY <1>3 DEF Arm, ArmPoll, End, AtEnd, TypeOK
  <2>2. OnlyMoves(w)
    BY OthersStay DEF Conditional, OnlyMoves
  <2>3. local[w].token = NULL
    BY CreatorsHoldNone DEF Arm, ArmPoll, EntitledPcs
  <2>4. UNCHANGED <<Circulating, Held>>
    BY <2>1, <2>2, <2>3, TokensKept
  <2>5. Entitled' = Entitled \ {w}
    BY <2>1, <2>2, EntitledLeft DEF EntitledPcs, CreatorPcs
  <2>6. Ownership!Retire(w)
    BY <1>1, <2>1, <2>4, <2>5 DEF Ownership!Retire
  <2>. QED
    BY <2>6 DEF OwnershipStep, Ownership!Next
<1>. QED
  BY <1>2, <1>3

LEMMA RearmSteps ==
    ASSUME TypeOK, TokensPlaced, NEW p \in Procs, Rearm(p)
    PROVE  OwnershipStep
<1>. pc \in [Procs -> Pcs] /\ row \in Rows
  BY DEF TypeOK
<1>1. pc[p] \notin EntitledPcs
  BY DEF Rearm, ArmPoll, EntitledPcs, CreatorPcs
<1>2. CASE PollGrantable(row, local[p].session, TRUE)
  <2>1. PICK t \in Tokens : Ownership!Own(t)
    BY <1>2, Armed DEF Rearm
  <2>2. OnlyMoves(p) /\ pc'[p] = "publish"
    BY <1>2, Armed DEF Rearm
  <2>3. Entitled' = Entitled
    BY <1>1, <2>2, EntitledKept DEF EntitledPcs, CreatorPcs
  <2>4. row.lease # "live"
    BY <1>2 DEF PollGrantable, LeaseLost
  <2>5. Ownership!TakeOver(t)
    BY <2>1, <2>3, <2>4 DEF Ownership!TakeOver, Ownership!Lost
  <2>. QED
    BY <2>5 DEF OwnershipStep, Ownership!Next
<1>3. CASE ~PollGrantable(row, local[p].session, TRUE)
  <2>1. row' = row /\ UNCHANGED polls /\ pc'[p] = End(p) /\ local'[p] = AtEnd(p)
    BY <1>3 DEF Rearm, ArmPoll, TypeOK
  <2>2. OnlyMoves(p)
    BY OthersStay DEF Conditional, OnlyMoves
  <2>3. local[p].token = NULL
    BY CreatorsHoldNone DEF Rearm, ArmPoll
  <2>4. local'[p].token = NULL
    BY <2>1, <2>3 DEF AtEnd, Blank
  <2>5. UNCHANGED <<Circulating, Held>>
    BY <2>1, <2>2, <2>3, <2>4, TokensKept
  <2>6. pc'[p] \notin EntitledPcs
    BY <2>1 DEF End, EntitledPcs, CreatorPcs
  <2>. QED
    BY <1>1, <2>1, <2>2, <2>5, <2>6, EntitledKept, RewriteStep
<1>. QED
  BY <1>2, <1>3

LEMMA LeaveStep ==
    ASSUME NEW t \in Tokens, Left(t), row' = row, Entitled' = Entitled
    PROVE  OwnershipStep
<1>1. CASE UNCHANGED <<Circulating, Held>>
  BY <1>1, RewriteStep
<1>2. CASE Held' = Held \ {t} /\ Circulating' \in {Circulating, Circulating \ {t}}
  <2>1. Ownership!Leave(t)
    BY <1>2 DEF Ownership!Leave
  <2>. QED
    BY <2>1 DEF OwnershipStep, Ownership!Next
<1>. QED
  BY <1>1, <1>2 DEF Left

LEMMA ReleaseStep ==
    ASSUME TypeOK, NEW t \in Tokens, t \in Held, Left(t),
           row' = Released(row, t), Entitled' = Entitled
    PROVE  OwnershipStep
<1>. row \in Rows /\ t # NULL
  BY NullIsNoValue DEF TypeOK
<1>1. CASE row.token # t
  <2>1. row' = row
    BY <1>1 DEF Released
  <2>. QED
    BY <2>1, LeaveStep
<1>2. CASE row.token = t
  <2>1. row'.status = row.status /\ row'.token = NULL /\ row'.lease = "none"
    BY <1>2 DEF Released, Rows
  <2>2. Ownership!Release(t)
    BY <1>2, <2>1 DEF Left, Ownership!Release
  <2>. QED
    BY <2>2 DEF OwnershipStep, Ownership!Next
<1>. QED
  BY <1>1, <1>2

\* The process that works under a token is known to it, and to the queue.
LEMMA KnownToken ==
    ASSUME TypeOK, LocalInv, NEW p \in Procs, pc[p] \in TokenKnownPcs
    PROVE  /\ local[p].token \in Tokens /\ local[p].session \in Sessions
           /\ local[p].token \in Held /\ local[p].token \in Circulating
           /\ pc[p] \notin EntitledPcs
<1>1. local[p].token \in Tokens /\ local[p].session \in Sessions
  <2>1. local[p] \in Locals /\ local[p].token # NULL /\ local[p].session # NULL
    BY DEF TypeOK, LocalInv, ProcessOK, SessionKnownPcs, TokenKnownPcs
  <2>. QED
    BY <2>1 DEF Locals
<1>2. pc[p] \notin {"idle", "ack"} /\ pc[p] \notin EntitledPcs
  BY DEF EntitledPcs, CreatorPcs, TokenKnownPcs, PollPcs, PublishPcs
<1>. QED
  BY <1>1, <1>2 DEF Held, Circulating

LEMMA PublishSteps ==
    ASSUME TypeOK, LocalInv, NEW p \in Procs, PublishPoll(p)
    PROVE  OwnershipStep
<1>. DEFINE s == local[p].session
            t == local[p].token
<1>. pc \in [Procs -> Pcs] /\ local \in [Procs -> Locals]
  BY DEF TypeOK
<1>1. /\ OnlyMoves(p) /\ row' = row
  BY OthersStay DEF Reads, OnlyMoves, PublishPoll
<1>2. s \in Sessions /\ t \in Tokens /\ pc[p] \notin EntitledPcs /\ Holding(p)
  BY KnownToken DEF TokenKnownPcs, PollPcs, PublishPcs, PublishPoll, Holding
<1>3. pc'[p] \notin EntitledPcs
  BY DEF PublishPoll, End, EntitledPcs, CreatorPcs
<1>4. Entitled' = Entitled
  BY <1>1, <1>2, <1>3, EntitledKept
<1>5. CASE Send(s, t) /\ Goto(p, End(p)) /\ Set(p, AtEnd(p))
  <2>1. local'[p].token \in {t, NULL} /\ ~Holding(p)'
    BY <1>5 DEF AtEnd, End, Blank, Holding
  <2>2. Left(t)
    BY <1>1, <1>5, <2>1, TokenSent
  <2>. QED
    BY <1>1, <1>2, <1>4, <2>2, LeaveStep
<1>6. CASE /\ Send(s, t) \/ UNCHANGED polls
           /\ Goto(p, "unpublish") /\ UNCHANGED local
  <2>1. pc'[p] = "unpublish" /\ local'[p].token = t /\ Holding(p)'
    BY <1>6 DEF Holding
  <2>2. \A u \in Tokens \ {t} : \A r \in Sessions : polls'[<<r, u>>] = polls[<<r, u>>]
    BY <1>6 DEF Send, TypeOK
  <2>3. UNCHANGED <<Circulating, Held>>
    <3>1. \A u \in Tokens \ {t} : /\ u \in Circulating' <=> u \in Circulating
                                  /\ u \in Held' <=> u \in Held
      BY <1>1, <1>2, <2>1, <2>2 DEF Circulating, Held, OnlyMoves, Holding
    <3>2. t \in Circulating /\ t \in Circulating' /\ t \in Held /\ t \in Held'
      BY <1>2, <2>1 DEF Circulating, Held, Holding
    <3>3. /\ Circulating \subseteq Tokens /\ Held \subseteq Tokens
          /\ Circulating' \subseteq Tokens /\ Held' \subseteq Tokens
      BY DEF Circulating, Held
    <3>. QED
      BY <3>1, <3>2, <3>3
  <2>. QED
    BY <1>1, <1>4, <2>3, RewriteStep
<1>. QED
  BY <1>5, <1>6 DEF PublishPoll

LEMMA UnpublishSteps ==
    ASSUME TypeOK, LocalInv, NEW p \in Procs, Unpublish(p) \/ ReleaseOwn(p)
    PROVE  OwnershipStep
<1>. DEFINE t == local[p].token
<1>. pc \in [Procs -> Pcs] /\ local \in [Procs -> Locals]
  BY DEF TypeOK
<1>1. OnlyMoves(p)
  BY OthersStay DEF Conditional, OnlyMoves
<1>2. t \in Tokens /\ t \in Held /\ pc[p] \notin EntitledPcs
  BY KnownToken DEF TokenKnownPcs, PollPcs, PublishPcs, Unpublish, ReleaseOwn
<1>3. row' = Released(row, t) /\ UNCHANGED polls
  BY DEF Unpublish, ReleaseOwn
<1>4. pc'[p] \in {"idle", "ack"} /\ local'[p].token \in {t, NULL}
  BY DEF Unpublish, ReleaseOwn, End, AtEnd, Blank
<1>5. pc'[p] \notin EntitledPcs /\ ~Holding(p)'
  BY <1>4 DEF EntitledPcs, CreatorPcs, Holding
<1>6. Left(t)
  BY <1>1, <1>3, <1>4, <1>5, TokenLeft DEF InQueue
<1>7. Entitled' = Entitled
  BY <1>1, <1>2, <1>5, EntitledKept
<1>. QED
  BY <1>2, <1>3, <1>6, <1>7, ReleaseStep

LEMMA RenewSteps ==
    ASSUME TypeOK, LocalInv, NEW p \in Procs, RenewPoll(p)
    PROVE  OwnershipStep
<1>. DEFINE t == local[p].token
<1>. pc \in [Procs -> Pcs] /\ row \in Rows
  BY DEF TypeOK
<1>1. OnlyMoves(p) /\ UNCHANGED <<polls, local>>
  BY OthersStay DEF Conditional, OnlyMoves, RenewPoll
<1>2. t \in Tokens /\ t \in Held /\ pc[p] \notin EntitledPcs /\ Holding(p)
  BY KnownToken DEF TokenKnownPcs, PollPcs, PublishPcs, RenewPoll, Holding
<1>3. pc'[p] \in {"publish", "ack"}
  BY DEF RenewPoll
<1>4. Entitled' = Entitled
  BY <1>1, <1>2, <1>3, EntitledKept DEF EntitledPcs, CreatorPcs
<1>5. CASE Renewable(row, t)
  <2>1. pc'[p] = "publish" /\ row' = Renewed(row)
    BY <1>5 DEF RenewPoll
  <2>2. UNCHANGED <<Circulating, Held>>
    BY <1>1, <1>2, <2>1, TokensKept DEF Holding
  <2>3. row'.status = row.status /\ row'.token = row.token /\ row'.lease = "live"
    BY <2>1 DEF Renewed, Rows
  <2>4. Ownership!Renew(t)
    BY <1>2, <1>4, <1>5, <2>2, <2>3 DEF Renewable, Ownership!Renew
  <2>. QED
    BY <1>2, <2>4 DEF OwnershipStep, Ownership!Next
<1>6. CASE ~Renewable(row, t)
  <2>1. pc'[p] = "ack" /\ row' = row
    BY <1>6 DEF RenewPoll
  <2>2. Left(t)
    BY <1>1, <2>1, TokenLeft DEF Holding, InQueue
  <2>. QED
    BY <1>2, <1>4, <2>1, <2>2, LeaveStep
<1>. QED
  BY <1>5, <1>6

LEMMA ReceivePollSteps ==
    ASSUME TypeOK, TokensPlaced, NEW p \in Procs, NEW s \in Sessions, NEW t \in Tokens,
           ReceivePoll(p, s, t)
    PROVE  OwnershipStep
<1>. pc \in [Procs -> Pcs] /\ local \in [Procs -> Locals]
  BY DEF TypeOK
<1>1. OnlyMoves(p) /\ row' = row
  BY OthersStay, ReadersKeep DEF Reads, OnlyMoves
<1>2. t \in Circulating
  BY DEF ReceivePoll, Circulating
<1>3. local[p].token = NULL /\ pc[p] = "idle"
  BY DEF ReceivePoll, TokensPlaced, Placed, TokenKnownPcs, PollPcs, PublishPcs
<1>4. local'[p].token = t /\ pc'[p] \in {"ask", "ack"}
  BY DEF ReceivePoll, Blank
<1>5. \A u \in Tokens \ {t} : InQueue(u) <=> InQueue(u)'
  <2>1. \A u \in Tokens \ {t} : \A r \in Sessions : polls'[<<r, u>>] = polls[<<r, u>>]
    BY DEF ReceivePoll, TypeOK
  <2>. QED
    BY <2>1 DEF InQueue
<1>6. Circulating' = Circulating /\ Held' = IF Holding(p)' THEN Held \cup {t} ELSE Held
  <2>1. Circulating' = Circulating \cup {t} /\ Held' = IF Holding(p)' THEN Held \cup {t} ELSE Held
    BY <1>1, <1>3, <1>4, <1>5, TokenTaken, Zenon
  <2>. QED
    BY <1>2, <2>1
<1>7. Entitled' = Entitled
  BY <1>1, <1>3, <1>4, EntitledKept DEF EntitledPcs, CreatorPcs
<1>8. CASE Holding(p)'
  <2>1. Ownership!Take(t)
    BY <1>1, <1>2, <1>6, <1>7, <1>8 DEF Ownership!Take
  <2>. QED
    BY <2>1 DEF OwnershipStep, Ownership!Next
<1>9. CASE ~Holding(p)'
  BY <1>1, <1>6, <1>7, <1>9, RewriteStep
<1>. QED
  BY <1>8, <1>9

\* A process is done, or gone.
LEMMA EndSteps ==
    ASSUME TypeOK, TokensPlaced, NEW p \in Procs,
           Ack(p) \/ Abort(p) \/ (p \in Workers /\ Redeliver(p))
    PROVE  OwnershipStep
<1>. DEFINE t == local[p].token
<1>. pc \in [Procs -> Pcs] /\ local \in [Procs -> Locals] /\ NULL \notin Tokens
  BY NullIsNoValue DEF TypeOK
<1>1. OnlyMoves(p) /\ row' = row
  BY OthersStay, ReadersKeep DEF Reads, OnlyMoves
<1>2. t \in Tokens \cup {NULL}
  <2>1. local[p] \in Locals
    OBVIOUS
  <2>. QED
    BY <2>1 DEF Locals
<1>3. pc'[p] = "idle" /\ local'[p].token = NULL
  BY DEF Ack, Abort, Redeliver, Blank
<1>4. pc'[p] \notin EntitledPcs /\ ~Holding(p)'
  BY <1>3 DEF EntitledPcs, CreatorPcs, Holding
<1>5. CASE t \in Tokens
  <2>1. pc[p] \notin EntitledPcs
    BY <1>5, CreatorsHoldNone
  <2>2. Entitled' = Entitled
    BY <1>1, <1>4, <2>1, EntitledKept
  <2>3. Left(t)
    <3>1. CASE UNCHANGED polls
      BY <1>1, <1>3, <1>4, <3>1, TokenLeft DEF InQueue
    <3>2. CASE Send(local[p].session, t)
      BY <1>1, <1>3, <1>4, <3>2, TokenSent
    <3>. QED
      BY <3>1, <3>2 DEF Ack, Abort, Redeliver
  <2>. QED
    BY <1>1, <1>5, <2>2, <2>3, LeaveStep
<1>6. CASE t = NULL
  <2>1. UNCHANGED polls
    BY <1>6 DEF Ack, Abort, Redeliver, TokensPlaced, Placed
  <2>2. UNCHANGED <<Circulating, Held>>
    BY <1>1, <1>3, <1>6, <2>1, TokensKept
  <2>3. Entitled' = Entitled \ {p}
    BY <1>1, <1>4, EntitledLeft
  <2>4. CASE p \in Entitled
    <3>1. Ownership!Retire(p)
      BY <1>1, <2>2, <2>3, <2>4 DEF Ownership!Retire
    <3>2. p \in Workers
      BY <2>4 DEF Entitled
    <3>. QED
      BY <3>1, <3>2 DEF OwnershipStep, Ownership!Next
  <2>5. CASE p \notin Entitled
    BY <1>1, <2>2, <2>3, <2>5, RewriteStep
  <2>. QED
    BY <2>4, <2>5
<1>. QED
  BY <1>2, <1>5, <1>6

LEMMA WebhookSteps ==
    ASSUME TypeOK, TokensPlaced, NEW p \in Procs, DetachClosedPr(p) \/ Reattach(p)
    PROVE  OwnershipStep
<1>. pc \in [Procs -> Pcs] /\ local \in [Procs -> Locals] /\ row \in Rows
  BY DEF TypeOK
<1>1. OnlyMoves(p) /\ UNCHANGED polls
  BY OthersStay DEF Conditional, OnlyMoves, DetachClosedPr, Reattach
<1>2. row'.token = row.token /\ row'.lease = row.lease
  BY DEF DetachClosedPr, Reattach, Detached, Reattached, Rows
<1>3. local[p].token = NULL
  BY DEF DetachClosedPr, Reattach, TokensPlaced, Placed, TokenKnownPcs, PollPcs, PublishPcs
<1>4. local'[p].token = NULL
  BY <1>3 DEF DetachClosedPr, Reattach, Blank
<1>5. pc[p] \notin EntitledPcs /\ pc'[p] \notin EntitledPcs
  BY DEF DetachClosedPr, Reattach, EntitledPcs, CreatorPcs
<1>. QED
  BY <1>1, <1>2, <1>3, <1>4, <1>5, TokensKept, EntitledKept, RewriteStep

LEMMA SurroundingSteps ==
    ASSUME TypeOK, Surroundings
    PROVE  OwnershipStep
<1>. row \in Rows
  BY DEF TypeOK
<1>1. UNCHANGED <<Entitled, Circulating, Held>>
  BY SurroundingsKeepProcs DEF Entitled, Circulating, Held
<1>2. CASE ExpireLease
  <2>1. /\ row.lease = "live" /\ row'.lease = "expired"
        /\ row'.status = row.status /\ row'.token = row.token
    BY <1>2 DEF ExpireLease, Expired, Rows
  <2>2. Ownership!Lapse
    BY <1>1, <2>1 DEF Ownership!Lapse
  <2>. QED
    BY <2>2 DEF OwnershipStep, Ownership!Next
<1>3. CASE ~ExpireLease
  <2>1. row' = row \/ row' = Flushed(row, NoWrite)
    BY <1>3 DEF Surroundings, OpenPr, ClosePr, ReopenPr, MovePr, DevinMoves,
                IssueLabeled, IssueEdited
  <2>2. row'.token = row.token /\ row'.lease = row.lease
    BY <2>1, NoWriteType, FlushKeepsToken
  <2>. QED
    BY <1>1, <2>2, RewriteStep
<1>. QED
  BY <1>2, <1>3

-----------------------------------------------------------------------------

RefInv == TypeOK /\ LocalInv /\ TokenHasLease /\ TokensPlaced

LEMMA RefInit == Init => Ownership!Init
<1>. SUFFICES ASSUME Init PROVE Ownership!Init
  OBVIOUS
<1>1. row.status # "running" /\ row.token = NULL /\ row.lease = "none"
  BY DEF Init, AbsentRow
<1>2. Entitled = {}
  BY DEF Init, Entitled, CreatorPcs, Procs
<1>3. \A p \in Procs : local[p].token = NULL
  BY DEF Init, Blank
<1>4. \A s \in Sessions, t \in Tokens : ~(polls[<<s, t>>] > 0)
  BY DEF Init
<1>5. Circulating = {} /\ Held = {}
  BY <1>3, <1>4, NullIsNoValue DEF Circulating, Held
<1>. QED
  BY <1>1, <1>2, <1>5 DEF Ownership!Init

LEMMA RefStep == RefInv /\ [Next]_vars => [Ownership!Next]_(Ownership!ownership)
<1>. SUFFICES ASSUME RefInv, [Next]_vars PROVE OwnershipStep
  BY DEF OwnershipStep
<1>. TypeOK /\ LocalInv /\ TokenHasLease /\ TokensPlaced
  BY DEF RefInv
<1>. Workers \subseteq Procs /\ Ingesters \subseteq Procs /\ Handlers \subseteq Procs
  BY DEF Procs
<1>1. ASSUME NEW p \in Procs, Reads(p) PROVE OwnershipStep
  BY <1>1, QuietSteps, PublishSteps, ReceivePollSteps, EndSteps DEF Reads
<1>2. ASSUME NEW w \in Workers, WorkerStep(w) PROVE OwnershipStep
  <2>1. CASE Reads(w)
    BY <1>1, <2>1
  <2>2. CASE ~Reads(w)
    BY <1>2, <2>2, FlushSteps, ClaimSteps, DropSteps, ArmSteps, UnpublishSteps, RenewSteps
    DEF WorkerStep, Reads
  <2>. QED
    BY <2>1, <2>2
<1>3. ASSUME NEW i \in Ingesters, IngesterStep(i) PROVE OwnershipStep
  BY <1>3, QuietSteps, RearmSteps, PublishSteps, UnpublishSteps DEF IngesterStep
<1>4. ASSUME NEW h \in Handlers, HandlerStep(h) PROVE OwnershipStep
  BY <1>4, FlushSteps, WebhookSteps, QuietSteps DEF HandlerStep
<1>5. ASSUME NEW w \in Workers, RecordRaises(w) PROVE OwnershipStep
  BY <1>5, FlushSteps
<1>6. CASE Surroundings
  BY <1>6, SurroundingSteps
<1>7. CASE UNCHANGED vars
  BY <1>7, RewriteStep DEF vars, Entitled, Circulating, Held
<1>. QED
  BY <1>1, <1>2, <1>3, <1>4, <1>5, <1>6, <1>7 DEF Next, Reads, Surroundings

\* Every behaviour of the service is a behaviour of PollOwnership: the live
\* poll lease of a running issue changes hands only to a creator whose claim
\* was granted, once per claim, or through a scan after it was lost; a token
\* that lost the ownership neither renews nor releases that of its successor;
\* and no unconditional upsert moves it.
THEOREM OwnershipImplemented == Spec => ImplementsOwnership
<1>1. Init => RefInv
  <2>. SUFFICES ASSUME Init PROVE RefInv
    OBVIOUS
  <2>1. TypeOK /\ LocalInv
    BY TypeInit, RestingOK DEF Init, LocalInv
  <2>2. TokenHasLease
    BY DEF Init, AbsentRow, TokenHasLease
  <2>3. TokensPlaced
    BY DEF Init, TokensPlaced, Placed, Blank, PollPcs
  <2>. QED
    BY <2>1, <2>2, <2>3 DEF RefInv
<1>2. RefInv /\ [Next]_vars => RefInv'
  BY TypeStep, LocalStep, TokenStep, PlacedStep DEF RefInv
<1>. QED
  BY <1>1, <1>2, RefInit, RefStep, PTL DEF Spec, ImplementsOwnership, Ownership!Spec

(***************************************************************************)
(* The poll chain of the row's token does not fork, and does not just end: *)
(* the two chain properties of PollChains, for every number of processes,  *)
(* sessions, tokens, failures and redeliveries.                            *)
(*                                                                         *)
(* ChainDoesNotFork is inductive once its sets are known to be finite      *)
(* (ChainInv): a grant starts a chain whose token is nowhere else, and     *)
(* each later step moves, drops or redelivers one of its positions.  Both  *)
(* proofs rest on what processes hold at their statements (LocalInv) and   *)
(* on a process that polls having a poll as its task (TokensPlaced).       *)
(***************************************************************************)
HIDE DEF Ownership!ownership, Ownership!tokens

(***************************************************************************)
(* Positions of a chain.                                                   *)
(***************************************************************************)
Copies(queue, t) == UNION {{s} \X (1..queue[<<s, t>>]) : s \in Sessions}

IsCopy(queue, t, m) == m \in Sessions \X Nat /\ m[2] \in 1..queue[<<m[1], t>>]

LEMMA InCopies ==
    ASSUME NEW queue, NEW t, NEW m
    PROVE  m \in Copies(queue, t) <=> IsCopy(queue, t, m)
<1>. DEFINE Of(s) == {s} \X (1..queue[<<s, t>>])
<1>1. m \in Copies(queue, t) <=> \E s \in Sessions : m \in Of(s)
  BY DEF Copies
<1>2. ASSUME NEW s \in Sessions
      PROVE  m \in Of(s) <=> m \in Sessions \X Nat /\ m[1] = s /\ m[2] \in 1..queue[<<s, t>>]
  OBVIOUS
<1>. QED
  BY <1>1, <1>2 DEF IsCopy

LEMMA InQueued ==
    ASSUME NEW t, NEW m
    PROVE  /\ m \in Queued(t) <=> IsCopy(polls, t, m)
           /\ m \in Queued(t)' <=> IsCopy(polls', t, m)
<1>1. Queued(t) = Copies(polls, t) /\ Queued(t)' = Copies(polls', t)
  BY DEF Queued, Copies
<1>. QED
  BY <1>1, InCopies

LEMMA QueuedSend ==
    ASSUME TypeOK, NEW s \in Sessions, NEW t \in Tokens, Send(s, t)
    PROVE  /\ Queued(t)' = Queued(t) \cup {<<s, polls[<<s, t>>] + 1>>}
           /\ \A u \in Tokens \ {t} : Queued(u)' = Queued(u)
<1>1. polls \in [Sessions \X Tokens -> Nat]
  BY DEF TypeOK
<1>2. \A r \in Sessions, u \in Tokens :
          polls'[<<r, u>>] = IF r = s /\ u = t THEN polls[<<r, u>>] + 1 ELSE polls[<<r, u>>]
  BY <1>1 DEF Send
<1>3. \A u \in Tokens \ {t} : Queued(u)' = Queued(u)
  BY <1>2 DEF Queued
<1>4. ASSUME NEW m
      PROVE  m \in Queued(t)' <=> m \in Queued(t) \cup {<<s, polls[<<s, t>>] + 1>>}
  <2>1. m \in Queued(t)' <=> IsCopy(polls', t, m)
    BY InQueued
  <2>2. m \in Queued(t) <=> IsCopy(polls, t, m)
    BY InQueued
  <2>. QED
    BY <1>1, <1>2, <2>1, <2>2 DEF IsCopy
<1>. QED
  BY <1>3, <1>4

LEMMA QueuedReceive ==
    ASSUME TypeOK, NEW s \in Sessions, NEW t \in Tokens, polls[<<s, t>>] > 0,
           polls' = [polls EXCEPT ![<<s, t>>] = @ - 1]
    PROVE  /\ <<s, polls[<<s, t>>]>> \in Queued(t)
           /\ Queued(t)' = Queued(t) \ {<<s, polls[<<s, t>>]>>}
           /\ \A u \in Tokens \ {t} : Queued(u)' = Queued(u)
<1>1. polls \in [Sessions \X Tokens -> Nat]
  BY DEF TypeOK
<1>2. \A r \in Sessions, u \in Tokens :
          polls'[<<r, u>>] = IF r = s /\ u = t THEN polls[<<r, u>>] - 1 ELSE polls[<<r, u>>]
  BY <1>1
<1>3. \A u \in Tokens \ {t} : Queued(u)' = Queued(u)
  BY <1>2 DEF Queued
<1>4. ASSUME NEW m
      PROVE  m \in Queued(t)' <=> m \in Queued(t) \ {<<s, polls[<<s, t>>]>>}
  <2>1. m \in Queued(t)' <=> IsCopy(polls', t, m)
    BY InQueued
  <2>2. m \in Queued(t) <=> IsCopy(polls, t, m)
    BY InQueued
  <2>. QED
    BY <1>1, <1>2, <2>1, <2>2 DEF IsCopy
<1>5. <<s, polls[<<s, t>>]>> \in Queued(t)
  <2>1. IsCopy(polls, t, <<s, polls[<<s, t>>]>>)
    BY <1>1 DEF IsCopy
  <2>. QED
    BY <2>1, InQueued
<1>. QED
  BY <1>3, <1>4, <1>5

LEMMA CarriersMove ==
    ASSUME NEW p \in Procs, OnlyMoves(p), NEW t
    PROVE  Carriers(t)' = IF p \in Carriers(t)' THEN Carriers(t) \cup {p}
                                                ELSE Carriers(t) \ {p}
BY DEF OnlyMoves, Carriers

\* A chain whose positions can be counted, and how many there are.
Counted(t) == IsFiniteSet(Queued(t)) /\ IsFiniteSet(Carriers(t))

Count(t) == Cardinality(Queued(t)) + Cardinality(Carriers(t))

LEMMA CountedIsNat ==
    ASSUME NEW t, Counted(t)
    PROVE  /\ Cardinality(Queued(t)) \in Nat /\ Cardinality(Carriers(t)) \in Nat
           /\ Count(t) \in Nat
BY FS_CardinalityType DEF Counted, Count

\* A set that loses or gains one element, by its cardinality.
LEMMA AtMostLoses ==
    ASSUME NEW S, NEW T, NEW x, IsFiniteSet(S), T \in {S, S \ {x}}
    PROVE  /\ IsFiniteSet(T) /\ Cardinality(T) \in Nat /\ Cardinality(S) \in Nat
           /\ Cardinality(T) <= Cardinality(S)
           /\ x \in S /\ T # S => Cardinality(T) = Cardinality(S) - 1
<1>1. CASE T = S
  BY <1>1, FS_CardinalityType
<1>2. CASE T = S \ {x}
  <2>1. IsFiniteSet(T) /\ Cardinality(T) \in Nat /\ Cardinality(S) \in Nat
    BY <1>2, FS_RemoveElement, FS_CardinalityType
  <2>2. Cardinality(T) = IF x \in S THEN Cardinality(S) - 1 ELSE Cardinality(S)
    BY <1>2, FS_RemoveElement
  <2>. QED
    BY <2>1, <2>2
<1>. QED
  BY <1>1, <1>2

LEMMA AtMostGains ==
    ASSUME NEW S, NEW T, NEW x, IsFiniteSet(S), T \in {S, S \cup {x}}
    PROVE  /\ IsFiniteSet(T) /\ Cardinality(T) \in Nat /\ Cardinality(S) \in Nat
           /\ Cardinality(T) <= Cardinality(S) + 1
<1>1. CASE T = S
  BY <1>1, FS_CardinalityType
<1>2. CASE T = S \cup {x}
  <2>1. IsFiniteSet(T) /\ Cardinality(T) \in Nat /\ Cardinality(S) \in Nat
    BY <1>2, FS_AddElement, FS_CardinalityType
  <2>2. Cardinality(T) = IF x \in S THEN Cardinality(S) ELSE Cardinality(S) + 1
    BY <1>2, FS_AddElement
  <2>. QED
    BY <2>1, <2>2
<1>. QED
  BY <1>1, <1>2

(***************************************************************************)
(* What each step does to the positions of a chain.                        *)
(***************************************************************************)
CarrierPcs == PollPcs \cup {"publish"}

Arms(p) ==
    \E at \in {"arm", "rearm"}, onlyIfLost \in BOOLEAN :
        ArmPoll(p, at, onlyIfLost) /\ PollGrantable(row, local[p].session, onlyIfLost)

Receives(p) == \E s \in Sessions, t \in Tokens : ReceivePoll(p, s, t)

LEMMA CarriersEnter ==
    ASSUME TypeOK, NEW p \in Procs, Reads(p) \/ Conditional(p) \/ Blind(p),
           ~Arms(p), ~Receives(p), pc'[p] \in CarrierPcs
    PROVE  Steady(p) /\ pc[p] \in CarrierPcs
<1>. pc \in [Procs -> Pcs]
  BY DEF TypeOK
<1>. USE DEF CarrierPcs, PollPcs
<1>1. CASE Steady(p)
  BY <1>1 DEF Steady, FindPr, LoadCompleted, FlushCompleted, Claim, CreateSession,
         LoadRecord, FlushRecord, RecordRaises, LoadFailed, FlushFailed, ReleaseAll,
         AskDevin, LookupPr, LoadPolled, FlushPolled, ReleaseOwn, RenewPoll,
         FlushOpened, ScanIssues, PullRequestOpened
<1>2. CASE \/ \E force \in BOOLEAN : ReceiveRemediation(p, force)
           \/ Ack(p) \/ Redeliver(p) \/ Abort(p) \/ GetUnpolled(p) \/ Requeue(p)
           \/ \E pr \in Prs : PullRequestClosed(p, pr)
           \/ Unpublish(p) \/ DetachClosedPr(p) \/ Reattach(p) \/ PublishPoll(p)
  BY <1>2 DEF ReceiveRemediation, Ack, Redeliver, Abort, GetUnpolled, Requeue,
         PullRequestClosed, Unpublish, DetachClosedPr, Reattach, PublishPoll, End
<1>3. ASSUME NEW at \in {"arm", "rearm"}, NEW onlyIfLost \in BOOLEAN,
             ArmPoll(p, at, onlyIfLost)
      PROVE  FALSE
  <2>1. pc'[p] = End(p)
    BY <1>3 DEF ArmPoll, Arms
  <2>. QED
    BY <2>1 DEF End
<1>. QED
  BY <1>1, <1>2, <1>3 DEF Reads, Conditional, Blind, Steady, Receives, Arm, Rearm

LEMMA NoneEnters ==
    ASSUME TypeOK, NEW p \in Procs, Reads(p) \/ Conditional(p) \/ Blind(p),
           ~Arms(p), ~Receives(p), NEW t, p \in Carriers(t)'
    PROVE  p \in Carriers(t)
<1>1. pc'[p] \in CarrierPcs /\ local'[p].token = t
  BY DEF Carriers, CarrierPcs
<1>2. Steady(p) /\ pc[p] \in CarrierPcs
  BY <1>1, CarriersEnter
<1>. QED
  BY <1>1, <1>2, SteadyKeeps DEF Carriers, CarrierPcs

LEMMA PollsMove ==
    ASSUME NEW p \in Procs, Reads(p) \/ Conditional(p) \/ Blind(p),
           ~Receives(p), ~PublishPoll(p), ~(p \in Workers /\ Redeliver(p))
    PROVE  UNCHANGED polls
<1>1. CASE Reads(p)
  BY <1>1 DEF Reads, Receives, ReceiveRemediation, FindPr, LoadCompleted, CreateSession,
         LoadRecord, LoadFailed, AskDevin, LookupPr, LoadPolled, Ack, Abort, ScanIssues,
         GetUnpolled, Requeue, PullRequestOpened, PullRequestClosed
<1>2. CASE Conditional(p)
  BY <1>2 DEF Conditional, Claim, Arm, Rearm, ArmPoll, Unpublish, ReleaseOwn,
         RenewPoll, DetachClosedPr, Reattach
<1>3. CASE Blind(p)
  BY <1>3 DEF Blind, FlushCompleted, FlushRecord, FlushFailed, ReleaseAll,
         FlushPolled, FlushOpened, RecordRaises
<1>. QED
  BY <1>1, <1>2, <1>3

\* Nothing sent and nobody new: a chain keeps its positions or loses one.
LEMMA ChainShrinks ==
    ASSUME NEW p \in Procs, OnlyMoves(p), NEW t, Counted(t), UNCHANGED polls,
           p \in Carriers(t)' => p \in Carriers(t)
    PROVE  Counted(t)' /\ Count(t)' <= Count(t)
<1>. DEFINE Q == Queued(t)
            C == Carriers(t)
<1>1. Q' = Q
  BY DEF Queued
<1>2. C' \in {C, C \ {p}}
  <2>1. C' = IF p \in C' THEN C \cup {p} ELSE C \ {p}
    BY CarriersMove
  <2>. HIDE DEF C
  <2>. QED
    BY <2>1 DEF C
<1>. HIDE DEF Q, C
<1>3. IsFiniteSet(Q) /\ IsFiniteSet(C) /\ Cardinality(Q) \in Nat
  BY CountedIsNat DEF Counted, Q, C
<1>4. /\ IsFiniteSet(C') /\ Cardinality(C') \in Nat /\ Cardinality(C) \in Nat
      /\ Cardinality(C') <= Cardinality(C)
  BY <1>2, <1>3, AtMostLoses
<1>. QED
  BY <1>1, <1>3, <1>4 DEF Counted, Count, Q, C

\* The carrier's poll goes into the queue: the position moves, or another
\* is added while the carrier stays.
LEMMA ChainSends ==
    ASSUME TypeOK, NEW p \in Procs, OnlyMoves(p), NEW t \in Tokens, Counted(t),
           NEW s \in Sessions, NEW u \in Tokens, Send(s, u), p \notin Carriers(t)'
    PROVE  /\ Counted(t)' /\ Count(t) \in Nat /\ Count(t)' \in Nat
           /\ Count(t)' <= Count(t) + 1
           /\ u # t \/ p \in Carriers(t) => Count(t)' <= Count(t)
<1>. DEFINE Q == Queued(t)
            C == Carriers(t)
            m == <<s, polls[<<s, u>>] + 1>>
<1>1. Q' = IF u = t THEN Q \cup {m} ELSE Q
  BY QueuedSend
<1>2. C' = C \ {p}
  BY CarriersMove
<1>. HIDE DEF Q, C, m
<1>3. IsFiniteSet(Q) /\ IsFiniteSet(C)
  BY DEF Counted, Q, C
<1>4. /\ IsFiniteSet(Q') /\ Cardinality(Q') \in Nat /\ Cardinality(Q) \in Nat
      /\ Cardinality(Q') <= Cardinality(Q) + 1
      /\ u # t => Cardinality(Q') = Cardinality(Q)
  <2>1. Q' \in {Q, Q \cup {m}} /\ (u # t => Q' = Q)
    BY <1>1
  <2>. QED
    BY <1>3, <2>1, AtMostGains
<1>5. /\ IsFiniteSet(C') /\ Cardinality(C') \in Nat /\ Cardinality(C) \in Nat
      /\ Cardinality(C') <= Cardinality(C)
      /\ p \in C => Cardinality(C') = Cardinality(C) - 1
  <2>1. C' \in {C, C \ {p}} /\ (p \in C => C' # C)
    BY <1>2
  <2>. QED
    BY <1>3, <2>1, AtMostLoses
<1>. QED
  BY <1>4, <1>5 DEF Counted, Count, Q, C

LEMMA ChainReceives ==
    ASSUME TypeOK, NEW p \in Procs, OnlyMoves(p), NEW t \in Tokens, Counted(t),
           NEW s \in Sessions, NEW u \in Tokens, ReceivePoll(p, s, u)
    PROVE  Counted(t)' /\ Count(t)' <= Count(t)
<1>. DEFINE Q == Queued(t)
            C == Carriers(t)
            m == <<s, polls[<<s, u>>]>>
<1>1. Q' = (IF u = t THEN Q \ {m} ELSE Q) /\ (u = t => m \in Q)
  BY QueuedReceive DEF ReceivePoll
<1>2. C' \in {C, C \cup {p}} /\ (u # t => C' = C)
  <2>1. local'[p].token = u /\ p \notin C
    BY DEF ReceivePoll, Blank, TypeOK, Carriers, PollPcs
  <2>2. u # t => p \notin C'
    BY <2>1 DEF Carriers
  <2>3. C' = IF p \in C' THEN C \cup {p} ELSE C \ {p}
    BY CarriersMove
  <2>. HIDE DEF C
  <2>. QED
    BY <2>1, <2>2, <2>3
<1>. HIDE DEF Q, C, m
<1>3. IsFiniteSet(Q) /\ IsFiniteSet(C)
  BY DEF Counted, Q, C
<1>4. /\ IsFiniteSet(Q') /\ Cardinality(Q') \in Nat /\ Cardinality(Q) \in Nat
      /\ Cardinality(Q') <= Cardinality(Q)
      /\ u = t => Cardinality(Q') = Cardinality(Q) - 1
  <2>1. Q' \in {Q, Q \ {m}} /\ (u = t => m \in Q /\ Q' # Q)
    BY <1>1
  <2>. QED
    BY <1>3, <2>1, AtMostLoses
<1>5. /\ IsFiniteSet(C') /\ Cardinality(C') \in Nat /\ Cardinality(C) \in Nat
      /\ Cardinality(C') <= Cardinality(C) + 1
      /\ u # t => Cardinality(C') = Cardinality(C)
  BY <1>2, <1>3, AtMostGains
<1>. QED
  BY <1>4, <1>5 DEF Counted, Count, Q, C

(***************************************************************************)
(* The chain of the row's token has at most one position for each time a   *)
(* task was delivered.                                                     *)
(***************************************************************************)
Single(t) == Counted(t) /\ Count(t) <= 1 + redeliveries

ChainInv == row.token # NULL => Single(row.token)

RedeliveriesGrow == redeliveries' \in Nat /\ redeliveries <= redeliveries'

LEMMA SingleStays ==
    ASSUME TypeOK, NEW t, Single(t), Counted(t)', Count(t)' <= Count(t), RedeliveriesGrow
    PROVE  Single(t)'
<1>1. Count(t) \in Nat
  BY CountedIsNat DEF Single
<1>2. Count(t)' \in Nat
  <2>. DEFINE Q == Queued(t)'
              C == Carriers(t)'
  <2>1. IsFiniteSet(Q) /\ IsFiniteSet(C)
    BY DEF Counted
  <2>. HIDE DEF Q, C
  <2>2. Cardinality(Q) + Cardinality(C) \in Nat
    BY <2>1, FS_CardinalityType
  <2>. QED
    BY <2>2 DEF Count, Q, C
<1>3. redeliveries \in Nat
  BY Parameters DEF TypeOK
<1>. HIDE DEF Count
<1>. QED
  BY <1>1, <1>2, <1>3 DEF Single, RedeliveriesGrow

\* A grant starts a chain at one position: the publication of its first poll.
LEMMA ChainStarts ==
    ASSUME TypeOK, TokensPlaced, NEW p \in Procs, Arms(p)
    PROVE  ChainInv'
<1>1. PICK at \in {"arm", "rearm"}, onlyIfLost \in BOOLEAN :
          ArmPoll(p, at, onlyIfLost) /\ PollGrantable(row, local[p].session, onlyIfLost)
  BY DEF Arms
<1>. row \in Rows /\ local \in [Procs -> Locals] /\ pc \in [Procs -> Pcs]
  BY DEF TypeOK
<1>. HIDE DEF Goto, Set
<1>2. PICK t \in FreshTokens : /\ row' = PollClaimed(row, t)
                               /\ Goto(p, "publish")
                               /\ Set(p, [local[p] EXCEPT !.token = t])
  BY <1>1, Zenon DEF ArmPoll
<1>. USE DEF Goto, Set
<1>3. /\ row'.token = t /\ UNCHANGED polls /\ UNCHANGED redeliveries
      /\ local'[p].token = t /\ pc'[p] = "publish" /\ OnlyMoves(p)
  <2>1. row'.token = t
    BY <1>2 DEF PollClaimed, Rows
  <2>2. UNCHANGED polls /\ UNCHANGED redeliveries
    BY <1>1 DEF ArmPoll
  <2>3. local[p] \in Locals
    OBVIOUS
  <2>4. local'[p].token = t /\ pc'[p] = "publish" /\ OnlyMoves(p)
    BY <1>2, <2>3 DEF Locals, OnlyMoves
  <2>. QED
    BY <2>1, <2>2, <2>4
<1>4. /\ \A s \in Sessions : polls[<<s, t>>] = 0
      /\ \A q \in Procs : local[q].token # t
  BY DEF FreshTokens
<1>5. Queued(t)' = {}
  <2>1. ASSUME NEW m, m \in Queued(t)' PROVE FALSE
    <3>1. m[1] \in Sessions /\ m[2] \in 1..polls'[<<m[1], t>>]
      BY <2>1, InQueued DEF IsCopy
    <3>2. polls'[<<m[1], t>>] = 0
      BY <1>3, <1>4, <3>1
    <3>. QED
      BY <3>1, <3>2
  <2>. QED
    BY <2>1
<1>6. Carriers(t)' = {p}
  BY <1>3, <1>4 DEF Carriers, OnlyMoves
<1>7. Counted(t)' /\ Count(t)' = 1
  <2>1. /\ IsFiniteSet({}) /\ Cardinality({}) = 0
        /\ IsFiniteSet({p}) /\ Cardinality({p}) = 1
    BY FS_EmptySet, FS_Singleton
  <2>2. Cardinality(Queued(t)') + Cardinality(Carriers(t)') = 1
    BY <1>5, <1>6, <2>1
  <2>. QED
    BY <1>5, <1>6, <2>1, <2>2 DEF Counted, Count
<1>8. redeliveries' \in Nat
  BY <1>3, Parameters DEF TypeOK
<1>. QED
  BY <1>3, <1>7, <1>8 DEF ChainInv, Single

\* Nothing but a grant puts a token on the row.
LEMMA TokenOnlyGoes ==
    ASSUME TypeOK, NEW p \in Procs, Reads(p) \/ Conditional(p) \/ Blind(p), ~Arms(p)
    PROVE  row'.token \in {row.token, NULL}
<1>. row \in Rows /\ local[p] \in Locals /\ local[p].write \in Writes
  BY DEF TypeOK, Locals
<1>1. CASE Reads(p)
  BY <1>1, ReadersKeep
<1>2. CASE Claim(p)
  BY <1>2 DEF Claim, Claimed, Rows
<1>3. ASSUME NEW at \in {"arm", "rearm"}, NEW onlyIfLost \in BOOLEAN,
             ArmPoll(p, at, onlyIfLost)
      PROVE  row'.token \in {row.token, NULL}
  BY <1>3 DEF ArmPoll, Arms
<1>4. CASE Unpublish(p) \/ ReleaseOwn(p) \/ RenewPoll(p)
  BY <1>4 DEF Unpublish, ReleaseOwn, RenewPoll, Released, Renewed, Rows
<1>5. CASE DetachClosedPr(p) \/ Reattach(p)
  BY <1>5 DEF DetachClosedPr, Detached, Reattach, Reattached, Rows
<1>6. CASE Blind(p)
  <2>1. \/ row' = row
        \/ row' = Flushed(row, local[p].write)
        \/ row' = Released(row, NULL)
    BY <1>6 DEF Blind, FlushCompleted, FlushRecord, FlushFailed, ReleaseAll,
           FlushPolled, FlushOpened, RecordRaises, Commit
  <2>2. Released(row, NULL).token = NULL
    BY DEF Released, Rows
  <2>. QED
    BY <2>1, <2>2, FlushKeepsToken
<1>. QED
  BY <1>1, <1>2, <1>3, <1>4, <1>5, <1>6 DEF Conditional, Arm, Rearm

LEMMA RedeliveriesKept ==
    ASSUME TypeOK, NEW p \in Procs, Reads(p) \/ Conditional(p) \/ Blind(p),
           ~(p \in Workers /\ Redeliver(p))
    PROVE  UNCHANGED redeliveries
<1>1. CASE Reads(p)
  BY <1>1 DEF Reads, ReceiveRemediation, ReceivePoll, FindPr, LoadCompleted,
         CreateSession, LoadRecord, LoadFailed, PublishPoll, AskDevin, LookupPr,
         LoadPolled, Ack, Abort, ScanIssues, GetUnpolled, Requeue, PullRequestOpened,
         PullRequestClosed
<1>2. CASE Conditional(p)
  BY <1>2 DEF Conditional, Claim, Arm, Rearm, ArmPoll, Unpublish, ReleaseOwn,
         RenewPoll, DetachClosedPr, Reattach
<1>3. CASE Blind(p)
  BY <1>3 DEF Blind, FlushCompleted, FlushRecord, FlushFailed, ReleaseAll,
         FlushPolled, FlushOpened, RecordRaises
<1>. QED
  BY <1>1, <1>2, <1>3

LEMMA RedeliveriesOnlyGrow ==
    ASSUME TypeOK, NEW p \in Procs, Reads(p) \/ Conditional(p) \/ Blind(p)
    PROVE  RedeliveriesGrow
<1>. redeliveries \in Nat
  BY Parameters DEF TypeOK
<1>1. CASE Redeliver(p)
  BY <1>1 DEF Redeliver, RedeliveriesGrow
<1>. QED
  BY <1>1, RedeliveriesKept DEF RedeliveriesGrow

\* A publication moves the position from the process into the queue, or
\* leaves the process without it, sent or not.
LEMMA ChainPublished ==
    ASSUME TypeOK, LocalInv, NEW p \in Procs, PublishPoll(p), NEW t \in Tokens, Counted(t)
    PROVE  Counted(t)' /\ Count(t)' <= Count(t)
<1>. DEFINE s == local[p].session
            u == local[p].token
<1>1. s \in Sessions /\ u \in Tokens
  BY KnownToken DEF TokenKnownPcs, PollPcs, PublishPcs, PublishPoll
<1>2. OnlyMoves(p)
  BY OthersStay DEF Reads, OnlyMoves
<1>3. pc[p] = "publish" /\ pc'[p] \in {"ack", "idle", "unpublish"}
  BY DEF PublishPoll, End, TypeOK
<1>4. p \notin Carriers(t)'
  BY <1>3 DEF Carriers, PollPcs
<1>5. u = t => p \in Carriers(t)
  BY <1>3 DEF Carriers
<1>. HIDE DEF s, u
<1>6. CASE Send(s, u)
  BY <1>1, <1>2, <1>4, <1>5, <1>6, ChainSends
<1>7. CASE UNCHANGED polls
  BY <1>2, <1>4, <1>7, ChainShrinks
<1>. QED
  BY <1>6, <1>7 DEF PublishPoll, s, u

\* A redelivered poll is queued again, whether its next poll is queued or not.
LEMMA ChainRedelivered ==
    ASSUME TypeOK, TokensPlaced, NEW p \in Workers, Redeliver(p), NEW t \in Tokens, Single(t)
    PROVE  Single(t)'
<1>. p \in Procs
  BY DEF Procs
<1>. DEFINE s == local[p].session
            u == local[p].token
<1>1. /\ redeliveries \in Nat /\ redeliveries' = redeliveries + 1
      /\ RedeliveriesGrow
  BY Parameters DEF TypeOK, Redeliver, RedeliveriesGrow
<1>2. OnlyMoves(p)
  BY OthersStay DEF Reads, OnlyMoves
<1>3. p \notin Carriers(t)'
  BY DEF Redeliver, TypeOK, Carriers, PollPcs
<1>4. CASE local[p].task = "poll" /\ s \in Sessions
  <2>1. u \in Tokens
    BY <1>4 DEF TokensPlaced, Placed, TypeOK, Locals
  <2>2. Send(s, u)
    BY <1>4 DEF Redeliver
  <2>3. /\ Counted(t)' /\ Count(t) \in Nat /\ Count(t)' \in Nat
        /\ Count(t)' <= Count(t) + 1
    BY <1>2, <1>3, <1>4, <2>1, <2>2, ChainSends DEF Single
  <2>. HIDE DEF Count
  <2>. QED
    BY <1>1, <2>3 DEF Single
<1>5. CASE ~(local[p].task = "poll" /\ s \in Sessions)
  <2>1. UNCHANGED polls
    <3>1. CASE local[p].task # "poll"
      BY <3>1 DEF Redeliver
    <3>2. CASE local[p].task = "poll"
      <4>1. <<s, u>> \notin DOMAIN polls
        BY <1>5, <3>2 DEF TypeOK
      <4>2. polls' = [polls EXCEPT ![<<s, u>>] = @ + 1]
        BY <3>2 DEF Redeliver, Send
      <4>. QED
        BY <4>1, <4>2 DEF TypeOK
    <3>. QED
      BY <3>1, <3>2
  <2>. QED
    BY <1>1, <1>2, <1>3, <2>1, ChainShrinks, SingleStays DEF Single
<1>. QED
  BY <1>4, <1>5

LEMMA ChainStep ==
    TypeOK /\ LocalInv /\ TokensPlaced /\ ChainInv /\ [Next]_vars => ChainInv'
<1>. SUFFICES ASSUME TypeOK, LocalInv, TokensPlaced, ChainInv, [Next]_vars
              PROVE  ChainInv'
  OBVIOUS
<1>1. ASSUME NEW p \in Procs, Reads(p) \/ Conditional(p) \/ Blind(p)
      PROVE  ChainInv'
  <2>1. CASE Arms(p)
    BY <2>1, ChainStarts
  <2>2. CASE ~Arms(p)
    <3>1. OnlyMoves(p) /\ RedeliveriesGrow
      BY <1>1, OthersStay, RedeliveriesOnlyGrow DEF OnlyMoves
    <3>2. ASSUME NEW t \in Tokens, Single(t) PROVE Single(t)'
      <4>1. CASE Receives(p)
        <5>1. Counted(t)' /\ Count(t)' <= Count(t)
          BY <3>1, <3>2, <4>1, ChainReceives DEF Receives, Single
        <5>. QED
          BY <3>1, <3>2, <5>1, SingleStays
      <4>2. CASE PublishPoll(p)
        <5>1. Counted(t)' /\ Count(t)' <= Count(t)
          BY <3>2, <4>2, ChainPublished DEF Single
        <5>. QED
          BY <3>1, <3>2, <5>1, SingleStays
      <4>3. CASE p \in Workers /\ Redeliver(p)
        BY <3>2, <4>3, ChainRedelivered
      <4>4. CASE ~Receives(p) /\ ~PublishPoll(p) /\ ~(p \in Workers /\ Redeliver(p))
        <5>1. UNCHANGED polls /\ (p \in Carriers(t)' => p \in Carriers(t))
          BY <1>1, <2>2, <4>4, PollsMove, NoneEnters
        <5>2. Counted(t)' /\ Count(t)' <= Count(t)
          BY <3>1, <3>2, <5>1, ChainShrinks DEF Single
        <5>. QED
          BY <3>1, <3>2, <5>2, SingleStays
      <4>. QED
        BY <4>1, <4>2, <4>3, <4>4
    <3>3. CASE row'.token = NULL
      BY <3>3 DEF ChainInv
    <3>4. CASE row'.token # NULL
      <4>1. row'.token = row.token /\ row.token \in Tokens /\ row.token # NULL
        BY <1>1, <2>2, <3>4, TokenOnlyGoes DEF TypeOK, Rows
      <4>2. PICK t \in Tokens : t = row.token /\ t = row'.token
        BY <4>1
      <4>3. Single(t)'
        BY <3>2, <4>1, <4>2 DEF ChainInv
      <4>. QED
        BY <4>2, <4>3 DEF ChainInv
    <3>. QED
      BY <3>3, <3>4
  <2>. QED
    BY <2>1, <2>2
<1>2. CASE Surroundings \/ UNCHANGED vars
  <2>1. UNCHANGED <<pc, local, polls, redeliveries>> /\ row'.token = row.token
    <3>1. UNCHANGED <<pc, local, polls, redeliveries>>
      BY <1>2, SurroundingsKeepProcs
      DEF vars, Surroundings, OpenPr, ClosePr, ReopenPr, MovePr, DevinMoves,
          IssueLabeled, IssueEdited, ExpireLease
    <3>2. \/ row' = row
          \/ row' = Flushed(row, NoWrite)
          \/ row' = Expired(row)
      BY <1>2 DEF vars, Surroundings, OpenPr, ClosePr, ReopenPr, MovePr, DevinMoves,
             IssueLabeled, IssueEdited, ExpireLease
    <3>. QED
      BY <3>1, <3>2, NoWriteType, FlushKeepsToken DEF TypeOK, Expired, Rows
  <2>2. Queued(row.token)' = Queued(row.token) /\ Carriers(row.token)' = Carriers(row.token)
    BY <2>1 DEF Queued, Carriers
  <2>. QED
    BY <2>1, <2>2 DEF ChainInv, Single, Counted, Count
<1>. QED
  BY <1>1, <1>2, NextCases

\* In every behaviour of the service the chain of the row's token has at most
\* one position, queued or executed, plus one for each redelivery: no retry
\* of a publication, no re-arming scan, no superseded poll and no aborted
\* task doubles the polling of a session.
THEOREM ChainsDoNotFork == Spec => []ChainDoesNotFork
<1>. DEFINE Inv == TypeOK /\ LocalInv /\ TokensPlaced /\ ChainInv
<1>1. Init => Inv
  <2>. SUFFICES ASSUME Init PROVE Inv
    OBVIOUS
  <2>1. TypeOK /\ LocalInv
    BY TypeInit, RestingOK DEF Init, LocalInv
  <2>2. TokensPlaced
    BY DEF Init, TokensPlaced, Placed, Blank, PollPcs
  <2>3. ChainInv
    BY DEF Init, AbsentRow, ChainInv
  <2>. QED
    BY <2>1, <2>2, <2>3
<1>2. Inv /\ [Next]_vars => Inv'
  BY TypeStep, LocalStep, PlacedStep, ChainStep
<1>3. Inv => ChainDoesNotFork
  BY DEF ChainInv, Single, Count, ChainDoesNotFork
<1>. QED
  BY <1>1, <1>2, <1>3, PTL DEF Spec

(***************************************************************************)
(* A chain does not just end: each step that takes one of its positions    *)
(* away puts another one in its place, or fails.                           *)
(***************************************************************************)
Carries(p, s, t) ==
    pc[p] \in CarrierPcs /\ local[p].token = t /\ local[p].session = s

LEMMA PolledIs ==
    ASSUME NEW s \in Sessions, NEW t
    PROVE  /\ polls[<<s, t>>] \in Nat =>
                (Polled(s, t) <=> polls[<<s, t>>] > 0 \/ \E p \in Procs : Carries(p, s, t))
           /\ polls'[<<s, t>>] \in Nat /\ polls'[<<s, t>>] > 0 => Polled(s, t)'
           /\ (\E p \in Procs : Carries(p, s, t)') => Polled(s, t)'
<1>1. /\ (\E p \in Carriers(t) : local[p].session = s)
            <=> \E p \in Procs : Carries(p, s, t)
      /\ (\E p \in Carriers(t) : local[p].session = s)'
            <=> \E p \in Procs : Carries(p, s, t)'
  BY DEF Carriers, Carries, CarrierPcs
<1>2. ASSUME polls[<<s, t>>] \in Nat
      PROVE  (\E m \in Queued(t) : m[1] = s) <=> polls[<<s, t>>] > 0
  <2>1. ASSUME polls[<<s, t>>] > 0 PROVE \E m \in Queued(t) : m[1] = s
    <3>1. IsCopy(polls, t, <<s, 1>>)
      BY <1>2, <2>1 DEF IsCopy
    <3>. QED
      BY <3>1, InQueued
  <2>2. ASSUME NEW m \in Queued(t), m[1] = s PROVE polls[<<s, t>>] > 0
    <3>1. IsCopy(polls, t, m)
      BY InQueued
    <3>. QED
      BY <1>2, <2>2, <3>1 DEF IsCopy
  <2>. QED
    BY <2>1, <2>2
<1>3. ASSUME polls'[<<s, t>>] \in Nat, polls'[<<s, t>>] > 0
      PROVE  (\E m \in Queued(t) : m[1] = s)'
  <2>1. IsCopy(polls', t, <<s, 1>>)
    BY <1>3 DEF IsCopy
  <2>2. <<s, 1>> \in Queued(t)'
    BY <2>1, InQueued
  <2>. QED
    BY <2>2
<1>. QED
  BY <1>1, <1>2, <1>3 DEF Polled

LEMMA CarriedIsPolled ==
    ASSUME NEW s \in Sessions, NEW t, NEW p \in Procs, Carries(p, s, t)'
    PROVE  Polled(s, t)'
BY PolledIs

\* The row's chain, in a step of one process that keeps session, token and
\* status of the row.
ChainLives(s, t) ==
    /\ TypeOK /\ TypeOK' /\ LocalInv /\ TokensPlaced
    /\ row.status = "running" /\ row.session = s /\ row.token = t
    /\ row'.status = "running" /\ row'.session = s /\ row'.token = t

GoesOn(s, t) == Polled(s, t)' \/ faults' # faults \/ LosesCreator

LEMMA SentIsPolled ==
    ASSUME NEW s \in Sessions, NEW t \in Tokens, TypeOK, TypeOK', Send(s, t)
    PROVE  Polled(s, t)'
<1>1. polls[<<s, t>>] \in Nat /\ polls'[<<s, t>>] = polls[<<s, t>>] + 1
  BY DEF TypeOK, Send
<1>. QED
  BY <1>1, PolledIs

\* The process that executes the poll, or publishes the next one.
LEMMA CarrierGoesOn ==
    ASSUME NEW s \in Sessions, NEW t \in Tokens, ChainLives(s, t),
           NEW p \in Procs, Carries(p, s, t), Reads(p) \/ Conditional(p) \/ Blind(p)
    PROVE  GoesOn(s, t)
<1>. /\ TypeOK /\ TypeOK' /\ pc \in [Procs -> Pcs] /\ local \in [Procs -> Locals]
     /\ row \in Rows
  BY DEF ChainLives, TypeOK
<1>. pc[p] \in CarrierPcs /\ local[p].token = t /\ local[p].session = s
  BY DEF Carries
<1>. USE DEF CarrierPcs, PollPcs
<1>1. ASSUME pc'[p] \in CarrierPcs, local'[p].token = t, local'[p].session = s
      PROVE  GoesOn(s, t)
  <2>1. Carries(p, s, t)'
    BY <1>1 DEF Carries
  <2>. QED
    BY <2>1, CarriedIsPolled DEF GoesOn
<1>2. CASE Abort(p)
  BY <1>2 DEF Abort, Fault, TypeOK, GoesOn
<1>3. CASE p \in Workers /\ Redeliver(p)
  <2>1. CASE local[p].task = "poll"
    BY <1>3, <2>1, SentIsPolled DEF Redeliver, GoesOn
  <2>2. CASE local[p].task # "poll"
    <3>1. pc[p] = "publish"
      BY <2>2 DEF ChainLives, TokensPlaced, Placed
    <3>. QED
      BY <1>3, <2>2, <3>1 DEF Redeliver, LosesCreator, GoesOn
  <2>. QED
    BY <2>1, <2>2
<1>4. CASE PublishPoll(p)
  BY <1>4, SentIsPolled DEF PublishPoll, Fault, TypeOK, GoesOn
<1>5. CASE AskDevin(p)
  <2>. DEFINE status == MapDevinStatus(devin[s])
  <2>1. \A pr : LET l == [local[p] EXCEPT !.pr = pr, !.status = status]
                IN  l.token = t /\ l.session = s
    BY DEF Locals
  <2>. HIDE DEF status
  <2>2. CASE UNCHANGED local /\ Goto(p, "renew")
    BY <1>1, <2>2
  <2>3. ASSUME NEW pr, Set(p, [local[p] EXCEPT !.pr = pr, !.status = status]),
               Goto(p, IF pr = NULL THEN "lookup" ELSE "poll_load")
        PROVE  GoesOn(s, t)
    BY <1>1, <2>1, <2>3
  <2>. QED
    BY <1>5, <2>2, <2>3 DEF AskDevin, status
<1>6. CASE LookupPr(p)
  BY <1>1, <1>6 DEF LookupPr, Locals
<1>7. CASE LoadPolled(p)
  BY <1>1, <1>7 DEF LoadPolled, Locals
<1>8. CASE FlushPolled(p)
  <2>1. local'[p].token = t /\ local'[p].session = s
    BY <1>8 DEF FlushPolled, Locals
  <2>2. pc'[p] \in {"renew", "release"}
    BY <1>8 DEF FlushPolled
  <2>. QED
    BY <1>1, <2>1, <2>2
<1>9. CASE ReleaseOwn(p)
  BY <1>9, NullIsNoValue DEF ReleaseOwn, Released, ChainLives, Rows
<1>10. CASE RenewPoll(p)
  BY <1>1, <1>10 DEF RenewPoll, Renewable, ChainLives
<1>11. Abort(p) \/ (p \in Workers /\ Redeliver(p)) \/ PublishPoll(p) \/ AskDevin(p)
       \/ LookupPr(p) \/ LoadPolled(p) \/ FlushPolled(p) \/ ReleaseOwn(p) \/ RenewPoll(p)
  BY DEF Reads, Conditional, Blind, ReceiveRemediation, ReceivePoll, FindPr,
         LoadCompleted, CreateSession, LoadRecord, LoadFailed, Ack, ScanIssues,
         GetUnpolled, Requeue, PullRequestOpened, PullRequestClosed, Claim, Arm, Rearm,
         ArmPoll, Unpublish, DetachClosedPr, Reattach, FlushCompleted, FlushRecord,
         FlushFailed, ReleaseAll, FlushOpened, RecordRaises
<1>. QED
  BY <1>2, <1>3, <1>4, <1>5, <1>6, <1>7, <1>8, <1>9, <1>10, <1>11

\* The poll in the queue: whoever receives it executes it.
LEMMA QueuedGoesOn ==
    ASSUME NEW s \in Sessions, NEW t \in Tokens, ChainLives(s, t), polls[<<s, t>>] > 0,
           NEW p \in Procs, Reads(p) \/ Conditional(p) \/ Blind(p)
    PROVE  GoesOn(s, t)
<1>. /\ TypeOK /\ TypeOK' /\ pc \in [Procs -> Pcs] /\ local \in [Procs -> Locals]
     /\ polls \in [Sessions \X Tokens -> Nat] /\ polls' \in [Sessions \X Tokens -> Nat]
  BY DEF ChainLives, TypeOK
<1>1. ASSUME polls'[<<s, t>>] > 0 PROVE GoesOn(s, t)
  BY <1>1, PolledIs DEF GoesOn
<1>2. ASSUME NEW r \in Sessions, NEW u \in Tokens, ReceivePoll(p, r, u)
      PROVE  GoesOn(s, t)
  <2>1. CASE r = s /\ u = t
    <3>1. OwnsPolling(row, s, t)
      BY DEF ChainLives, OwnsPolling
    <3>2. Carries(p, s, t)'
      BY <1>2, <2>1, <3>1 DEF ReceivePoll, Blank, Carries, CarrierPcs, PollPcs
    <3>. QED
      BY <3>2, CarriedIsPolled DEF GoesOn
  <2>2. CASE ~(r = s /\ u = t)
    BY <1>1, <1>2, <2>2 DEF ReceivePoll
  <2>. QED
    BY <2>1, <2>2
<1>3. ASSUME NEW r, NEW u, Send(r, u) PROVE GoesOn(s, t)
  BY <1>1, <1>3 DEF Send
<1>4. CASE PublishPoll(p) \/ (p \in Workers /\ Redeliver(p))
  BY <1>1, <1>3, <1>4 DEF PublishPoll, Redeliver
<1>5. CASE UNCHANGED polls
  BY <1>1, <1>5
<1>. QED
  BY <1>2, <1>4, <1>5, PollsMove DEF Receives

LEMMA LivesStep ==
    ASSUME NEW s \in Sessions, NEW t \in Tokens, ChainLives(s, t), Polled(s, t), [Next]_vars
    PROVE  GoesOn(s, t)
<1>. TypeOK /\ TypeOK'
  BY DEF ChainLives
<1>1. polls[<<s, t>>] > 0 \/ \E p \in Procs : Carries(p, s, t)
  BY PolledIs DEF TypeOK
<1>2. ASSUME NEW p \in Procs, Reads(p) \/ Conditional(p) \/ Blind(p)
      PROVE  GoesOn(s, t)
  <2>1. CASE polls[<<s, t>>] > 0
    BY <1>2, <2>1, QueuedGoesOn
  <2>2. CASE Carries(p, s, t)
    BY <1>2, <2>2, CarrierGoesOn
  <2>3. ASSUME NEW q \in Procs \ {p}, Carries(q, s, t) PROVE GoesOn(s, t)
    <3>1. Carries(q, s, t)'
      BY <1>2, <2>3, OthersStay DEF Carries
    <3>. QED
      BY <3>1, CarriedIsPolled DEF GoesOn
  <2>. QED
    BY <1>1, <2>1, <2>2, <2>3
<1>3. CASE Surroundings \/ UNCHANGED vars
  <2>1. UNCHANGED <<pc, local, polls>>
    BY <1>3, SurroundingsKeepProcs DEF vars
  <2>2. Polled(s, t)'
    BY <2>1 DEF Polled, Queued, Carriers
  <2>. QED
    BY <2>2 DEF GoesOn
<1>. QED
  BY <1>2, <1>3, NextCases

\* In every behaviour of the service, each step that leaves the row running
\* under its session and token leaves the chain of that token a position,
\* unless a call fails or a process is lost: superseded polls, scans,
\* redeliveries and webhooks never end the polling of a session they do not
\* settle.
THEOREM ChainsNeverJustEnd == Spec => ChainNeverJustEnds
<1>. DEFINE Inv == TypeOK /\ LocalInv /\ TokensPlaced
            Act == /\ row.token # NULL /\ Polled(row.session, row.token)
                   /\ row.status = "running" /\ row'.status = "running"
                   /\ row'.session = row.session /\ row'.token = row.token
                   => Polled(row.session, row.token)' \/ faults' # faults \/ LosesCreator
<1>1. Init => Inv
  <2>. SUFFICES ASSUME Init PROVE Inv
    OBVIOUS
  <2>1. TypeOK /\ LocalInv
    BY TypeInit, RestingOK DEF Init, LocalInv
  <2>2. TokensPlaced
    BY DEF Init, TokensPlaced, Placed, Blank, PollPcs
  <2>. QED
    BY <2>1, <2>2
<1>2. Inv /\ [Next]_vars => Inv'
  BY TypeStep, LocalStep, PlacedStep
<1>3. Inv /\ Inv' /\ [Next]_vars => Act
  <2>. SUFFICES ASSUME Inv, Inv', [Next]_vars,
                       row.token # NULL, Polled(row.session, row.token),
                       row.status = "running", row'.status = "running",
                       row'.session = row.session, row'.token = row.token
                PROVE  Polled(row.session, row.token)' \/ faults' # faults \/ LosesCreator
    OBVIOUS
  <2>1. row.token \in Tokens /\ row.session \in Sessions
    <3>1. row \in Rows
      BY DEF TypeOK
    <3>2. row.token \in Tokens
      BY <3>1 DEF Rows
    <3>3. ASSUME NEW m \in Queued(row.token) PROVE m[1] # NULL
      <4>1. IsCopy(polls, row.token, m)
        BY InQueued
      <4>. QED
        BY <4>1, NullIsNoValue DEF IsCopy
    <3>4. ASSUME NEW p \in Carriers(row.token) PROVE local[p].session # NULL
      BY DEF Carriers, LocalInv, ProcessOK, SessionKnownPcs, PollPcs, PublishPcs
    <3>5. row.session # NULL
      BY <3>3, <3>4 DEF Polled
    <3>. QED
      BY <3>1, <3>2, <3>5 DEF Rows
  <2>2. PICK s \in Sessions, t \in Tokens : s = row.session /\ t = row.token
    BY <2>1
  <2>3. ChainLives(s, t) /\ Polled(s, t)
    BY <2>2 DEF ChainLives
  <2>4. GoesOn(s, t)
    BY <2>3, LivesStep
  <2>5. Polled(row.session, row.token)' <=> Polled(s, t)'
    BY <2>2
  <2>. QED
    BY <2>4, <2>5 DEF GoesOn
<1>. QED
  BY <1>1, <1>2, <1>3, PTL DEF Spec, ChainNeverJustEnds

=============================================================================
