-------------------------- MODULE DeliveriesProofs --------------------------
(***************************************************************************)
(* No issue that a closed pull request hands back is forgotten: the        *)
(* invariant of Deliveries, for every number of issues, pull requests,     *)
(* handlers and failures.                                                  *)
(*                                                                         *)
(* That the issue is on its way is not inductive: a handler may skip it,   *)
(* and a row may lose its pull request.  The induction says who has it     *)
(* (OnItsWay): an owed issue that is not completed is queued, or a forced  *)
(* task has it and will claim it or find it completed, or its row still    *)
(* has the closed pull request and an event or a handler of that pull      *)
(* request will come to it, or its row is detached and the handler whose   *)
(* stamp it bears has it in hand.                                          *)
(***************************************************************************)
EXTENDS Deliveries, WellFoundedInduction, TLAPS

Less == {m \in Nat \X Nat : m[1] < m[2]}

LEMMA MinIsIn ==
    ASSUME NEW S \in SUBSET Nat, S # {}
    PROVE  Min(S) \in S
<1>1. IsWellFoundedOn(Less, Nat)
  BY NatLessThanWellFounded DEF OpToRel, Less
<1>2. PICK n \in S : \A k \in S : <<k, n>> \notin Less
  BY <1>1, WFMin
<1>3. ASSUME NEW k \in S PROVE n <= k
  <2>1. <<k, n>> \in Less <=> k < n
    BY DEF Less
  <2>. QED
    BY <1>2, <2>1
<1>. QED
  BY <1>3 DEF Min

\* A handler at work has a pull request.
PrKnown == \A h \in Handlers : pc[h] # "idle" => local[h].pr # NULL

Types == TypeOK /\ PrKnown

LEMMA ProcsAreApart ==
    /\ Handlers \subseteq Procs /\ Workers \subseteq Procs
    /\ \A h \in Handlers : h \notin Workers
BY DeliveryParameters DEF Procs

LEMMA CurrentIsTodo ==
    ASSUME TypeOK, NEW p \in Procs, local[p].todo # {}
    PROVE  Current(p) \in local[p].todo /\ Current(p) \in Issues
<1>1. local[p].todo \subseteq Issues
  BY DEF TypeOK, Locals
<1>2. local[p].todo \in SUBSET Nat
  BY <1>1, DeliveryParameters
<1>. QED
  BY <1>1, <1>2, MinIsIn DEF Current

(***************************************************************************)
(* Types.                                                                  *)
(***************************************************************************)
LEMMA FlushedRow ==
    ASSUME NEW r \in Rows, NEW w \in Writes
    PROVE  /\ Flushed(r, w) \in Rows
           /\ Flushed(r, w).status = Column(r.status, w.status)
           /\ Flushed(r, w).pr = Column(r.pr, w.pr)
<1>1. /\ Column(r.status, w.status) \in Statuses \cup {"absent"}
      /\ Column(r.session, w.session) \in Sessions \cup {NULL}
      /\ Column(r.pr, w.pr) \in Prs \cup {NULL, DETACHED}
  BY DEF Rows, Writes, Column
<1>. QED
  BY <1>1 DEF Rows, Flushed

\* A commit touches its own row.  What it leaves owed it has completed, or
\* left as it was with no handler in the middle of a compensation.
LEMMA CommitOne ==
    ASSUME TypeOK, NEW i \in Issues, NEW w \in Writes, Commit(i, w)
    PROVE  /\ rows' \in [Issues -> Rows]
           /\ owed' \subseteq owed
           /\ \A j \in Issues \ {i} : rows'[j] = rows[j]
           /\ i \in owed' =>
                 \/ rows'[i] = rows[i] /\ KeyConflict(rows[i], w)
                 \/ rows'[i].status = "completed"
                 \/ /\ w.status = NULL
                    /\ ~\E h \in Handlers : Holds(h, i)
                    /\ rows'[i].status = rows[i].status /\ rows'[i].pr = rows[i].pr
<1>. rows \in [Issues -> Rows] /\ rows[i] \in Rows
  BY DEF TypeOK
<1>1. CASE KeyConflict(rows[i], w)
  BY <1>1 DEF Commit
<1>2. CASE ~KeyConflict(rows[i], w)
  <2>1. /\ rows' = [rows EXCEPT ![i] = Flushed(rows[i], w)]
        /\ owed' = IF Spoils(i, w) THEN owed \ {i} ELSE owed
    BY <1>2 DEF Commit
  <2>2. Flushed(rows[i], w) \in Rows
    BY FlushedRow
  <2>3. rows'[i] = Flushed(rows[i], w)
    BY <2>1
  <2>4. ASSUME i \in owed', rows'[i].status # "completed"
        PROVE  /\ w.status = NULL /\ ~\E h \in Handlers : Holds(h, i)
               /\ rows'[i].status = rows[i].status /\ rows'[i].pr = rows[i].pr
    <3>1. w.status = NULL /\ w.pr = NULL /\ ~\E h \in Handlers : Holds(h, i)
      BY <2>1, <2>3, <2>4 DEF Spoils
    <3>. QED
      BY <2>3, <3>1, FlushedRow DEF Column
  <2>. HIDE DEF Rows, Writes
  <2>. QED
    BY <2>1, <2>2, <2>4
<1>. QED
  BY <1>1, <1>2

LEMMA ReadLocals ==
    ASSUME TypeOK, NEW p \in Procs, NEW i \in Issues, NEW status \in Statuses \cup {NULL},
           NEW session \in Sessions \cup {NULL}, NEW pr \in Prs \cup {NULL}
    PROVE  /\ NetChange(rows[i], status, session, pr) \in Writes
           /\ Read(p, i, status, session, pr) \in Locals
           /\ Read(p, i, status, session, pr).pr = local[p].pr
           /\ Read(p, i, status, session, pr).todo = local[p].todo
           /\ Read(p, i, status, session, pr).force = local[p].force
           /\ Read(p, i, status, session, pr).write = NetChange(rows[i], status, session, pr)
<1>1. NetChange(rows[i], status, session, pr) \in Writes
  BY DEF NetChange, Changed, Exists, Writes
<1>2. local[p] \in Locals
  BY DEF TypeOK
<1>. QED
  BY <1>1, <1>2 DEF Read, Locals

LEMMA FoundPrs ==
    ASSUME NEW i \in Issues, NEW pr \in FindExistingPr(i), pr # NULL
    PROVE  pr \in Prs
<1>. DEFINE open      == {q \in Prs : prs[q].state = "open"}
            crossing  == {q \in open : i \in UNION prs[q].texts}
            mentioned == {q \in open : Mentions(prs[q].refs, i)}
<1>1. crossing \subseteq Prs /\ mentioned \subseteq Prs
  OBVIOUS
<1>2. FindExistingPr(i) \in {crossing, mentioned, {NULL}}
  BY DEF FindExistingPr
<1>. HIDE DEF crossing, mentioned
<1>. QED
  BY <1>1, <1>2

USE DEF procs

\* What a step of one process gives its control point and locals decides.
LEMMA MoveTypes ==
    ASSUME Types, NEW p \in Procs, NEW next \in HandlerPcs \cup WorkerPcs, NEW l \in Locals,
           pc' = [pc EXCEPT ![p] = next], local' = [local EXCEPT ![p] = l],
           p \in Handlers /\ next # "idle" => l.pr # NULL,
           next \in {"detach", "publish", "reattach"} => l.pr # NULL,
           next \notin {"idle", "complete", "fetch"} => l.todo # {},
           rows' \in [Issues -> Rows], forced' \subseteq Issues, UNCHANGED prs,
           unanswered' \subseteq Prs, owed' \subseteq Issues, faults' \in 0..MaxFaults
    PROVE  Types'
<1>. TypeOK /\ Handlers \subseteq Procs
  BY ProcsAreApart DEF Types
<1>1. pc' \in [Procs -> HandlerPcs \cup WorkerPcs] /\ local' \in [Procs -> Locals]
  BY DEF TypeOK
<1>2. /\ pc'[p] = next /\ local'[p] = l
      /\ \A q \in Procs \ {p} : pc'[q] = pc[q] /\ local'[q] = local[q]
  BY DEF TypeOK
<1>3. PrKnown'
  BY <1>2 DEF PrKnown, Types
<1>4. (\A q \in Procs :
          /\ pc[q] \in {"detach", "publish", "reattach"} => local[q].pr # NULL
          /\ pc[q] \notin {"idle", "complete", "fetch"} => local[q].todo # {})'
  BY <1>2 DEF TypeOK
<1>. QED
  BY <1>1, <1>3, <1>4 DEF Types, TypeOK

LEMMA CountFaults ==
    ASSUME TypeOK, Fault
    PROVE  faults' \in 0..MaxFaults
BY DeliveryParameters DEF TypeOK, Fault

LEMMA BlankTyped ==
    /\ Blank \in Locals /\ "idle" \in HandlerPcs /\ "idle" \in WorkerPcs
    /\ NoWrite \in Writes /\ NoWrite.status = NULL /\ ~NoWrite.insert
BY DEF Blank, Locals, HandlerPcs, WorkerPcs, NoWrite, Writes

LEMMA BeginTypes ==
    ASSUME Types, NEW h \in Handlers, NEW pr \in Prs,
           (\E refs \in Texts : PullRequestOpened(h, pr, refs)) \/ PullRequestClosed(h, pr)
    PROVE  Types'
<1>. TypeOK /\ pr # NULL /\ h \in Procs
  BY NullIsNoValue, ProcsAreApart DEF Types
<1>1. ASSUME NEW refs \in Texts, PullRequestOpened(h, pr, refs) PROVE Types'
  <2>1. /\ [Blank EXCEPT !.pr = pr, !.todo = refs] \in Locals
        /\ [Blank EXCEPT !.pr = pr, !.todo = refs].pr = pr
    BY BlankTyped, DeliveryParameters DEF Blank, Locals
  <2>. QED
    BY <1>1, <2>1, MoveTypes DEF PullRequestOpened, Start, Goto, TypeOK, HandlerPcs
<1>2. CASE PullRequestClosed(h, pr)
  <2>1. /\ [Blank EXCEPT !.pr = pr, !.todo = Linked(pr)] \in Locals
        /\ [Blank EXCEPT !.pr = pr, !.todo = Linked(pr)].pr = pr
    BY BlankTyped DEF Blank, Locals, Linked
  <2>. QED
    BY <1>2, <2>1, MoveTypes DEF PullRequestClosed, Start, Goto, TypeOK, HandlerPcs
<1>. QED
  BY <1>1, <1>2

LEMMA ContinuedLocals ==
    ASSUME TypeOK, NEW p \in Procs
    PROVE  LET l == [local[p] EXCEPT !.todo = @ \ {Current(p)}, !.write = NoWrite]
           IN  l \in Locals /\ l.pr = local[p].pr /\ l.todo = local[p].todo \ {Current(p)}
BY BlankTyped DEF TypeOK, Locals

LEMMA AnswerTypes ==
    ASSUME Types, NEW p \in Procs, Goto(p, "idle", Blank),
           rows' \in [Issues -> Rows], forced' \subseteq Issues, UNCHANGED prs,
           unanswered' \subseteq Prs, owed' \subseteq Issues, faults' \in 0..MaxFaults
    PROVE  Types'
BY BlankTyped, MoveTypes DEF Goto

LEMMA ContinueTypes ==
    ASSUME Types, NEW h \in Handlers, pc[h] # "idle",
           NEW next \in {"complete", "fetch"}, Continue(h, next),
           rows' \in [Issues -> Rows], forced' \subseteq Issues, UNCHANGED prs,
           unanswered' \subseteq Prs, owed' \subseteq Issues, faults' \in 0..MaxFaults
    PROVE  Types'
<1>. DEFINE l == [local[h] EXCEPT !.todo = @ \ {Current(h)}, !.write = NoWrite]
<1>1. l \in Locals /\ l.pr # NULL /\ h \in Procs
  BY ContinuedLocals, ProcsAreApart DEF Types, PrKnown
<1>2. local' = [local EXCEPT ![h] = l] /\ pc' = [pc EXCEPT ![h] = next]
  BY DEF Continue, Goto
<1>3. next \in HandlerPcs
  BY DEF HandlerPcs
<1>. HIDE DEF l
<1>. QED
  BY <1>1, <1>2, <1>3, MoveTypes

LEMMA StayTypes ==
    ASSUME Types, NEW h \in Handlers, pc[h] # "idle", local[h].todo # {},
           NEW next \in HandlerPcs, pc' = [pc EXCEPT ![h] = next], UNCHANGED local,
           rows' \in [Issues -> Rows], forced' \subseteq Issues, UNCHANGED prs,
           unanswered' \subseteq Prs, owed' \subseteq Issues, faults' \in 0..MaxFaults
    PROVE  Types'
<1>1. /\ h \in Procs /\ local[h] \in Locals /\ local[h].pr # NULL
      /\ local' = [local EXCEPT ![h] = local[h]]
  BY ProcsAreApart DEF Types, TypeOK, PrKnown
<1>. QED
  BY <1>1, MoveTypes

LEMMA HandlerTypes ==
    ASSUME Types, NEW h \in Handlers, HandlerStep(h) \/ Die(h)
    PROVE  Types'
<1>. TypeOK /\ h \in Procs
  BY ProcsAreApart DEF Types
<1>. DEFINE i == Current(h)
<1>1. CASE Finish(h)
  BY <1>1, AnswerTypes DEF Finish, Answer, TypeOK
<1>2. CASE Complete(h)
  <2>1. i \in Issues /\ local[h].pr \in Prs
    BY <1>2, CurrentIsTodo DEF Complete, Types, TypeOK, PrKnown, Locals
  <2>2. CASE Exists(rows[i])
    <3>. DEFINE l == Read(h, i, "completed", NULL, local[h].pr)
    <3>0. /\ "completed" \in Statuses \cup {NULL} /\ NULL \in Sessions \cup {NULL}
          /\ local[h].pr \in Prs \cup {NULL} /\ local[h].pr # NULL
      BY <2>1, NullIsNoValue DEF Statuses
    <3>1. l \in Locals /\ l.pr # NULL /\ l.todo # {}
      BY <1>2, <2>1, <3>0, ReadLocals DEF Complete
    <3>2. Goto(h, "completed", l)
      BY <1>2, <2>2 DEF Complete
    <3>. HIDE DEF l
    <3>. QED
      BY <1>2, <3>1, <3>2, MoveTypes DEF Complete, Goto, TypeOK, HandlerPcs
  <2>3. CASE ~Exists(rows[i])
    BY <1>2, <2>3, ContinueTypes DEF Complete, TypeOK
  <2>. QED
    BY <2>2, <2>3
<1>8. CASE FlushCompleted(h)
  <2>1. i \in Issues /\ local[h].write \in Writes
    BY <1>8, CurrentIsTodo DEF FlushCompleted, TypeOK, Locals
  <2>2. rows' \in [Issues -> Rows] /\ owed' \subseteq owed
    BY <1>8, <2>1, CommitOne DEF FlushCompleted
  <2>. QED
    BY <1>8, <2>2, ContinueTypes DEF FlushCompleted, TypeOK
<1>3. CASE Fetch(h)
  <2>1. CASE pc' = [pc EXCEPT ![h] = "detach"] /\ UNCHANGED <<local, owed, faults>>
    BY <1>3, <2>1, StayTypes DEF Fetch, TypeOK, HandlerPcs
  <2>2. CASE Continue(h, "fetch") /\ owed' \subseteq owed /\ (Fault \/ UNCHANGED faults)
    BY <1>3, <2>2, CountFaults, ContinueTypes DEF Fetch, TypeOK
  <2>. QED
    BY <1>3, <2>1, <2>2 DEF Fetch
<1>4. CASE Detach(h)
  <2>1. i \in Issues /\ local[h].todo # {}
    BY <1>4, CurrentIsTodo DEF Detach, TypeOK
  <2>2. CASE Detachable(rows[i], local[h].pr)
    <3>1. Detached(rows[i], h) \in Rows
      BY <2>1 DEF Detached, Rows, TypeOK, Statuses
    <3>2. rows' \in [Issues -> Rows]
      BY <1>4, <2>1, <2>2, <3>1 DEF Detach, TypeOK
    <3>. QED
      BY <1>4, <2>1, <2>2, <3>2, StayTypes DEF Detach, TypeOK, HandlerPcs
  <2>3. CASE ~Detachable(rows[i], local[h].pr)
    BY <1>4, <2>3, ContinueTypes DEF Detach, TypeOK
  <2>. QED
    BY <2>2, <2>3
<1>5. CASE Publish(h)
  <2>1. i \in Issues /\ local[h].todo # {}
    BY <1>5, CurrentIsTodo DEF Publish, TypeOK
  <2>2. forced' \subseteq Issues
    BY <1>5, <2>1 DEF Publish, TypeOK
  <2>3. CASE Continue(h, "fetch") /\ UNCHANGED faults
    BY <1>5, <2>2, <2>3, ContinueTypes DEF Publish, TypeOK
  <2>4. CASE pc' = [pc EXCEPT ![h] = "reattach"] /\ Fault /\ UNCHANGED local
    BY <1>5, <2>1, <2>2, <2>4, CountFaults, StayTypes DEF Publish, TypeOK, HandlerPcs
  <2>. QED
    BY <1>5, <2>3, <2>4 DEF Publish
<1>6. CASE Reattach(h)
  <2>1. i \in Issues /\ local[h].pr \in Prs
    BY <1>6, CurrentIsTodo DEF Reattach, TypeOK, Locals
  <2>2. Reattached(rows[i], local[h].pr) \in Rows
    BY <2>1 DEF Reattached, Rows, TypeOK
  <2>3. rows' \in [Issues -> Rows]
    BY <1>6, <2>1, <2>2 DEF Reattach, TypeOK
  <2>4. unanswered' \subseteq Prs
    BY <1>6, <2>1 DEF Reattach, AnswerError, TypeOK
  <2>. QED
    BY <1>6, <2>3, <2>4, AnswerTypes DEF Reattach, AnswerError, Answer, TypeOK
<1>7. CASE Die(h)
  <2>1. local[h].pr \in Prs
    BY <1>7 DEF Die, Types, TypeOK, PrKnown, Locals
  <2>2. unanswered' \subseteq Prs
    BY <1>7, <2>1 DEF Die, AnswerError, TypeOK
  <2>. QED
    BY <1>7, <2>2, CountFaults, AnswerTypes DEF Die, AnswerError, Answer, TypeOK
<1>. QED
  BY <1>1, <1>2, <1>3, <1>4, <1>5, <1>6, <1>7, <1>8 DEF HandlerStep

LEMMA WorkerTypes ==
    ASSUME Types, NEW w \in Workers,
           \/ \E i \in Issues : \/ \E force \in BOOLEAN : Remediate(w, i, force)
                              \/ StartPoll(w, i)
           \/ WorkerStep(w) \/ Fail(w)
    PROVE  Types'
<1>. TypeOK /\ w \in Procs /\ w \notin Handlers
  BY ProcsAreApart DEF Types
<1>. DEFINE i == Current(w)
<1>1. ASSUME NEW k \in Issues, NEW force \in BOOLEAN, Remediate(w, k, force)
      PROVE  Types'
  <2>. DEFINE l == [Blank EXCEPT !.todo = {k}, !.force = force,
                                 !.failed = ~force /\ rows[k].status = "failed"]
  <2>1. l \in Locals /\ l.todo # {}
    BY BlankTyped DEF Blank, Locals
  <2>2. Goto(w, "find", l)
    BY <1>1 DEF Remediate, Start
  <2>. HIDE DEF l
  <2>. QED
    BY <1>1, <2>1, <2>2, MoveTypes DEF Remediate, Goto, TypeOK, WorkerPcs
<1>2. ASSUME NEW k \in Issues, StartPoll(w, k)
      PROVE  Types'
  <2>1. [Blank EXCEPT !.todo = {k}] \in Locals /\ [Blank EXCEPT !.todo = {k}].todo # {}
    BY BlankTyped DEF Blank, Locals
  <2>. QED
    BY <1>2, <2>1, MoveTypes DEF StartPoll, Start, Goto, TypeOK, WorkerPcs
<1>3. CASE FindPr(w)
  <2>1. i \in Issues /\ local[w].todo # {} /\ local[w] \in Locals
    BY <1>3, CurrentIsTodo DEF FindPr, TypeOK
  <2>2. PICK pr \in FindExistingPr(i) :
          IF pr # NULL
          THEN Goto(w, "load", [local[w] EXCEPT !.status = "completed", !.pr = pr,
                                                !.failed = FALSE])
          ELSE IF local[w].failed THEN Goto(w, "idle", Blank)
          ELSE Goto(w, "claim", local[w])
    BY <1>3 DEF FindPr
  <2>3. CASE pr # NULL
    <3>. DEFINE l == [local[w] EXCEPT !.status = "completed", !.pr = pr, !.failed = FALSE]
    <3>1. l \in Locals /\ l.todo # {}
      BY <2>1, <2>3, FoundPrs DEF Locals, Statuses
    <3>2. Goto(w, "load", l)
      BY <2>2, <2>3
    <3>. HIDE DEF l
    <3>. QED
      BY <1>3, <3>1, <3>2, MoveTypes DEF FindPr, Goto, TypeOK, WorkerPcs
  <2>4. CASE Goto(w, "idle", Blank)
    BY <1>3, <2>4, AnswerTypes DEF FindPr, TypeOK
  <2>5. CASE Goto(w, "claim", local[w])
    BY <1>3, <2>1, <2>5, MoveTypes DEF FindPr, Goto, TypeOK, WorkerPcs
  <2>. QED
    BY <2>2, <2>3, <2>4, <2>5
<1>4. CASE Claim(w)
  <2>1. i \in Issues
    BY <1>4, CurrentIsTodo DEF Claim, TypeOK
  <2>2. CASE Claimable(rows[i])
    <3>1. PICK result \in Sessions \cup {NULL} :
            Goto(w, "load", [Blank EXCEPT !.todo = {i}, !.session = result,
                    !.status = IF result = NULL THEN "failed" ELSE "running"])
      BY <1>4, <2>2 DEF Claim
    <3>. DEFINE l == [Blank EXCEPT !.todo = {i}, !.session = result,
                        !.status = IF result = NULL THEN "failed" ELSE "running"]
    <3>2. l \in Locals /\ l.todo # {}
      BY <2>1, BlankTyped DEF Blank, Locals, Statuses
    <3>3. Claimed(rows[i]) \in Rows
      <4>1. rows[i] \in Rows
        BY <2>1 DEF TypeOK
      <4>. QED
        BY <4>1 DEF Claimed, Rows, Statuses, Leases
    <3>4. rows' \in [Issues -> Rows]
      BY <1>4, <2>1, <2>2, <3>3 DEF Claim, TypeOK
    <3>. HIDE DEF l
    <3>5. Goto(w, "load", l)
      BY <3>1 DEF l
    <3>. QED
      BY <1>4, <2>2, <3>2, <3>4, <3>5, MoveTypes DEF Claim, Goto, TypeOK, WorkerPcs
  <2>3. CASE ~Claimable(rows[i])
    BY <1>4, <2>3, AnswerTypes DEF Claim, TypeOK
  <2>. QED
    BY <2>2, <2>3
<1>5. CASE Ask(w)
  <2>1. local[w].todo # {} /\ local[w] \in Locals
    BY <1>5 DEF Ask, TypeOK
  <2>2. PICK status \in Statuses, pr \in {q \in Prs : prs[q].state # "none"} \cup {NULL} :
          Goto(w, "load", [local[w] EXCEPT !.pr = pr,
              !.status = IF pr # NULL /\ status = "running" THEN "completed" ELSE status])
    BY <1>5 DEF Ask
  <2>. DEFINE l == [local[w] EXCEPT !.pr = pr,
              !.status = IF pr # NULL /\ status = "running" THEN "completed" ELSE status]
  <2>3. l \in Locals /\ l.todo # {}
    BY <2>1 DEF Locals, Statuses
  <2>. HIDE DEF l
  <2>4. Goto(w, "load", l)
    BY <2>2 DEF l
  <2>. QED
    BY <1>5, <2>3, <2>4, MoveTypes DEF Ask, Goto, TypeOK, WorkerPcs
<1>6. CASE Load(w)
  <2>1. i \in Issues /\ local[w].todo # {} /\ local[w] \in Locals
    BY <1>6, CurrentIsTodo DEF Load, TypeOK
  <2>2. /\ local[w].status \in Statuses \cup {NULL}
        /\ local[w].session \in Sessions \cup {NULL}
        /\ local[w].pr \in Prs \cup {NULL}
    BY <2>1 DEF Locals
  <2>. DEFINE r == Read(w, i, local[w].status, local[w].session, local[w].pr)
              l == [r EXCEPT !.pr = NULL]
  <2>3. r \in Locals /\ r.todo # {}
    BY <2>1, <2>2, ReadLocals
  <2>. HIDE DEF r
  <2>4. l \in Locals /\ l.todo # {}
    BY <2>3 DEF Locals
  <2>5. Goto(w, "flush", l)
    BY <1>6 DEF Load, r
  <2>. HIDE DEF l
  <2>. QED
    BY <1>6, <2>4, <2>5, MoveTypes DEF Load, Goto, TypeOK, WorkerPcs
<1>7. CASE Flush(w)
  <2>1. i \in Issues /\ local[w].write \in Writes
    BY <1>7, CurrentIsTodo DEF Flush, TypeOK, Locals
  <2>2. rows' \in [Issues -> Rows] /\ owed' \subseteq owed
    BY <1>7, <2>1, CommitOne DEF Flush
  <2>. QED
    BY <1>7, <2>2, AnswerTypes DEF Flush, TypeOK
<1>8. CASE Fail(w)
  BY <1>8, CountFaults, AnswerTypes DEF Fail, TypeOK
<1>. QED
  BY <1>1, <1>2, <1>3, <1>4, <1>5, <1>6, <1>7, <1>8 DEF WorkerStep

LEMMA EditTypes ==
    ASSUME Types, NEW i \in Issues, IssueEdited(i)
    PROVE  Types'
<1>1. rows' \in [Issues -> Rows] /\ owed' \subseteq owed
  BY BlankTyped, CommitOne DEF Types, IssueEdited
<1>. QED
  BY <1>1 DEF IssueEdited, Types, TypeOK, PrKnown

LEMMA GitHubTypes ==
    ASSUME Types, NEW pr \in Prs,
           \/ \E refs \in Texts : OpenPr(pr, refs) \/ EditPr(pr, refs)
           \/ ClosePr(pr) \/ ReopenPr(pr) \/ MergePr(pr)
    PROVE  Types'
<1>. TypeOK /\ prs[pr] \in Requests
  BY DEF Types, TypeOK
<1>1. prs' \in [Prs -> Requests]
  <2>1. ASSUME NEW refs \in Texts, OpenPr(pr, refs)
        PROVE  prs' \in [Prs -> Requests]
    BY <2>1, DeliveryParameters DEF OpenPr, Requests, TypeOK
  <2>2. ASSUME NEW refs \in Texts, EditPr(pr, refs)
        PROVE  prs' \in [Prs -> Requests]
    <3>1. [prs[pr] EXCEPT !.refs = refs, !.texts = @ \cup {refs}] \in Requests
      BY DeliveryParameters DEF Requests
    <3>2. prs' = [prs EXCEPT ![pr] = [prs[pr] EXCEPT !.refs = refs, !.texts = @ \cup {refs}]]
      BY <2>2 DEF EditPr, TypeOK
    <3>. HIDE DEF Requests
    <3>. QED
      BY <3>1, <3>2 DEF TypeOK
  <2>3. CASE ClosePr(pr) \/ ReopenPr(pr) \/ MergePr(pr)
    BY <2>3 DEF ClosePr, ReopenPr, MergePr, Requests, TypeOK
  <2>. QED
    BY <2>1, <2>2, <2>3
<1>2. /\ UNCHANGED <<rows, forced, pc, local, owed, faults>>
      /\ unanswered' \in {unanswered, unanswered \cup {pr}}
  BY DEF OpenPr, EditPr, ClosePr, ReopenPr, MergePr
<1>. QED
  BY <1>1, <1>2 DEF Types, TypeOK, PrKnown

LEMMA TypesInit == Init => Types
<1>1. NoRequest \in Requests /\ AbsentRow \in Rows
  BY DEF NoRequest, Requests, AbsentRow, Rows, Leases
<1>. QED
  BY <1>1, BlankTyped, ProcsAreApart, DeliveryParameters DEF Init, Types, TypeOK, PrKnown

LEMMA TypesStep == Types /\ [Next]_vars => Types'
<1>. SUFFICES ASSUME Types, [Next]_vars PROVE Types'
  OBVIOUS
<1>1. CASE UNCHANGED vars
  BY <1>1 DEF vars, Types, TypeOK, PrKnown
<1>. QED
  BY <1>1, BeginTypes, HandlerTypes, WorkerTypes, EditTypes, GitHubTypes DEF Next

\* Every row, request, control point and local variable keeps its type; a
\* handler between detach and compensation knows its pull request and its issue.
THEOREM DeliveriesTypeCorrect == Spec => []TypeOK
<1>1. Types => TypeOK
  BY DEF Types
<1>. QED
  BY <1>1, TypesInit, TypesStep, PTL DEF Spec

(***************************************************************************)
(* Who has an owed issue.                                                  *)
(***************************************************************************)
\* The handler of the row's pull request has the issue on its list.
ToCome(h, i) ==
    /\ pc[h] \in {"fetch", "detach", "publish", "reattach"}
    /\ local[h].pr = rows[i].pr
    /\ i \in local[h].todo

\* The handler that detached the row, and that nobody has written over.
InHand(h, i) == Holds(h, i) /\ rows[i].pr = DETACHED /\ rows[i].stamp = h

\* The forced task has the issue, and has not decided to skip it.
Working(w, i) ==
    /\ local[w].force /\ Current(w) = i
    /\ \/ pc[w] = "find" /\ ~local[w].failed
       \/ pc[w] = "claim"
       \/ pc[w] = "load" /\ local[w].status = "completed"
       \/ /\ pc[w] = "flush"
          /\ local[w].write.status = "completed" /\ ~local[w].write.insert

Has(p, i) ==
    \/ p \in Handlers /\ (ToCome(p, i) \/ InHand(p, i))
    \/ p \in Workers /\ Working(p, i)

OnItsWay(i) ==
    \/ i \in forced
    \/ rows[i].pr \in unanswered
    \/ \E p \in Procs : Has(p, i)

Accounted(i) ==
    rows[i].status = "completed" \/ (rows[i].status = "failed" /\ OnItsWay(i))

OwedInv == \A i \in owed : Accounted(i)

\* The row keeps what the induction looks at.
SameRow(j) ==
    /\ rows'[j].status = rows[j].status /\ rows'[j].pr = rows[j].pr
    /\ rows'[j].stamp = rows[j].stamp \/ ~\E h \in Handlers : Holds(h, j)

LEMMA StillHas ==
    ASSUME NEW q, NEW j, pc'[q] = pc[q], local'[q] = local[q], SameRow(j), Has(q, j)
    PROVE  Has(q, j)'
<1>1. CASE q \in Handlers /\ ToCome(q, j)
  BY <1>1 DEF ToCome, Has, SameRow
<1>2. CASE q \in Handlers /\ InHand(q, j)
  BY <1>2 DEF InHand, Holds, Current, Has, SameRow
<1>3. CASE q \in Workers /\ Working(q, j)
  BY <1>3 DEF Working, Current, Has
<1>. QED
  BY <1>1, <1>2, <1>3 DEF Has

\* A step of one process leaves an issue on its way if the process itself
\* keeps it, or leaves it to the queue or to the next delivery.
LEMMA ProcKeeps ==
    ASSUME NEW p, NEW j,
           \A q \in Procs \ {p} : pc'[q] = pc[q] /\ local'[q] = local[q],
           SameRow(j), Accounted(j),
           j \in forced => j \in forced' \/ (p \in Procs /\ Has(p, j)'),
           rows[j].pr \in unanswered
               => rows[j].pr \in unanswered' \/ (p \in Procs /\ Has(p, j)'),
           rows[j].status = "failed" /\ Has(p, j)
               => \/ p \in Procs /\ Has(p, j)'
                  \/ rows[j].pr \in unanswered' \/ j \in forced'
    PROVE  Accounted(j)'
<1>. SUFFICES ASSUME rows[j].status = "failed", OnItsWay(j)
              PROVE  OnItsWay(j)'
  BY DEF Accounted, SameRow
<1>1. CASE j \in forced \/ rows[j].pr \in unanswered
  BY <1>1 DEF OnItsWay, SameRow
<1>2. ASSUME NEW q \in Procs \ {p}, Has(q, j)
      PROVE  OnItsWay(j)'
  BY <1>2, StillHas DEF OnItsWay
<1>3. CASE Has(p, j)
  BY <1>3 DEF OnItsWay, SameRow
<1>. QED
  BY <1>1, <1>2, <1>3 DEF OnItsWay

LEMMA HandlerKeeps ==
    ASSUME NEW h \in Handlers, NEW j,
           \A q \in Procs \ {h} : pc'[q] = pc[q] /\ local'[q] = local[q],
           rows'[j] = rows[j], forced \subseteq forced', unanswered \subseteq unanswered',
           Accounted(j),
           rows[j].status = "failed" /\ ToCome(h, j)
               => ToCome(h, j)' \/ rows[j].pr \in unanswered' \/ j \in forced',
           rows[j].status = "failed" /\ InHand(h, j) => InHand(h, j)' \/ j \in forced'
    PROVE  Accounted(j)'
<1>1. h \in Procs /\ h \notin Workers
  BY ProcsAreApart
<1>2. SameRow(j)
  BY DEF SameRow
<1>. QED
  BY <1>1, <1>2, ProcKeeps DEF Has

\* The handler goes on with its next issue: it keeps all but the current one.
LEMMA ContinueKeeps ==
    ASSUME TypeOK, NEW h \in Handlers, NEW j, j # Current(h), rows'[j] = rows[j],
           forced \subseteq forced', unanswered \subseteq unanswered',
           Accounted(j), Continue(h, "fetch")
    PROVE  Accounted(j)'
<1>1. ~InHand(h, j)
  BY DEF InHand, Holds
<1>2. \A q \in Procs \ {h} : pc'[q] = pc[q] /\ local'[q] = local[q]
  BY DEF Continue, Goto, TypeOK
<1>3. pc'[h] = "fetch" /\ local'[h].pr = local[h].pr
      /\ local'[h].todo = local[h].todo \ {Current(h)}
  BY ProcsAreApart, ContinuedLocals DEF Continue, Goto, TypeOK
<1>4. ToCome(h, j) => ToCome(h, j)'
  BY <1>3 DEF ToCome
<1>. QED
  BY <1>1, <1>2, <1>4, HandlerKeeps

\* The handler stays at its issue.
LEMMA StayKeeps ==
    ASSUME TypeOK, NEW h \in Handlers, NEW j, rows'[j] = rows[j],
           forced \subseteq forced', unanswered \subseteq unanswered', Accounted(j),
           pc[h] \in {"fetch", "detach"} \/ pc'[h] = "reattach",
           NEW next \in {"detach", "publish", "reattach"},
           pc' = [pc EXCEPT ![h] = next], UNCHANGED local
    PROVE  Accounted(j)'
<1>1. \A q \in Procs \ {h} : pc'[q] = pc[q] /\ local'[q] = local[q]
  BY ProcsAreApart DEF TypeOK
<1>2. pc'[h] = next
  BY ProcsAreApart DEF TypeOK
<1>3. ToCome(h, j) => ToCome(h, j)'
  BY <1>2 DEF ToCome
<1>4. InHand(h, j) => InHand(h, j)'
  BY <1>2 DEF InHand, Holds, Current
<1>. QED
  BY <1>1, <1>3, <1>4, HandlerKeeps

\* The handler answers with an error: the event is to be delivered again.
LEMMA ErrorKeeps ==
    ASSUME TypeOK, NEW h \in Handlers, NEW j, rows'[j] = rows[j],
           UNCHANGED forced, Accounted(j), AnswerError(h),
           rows[j].status = "failed" => ~InHand(h, j)
    PROVE  Accounted(j)'
<1>1. \A q \in Procs \ {h} : pc'[q] = pc[q] /\ local'[q] = local[q]
  BY DEF AnswerError, Answer, Goto, TypeOK
<1>2. unanswered \subseteq unanswered'
  BY DEF AnswerError
<1>3. ToCome(h, j) => rows[j].pr \in unanswered'
  BY DEF ToCome, AnswerError
<1>. QED
  BY <1>1, <1>2, <1>3, HandlerKeeps

\* The handler of an opened event has nothing of the closed one.
LEMMA OpenedKeeps ==
    ASSUME NEW h \in Handlers, NEW j, pc[h] \in {"complete", "completed"},
           \A q \in Procs \ {h} : pc'[q] = pc[q] /\ local'[q] = local[q],
           SameRow(j), UNCHANGED <<forced, unanswered>>, Accounted(j)
    PROVE  Accounted(j)'
<1>1. ~Has(h, j)
  BY ProcsAreApart DEF Has, ToCome, InHand, Holds
<1>. QED
  BY <1>1, ProcKeeps

LEMMA OwedCompleted ==
    ASSUME Types, OwedInv, NEW h \in Handlers, FlushCompleted(h)
    PROVE  OwedInv'
<1>. TypeOK /\ h \in Procs
  BY ProcsAreApart DEF Types
<1>. DEFINE i == Current(h)
<1>. SUFFICES ASSUME NEW j \in owed', rows'[j].status # "completed"
              PROVE  Accounted(j)'
  BY DEF OwedInv, Accounted
<1>1. i \in Issues /\ local[h].write \in Writes
  BY CurrentIsTodo DEF FlushCompleted, TypeOK, Locals
<1>2. Commit(i, local[h].write)
  BY DEF FlushCompleted
<1>3. j \in owed /\ j \in Issues /\ Accounted(j)
  BY <1>1, <1>2, CommitOne DEF OwedInv, TypeOK
<1>4. SameRow(j)
  BY <1>1, <1>2, <1>3, CommitOne DEF SameRow
<1>5. \A q \in Procs \ {h} : pc'[q] = pc[q] /\ local'[q] = local[q]
  BY DEF FlushCompleted, Continue, Goto, TypeOK
<1>. QED
  BY <1>3, <1>4, <1>5, OpenedKeeps DEF FlushCompleted

LEMMA OwedHandler ==
    ASSUME Types, OwedInv, NEW h \in Handlers, HandlerStep(h) \/ Die(h)
    PROVE  OwedInv'
<1>. TypeOK /\ rows \in [Issues -> Rows] /\ h \in Procs
  BY ProcsAreApart DEF Types, TypeOK
<1>. DEFINE i == Current(h)
<1>. SUFFICES ASSUME ~FlushCompleted(h), NEW j \in owed', rows'[j].status # "completed"
              PROVE  Accounted(j)'
  BY OwedCompleted DEF OwedInv, Accounted
<1>0. j \in owed /\ j \in Issues /\ Accounted(j)
  BY DEF OwedInv, TypeOK, HandlerStep, Finish, Complete, Fetch, Detach, Publish, Reattach, Die
<1>1. CASE Finish(h)
  <2>1. \A q \in Procs \ {h} : pc'[q] = pc[q] /\ local'[q] = local[q]
    BY <1>1 DEF Finish, Answer, Goto, TypeOK
  <2>2. ~ToCome(h, j) /\ ~InHand(h, j)
    BY <1>1 DEF Finish, ToCome, InHand, Holds
  <2>. QED
    BY <1>0, <1>1, <2>1, <2>2, HandlerKeeps DEF Finish
<1>2. CASE Complete(h)
  <2>1. UNCHANGED <<rows, forced, unanswered>> /\ SameRow(j)
    BY <1>2 DEF Complete, SameRow
  <2>2. \A q \in Procs \ {h} : pc'[q] = pc[q] /\ local'[q] = local[q]
    BY <1>2 DEF Complete, Continue, Goto, TypeOK
  <2>. QED
    BY <1>0, <1>2, <2>1, <2>2, OpenedKeeps DEF Complete
<1>3. CASE Fetch(h)
  <2>1. CASE pc' = [pc EXCEPT ![h] = "detach"] /\ UNCHANGED local
    BY <1>0, <1>3, <2>1, StayKeeps DEF Fetch
  <2>2. CASE Continue(h, "fetch") /\ j # i
    BY <1>0, <1>3, <2>2, ContinueKeeps DEF Fetch
  <2>3. CASE Continue(h, "fetch") /\ j = i
    BY <1>0, <1>3, <2>3 DEF Fetch, Continue, Goto, Accounted, TypeOK
  <2>. QED
    BY <1>3, <2>1, <2>2, <2>3 DEF Fetch
<1>4. CASE Detach(h)
  <2>1. CASE Detachable(rows[i], local[h].pr) /\ j = i
    <3>1. /\ rows'[j] = Detached(rows[j], h) /\ pc'[h] = "publish" /\ UNCHANGED local
      BY <1>0, <1>4, <2>1 DEF Detach, TypeOK
    <3>2. rows[j] \in Rows
      BY <1>0
    <3>3. /\ rows'[j].status = "failed" /\ rows'[j].pr = DETACHED /\ rows'[j].stamp = h
      BY <3>1, <3>2 DEF Detached, Rows
    <3>4. InHand(h, j)'
      BY <2>1, <3>1, <3>3 DEF InHand, Holds, Current
    <3>. QED
      BY <3>3, <3>4 DEF Accounted, OnItsWay, Has
  <2>2. CASE Detachable(rows[i], local[h].pr) /\ j # i
    BY <1>0, <1>4, <2>2, StayKeeps DEF Detach
  <2>3. CASE ~Detachable(rows[i], local[h].pr)
    <3>1. CASE j # i
      BY <1>0, <1>4, <2>3, <3>1, ContinueKeeps DEF Detach
    <3>2. CASE j = i
      <4>1. ~ToCome(h, j) /\ ~InHand(h, j)
        BY <1>0, <1>4, <2>3, <3>2
        DEF Detach, Detachable, ToCome, InHand, Holds, Accounted
      <4>2. \A q \in Procs \ {h} : pc'[q] = pc[q] /\ local'[q] = local[q]
        BY <1>4, <2>3 DEF Detach, Continue, Goto, TypeOK
      <4>. QED
        BY <1>0, <1>4, <2>3, <4>1, <4>2, HandlerKeeps DEF Detach
    <3>. QED
      BY <3>1, <3>2
  <2>. QED
    BY <2>1, <2>2, <2>3
<1>5. CASE Publish(h)
  <2>1. CASE Continue(h, "fetch") /\ forced' = forced \cup {i}
    <3>1. CASE j = i
      BY <1>0, <1>5, <2>1, <3>1 DEF Publish, Accounted, OnItsWay
    <3>2. CASE j # i
      BY <1>0, <1>5, <2>1, <3>2, ContinueKeeps DEF Publish
    <3>. QED
      BY <3>1, <3>2
  <2>2. CASE pc' = [pc EXCEPT ![h] = "reattach"] /\ UNCHANGED local
    <3>1. pc'[h] = "reattach" /\ forced \subseteq forced'
      BY <1>5, <2>2 DEF Publish, TypeOK
    <3>. QED
      BY <1>0, <1>5, <2>2, <3>1, StayKeeps DEF Publish
  <2>. QED
    BY <1>5, <2>1, <2>2 DEF Publish
<1>6. CASE Reattach(h)
  <2>1. CASE j = i /\ Reattachable(rows[i], h)
    <3>1. rows'[j] = Reattached(rows[j], local[h].pr) /\ rows[j] \in Rows
      BY <1>0, <1>6, <2>1 DEF Reattach
    <3>2. rows'[j].status = "failed" /\ rows'[j].pr = local[h].pr
      BY <2>1, <3>1 DEF Reattached, Reattachable, Rows
    <3>3. local[h].pr \in unanswered'
      BY <1>6 DEF Reattach, AnswerError
    <3>. QED
      BY <3>2, <3>3 DEF Accounted, OnItsWay
  <2>2. CASE ~(j = i /\ Reattachable(rows[i], h))
    <3>1. rows'[j] = rows[j]
      BY <1>6, <2>2 DEF Reattach
    <3>2. rows[j].status = "failed" => ~InHand(h, j)
      BY <1>6, <2>2 DEF Reattach, InHand, Holds, Reattachable
    <3>. QED
      BY <1>0, <1>6, <3>1, <3>2, ErrorKeeps DEF Reattach
  <2>. QED
    BY <2>1, <2>2
<1>7. CASE Die(h)
  <2>1. ~InHand(h, j)
    BY <1>0, <1>7 DEF Die, InHand
  <2>. QED
    BY <1>0, <1>7, <2>1, ErrorKeeps DEF Die
<1>. QED
  BY <1>1, <1>2, <1>3, <1>4, <1>5, <1>6, <1>7 DEF HandlerStep

\* A delivery begins: a closed event takes over what it left unanswered.
LEMMA OwedBegin ==
    ASSUME Types, OwedInv, NEW h \in Handlers, NEW pr \in Prs,
           (\E refs \in Texts : PullRequestOpened(h, pr, refs)) \/ PullRequestClosed(h, pr)
    PROVE  OwedInv'
<1>. TypeOK /\ h \in Procs /\ h \notin Workers
  BY ProcsAreApart DEF Types
<1>. SUFFICES ASSUME NEW j \in owed' PROVE Accounted(j)'
  BY DEF OwedInv
<1>1. /\ pc[h] = "idle" /\ SameRow(j) /\ UNCHANGED <<rows, forced>>
      /\ \A q \in Procs \ {h} : pc'[q] = pc[q] /\ local'[q] = local[q]
  BY DEF PullRequestOpened, PullRequestClosed, Start, Goto, SameRow, TypeOK
<1>2. ~Has(h, j)
  BY <1>1 DEF Has, ToCome, InHand, Holds
<1>3. CASE \E refs \in Texts : PullRequestOpened(h, pr, refs)
  BY <1>1, <1>2, <1>3, ProcKeeps DEF PullRequestOpened, OwedInv
<1>4. CASE PullRequestClosed(h, pr)
  <2>1. CASE j \in Linked(pr)
    <3>1. /\ pc'[h] = "fetch" /\ local'[h].pr = pr /\ j \in local'[h].todo
      BY <1>4, <2>1, BlankTyped DEF PullRequestClosed, Start, Goto, TypeOK, Blank
    <3>2. Has(h, j)'
      BY <1>1, <2>1, <3>1 DEF Has, ToCome, Linked
    <3>3. rows[j].status \in {"completed", "failed"}
      BY <1>4 DEF PullRequestClosed, OwedInv, Accounted, Detachable
    <3>. QED
      BY <1>1, <3>2, <3>3 DEF Accounted, OnItsWay
  <2>2. CASE j \notin Linked(pr)
    <3>1. j \in owed /\ j \in Issues /\ Accounted(j)
      BY <1>4, <2>2 DEF PullRequestClosed, Detachable, Linked, OwedInv, TypeOK
    <3>2. rows[j].pr # pr
      BY <2>2, <3>1 DEF Linked, Accounted
    <3>3. rows[j].pr \in unanswered => rows[j].pr \in unanswered'
      BY <1>4, <3>2 DEF PullRequestClosed
    <3>. QED
      BY <1>1, <1>2, <3>1, <3>3, ProcKeeps
  <2>. QED
    BY <2>1, <2>2
<1>. QED
  BY <1>3, <1>4

\* A task begins: with force it takes the issue from the queue.
LEMMA OwedTaken ==
    ASSUME Types, OwedInv, NEW w \in Workers, NEW i \in Issues,
           (\E force \in BOOLEAN : Remediate(w, i, force)) \/ StartPoll(w, i)
    PROVE  OwedInv'
<1>. TypeOK /\ w \in Procs /\ w \notin Handlers
  BY ProcsAreApart DEF Types
<1>. SUFFICES ASSUME NEW j \in owed' PROVE Accounted(j)'
  BY DEF OwedInv
<1>1. /\ pc[w] = "idle" /\ SameRow(j) /\ UNCHANGED <<unanswered, owed>>
      /\ \A q \in Procs \ {w} : pc'[q] = pc[q] /\ local'[q] = local[q]
  BY DEF Remediate, StartPoll, Start, Goto, SameRow, TypeOK
<1>2. ~Has(w, j) /\ Accounted(j)
  BY <1>1 DEF Has, Working, OwedInv
<1>3. j \in forced => j \in forced' \/ Has(w, j)'
  <2>1. SUFFICES ASSUME j \in forced, j \notin forced'
                 PROVE  Has(w, j)'
    OBVIOUS
  <2>2. PICK force \in BOOLEAN : Remediate(w, i, force)
    BY <2>1 DEF StartPoll
  <2>3. force /\ j = i
    BY <2>1, <2>2 DEF Remediate
  <2>. DEFINE l == [Blank EXCEPT !.todo = {i}, !.force = force,
                                 !.failed = ~force /\ rows[i].status = "failed"]
  <2>4. pc'[w] = "find" /\ local'[w] = l
    BY <2>2 DEF Remediate, Start, Goto, TypeOK
  <2>5. l.todo = {i} /\ l.force /\ ~l.failed
    BY <2>3 DEF Blank
  <2>. HIDE DEF l
  <2>6. Min({i}) = i
    BY MinIsIn, DeliveryParameters
  <2>7. Current(w)' = i
    BY <2>4, <2>5, <2>6 DEF Current
  <2>. QED
    BY <2>3, <2>4, <2>5, <2>7 DEF Has, Working
<1>. QED
  BY <1>1, <1>2, <1>3, ProcKeeps

LEMMA OwedFlush ==
    ASSUME Types, OwedInv, NEW w \in Workers, Flush(w)
    PROVE  OwedInv'
<1>. TypeOK /\ w \in Procs /\ w \notin Handlers
  BY ProcsAreApart DEF Types
<1>. DEFINE i == Current(w)
<1>. SUFFICES ASSUME NEW j \in owed', rows'[j].status # "completed"
              PROVE  Accounted(j)'
  BY DEF OwedInv, Accounted
<1>1. i \in Issues /\ local[w].write \in Writes
  BY CurrentIsTodo DEF Flush, TypeOK, Locals
<1>2. Commit(i, local[w].write)
  BY DEF Flush
<1>3. j \in owed /\ j \in Issues /\ Accounted(j)
  BY <1>1, <1>2, CommitOne DEF OwedInv, TypeOK
<1>4. SameRow(j)
  BY <1>1, <1>2, <1>3, CommitOne DEF SameRow
<1>5. /\ \A q \in Procs \ {w} : pc'[q] = pc[q] /\ local'[q] = local[q]
      /\ pc[w] = "flush" /\ UNCHANGED <<forced, unanswered>>
  BY DEF Flush, Goto, TypeOK
<1>6. ~Has(w, j)
  <2>. SUFFICES ASSUME Working(w, j) PROVE FALSE
    BY DEF Has
  <2>1. j = i /\ local[w].write.status = "completed" /\ ~local[w].write.insert
    BY <1>5 DEF Working
  <2>2. ~KeyConflict(rows[i], local[w].write)
    BY <2>1 DEF KeyConflict
  <2>3. local[w].write.status # NULL
    BY <2>1, NullIsNoValue
  <2>. QED
    BY <1>1, <1>2, <2>1, <2>2, <2>3, CommitOne
<1>. QED
  BY <1>3, <1>4, <1>5, <1>6, ProcKeeps

LEMMA OwedWorker ==
    ASSUME Types, OwedInv, NEW w \in Workers, WorkerStep(w) \/ Fail(w)
    PROVE  OwedInv'
<1>. TypeOK /\ w \in Procs /\ w \notin Handlers
  BY ProcsAreApart DEF Types
<1>. DEFINE i == Current(w)
<1>. SUFFICES ASSUME ~Flush(w), NEW j \in owed'
              PROVE  Accounted(j)'
  BY OwedFlush DEF OwedInv
<1>0. /\ j \in owed /\ j \in Issues /\ Accounted(j)
      /\ UNCHANGED <<forced, unanswered>>
  BY DEF OwedInv, TypeOK, WorkerStep, FindPr, Claim, Ask, Load, Fail
<1>1. \A q \in Procs \ {w} : pc'[q] = pc[q] /\ local'[q] = local[q]
  BY DEF WorkerStep, FindPr, Claim, Ask, Load, Fail, Goto, TypeOK
<1>2. /\ local[w] \in Locals
      /\ pc[w] \in {"find", "claim", "ask", "load", "flush"}
            => i \in Issues /\ i \in local[w].todo
  BY CurrentIsTodo DEF TypeOK
<1>3. CASE FindPr(w)
  <2>1. SameRow(j)
    BY <1>3 DEF FindPr, SameRow
  <2>2. PICK pr \in FindExistingPr(i) :
          IF pr # NULL
          THEN Goto(w, "load", [local[w] EXCEPT !.status = "completed", !.pr = pr,
                                                !.failed = FALSE])
          ELSE IF local[w].failed THEN Goto(w, "idle", Blank)
          ELSE Goto(w, "claim", local[w])
    BY <1>3 DEF FindPr
  <2>3. Has(w, j) => Has(w, j)'
    <3>. SUFFICES ASSUME Has(w, j) PROVE Has(w, j)'
      OBVIOUS
    <3>1. local[w].force /\ j = i /\ ~local[w].failed
      BY <1>3 DEF Has, Working, FindPr
    <3>2. CASE pr # NULL
      <4>. DEFINE l == [local[w] EXCEPT !.status = "completed", !.pr = pr, !.failed = FALSE]
      <4>1. l.todo = local[w].todo /\ l.force = local[w].force /\ l.status = "completed"
        BY <1>2 DEF Locals
      <4>2. pc'[w] = "load" /\ local'[w] = l
        BY <2>2, <3>2 DEF Goto, TypeOK
      <4>. HIDE DEF l
      <4>. QED
        BY <3>1, <4>1, <4>2 DEF Has, Working, Current
    <3>3. CASE pr = NULL
      <4>1. pc'[w] = "claim" /\ local'[w] = local[w]
        BY <2>2, <3>1, <3>3 DEF Goto, TypeOK
      <4>. QED
        BY <3>1, <4>1 DEF Has, Working, Current
    <3>. QED
      BY <3>2, <3>3
  <2>. QED
    BY <1>0, <1>1, <2>1, <2>3, ProcKeeps
<1>4. CASE Claim(w)
  <2>1. SameRow(j)
    BY <1>0, <1>2, <1>4 DEF Claim, SameRow, TypeOK
  <2>2. rows[j].status = "failed" => ~Has(w, j)
    BY <1>4 DEF Claim, Has, Working, Claimable
  <2>. QED
    BY <1>0, <1>1, <2>1, <2>2, ProcKeeps
<1>5. CASE Ask(w)
  <2>1. SameRow(j) /\ ~Has(w, j)
    BY <1>5 DEF Ask, SameRow, Has, Working
  <2>. QED
    BY <1>0, <1>1, <2>1, ProcKeeps
<1>6. CASE Load(w)
  <2>1. SameRow(j)
    BY <1>6 DEF Load, SameRow
  <2>2. /\ local[w].status \in Statuses \cup {NULL}
        /\ local[w].session \in Sessions \cup {NULL}
        /\ local[w].pr \in Prs \cup {NULL}
    BY <1>2 DEF Locals
  <2>3. rows[j].status = "failed" /\ Has(w, j) => Has(w, j)'
    <3>. SUFFICES ASSUME rows[j].status = "failed", Has(w, j) PROVE Has(w, j)'
      OBVIOUS
    <3>1. local[w].force /\ j = i /\ local[w].status = "completed"
      BY <1>6 DEF Has, Working, Load
    <3>. DEFINE n == NetChange(rows[i], local[w].status, local[w].session, local[w].pr)
                r == Read(w, i, local[w].status, local[w].session, local[w].pr)
                l == [r EXCEPT !.pr = NULL]
    <3>2. n.status = "completed" /\ ~n.insert
      BY <3>1 DEF NetChange, Changed, Exists
    <3>3. r \in Locals /\ r.todo = local[w].todo /\ r.force = local[w].force /\ r.write = n
      BY <1>2, <1>6, <2>2, ReadLocals DEF Load
    <3>4. Goto(w, "flush", l)
      BY <1>6 DEF Load
    <3>. HIDE DEF n, r
    <3>5. l.todo = local[w].todo /\ l.force = local[w].force /\ l.write = n
      BY <3>3 DEF Locals
    <3>6. pc'[w] = "flush" /\ local'[w] = l
      BY <3>4 DEF Goto, TypeOK
    <3>. HIDE DEF l
    <3>. QED
      BY <3>1, <3>2, <3>5, <3>6 DEF Has, Working, Current
  <2>. QED
    BY <1>0, <1>1, <2>1, <2>3, ProcKeeps
<1>7. CASE Fail(w)
  <2>1. SameRow(j)
    BY <1>7 DEF Fail, SameRow
  <2>2. Has(w, j) => j \in forced'
    BY <1>0, <1>2, <1>7 DEF Has, Working, Fail
  <2>. QED
    BY <1>0, <1>1, <2>1, <2>2, ProcKeeps
<1>. QED
  BY <1>3, <1>4, <1>5, <1>6, <1>7 DEF WorkerStep

\* No process moves.
LEMMA ServiceKeeps ==
    ASSUME NEW j, UNCHANGED procs, Accounted(j), SameRow(j),
           UNCHANGED forced, unanswered \subseteq unanswered'
    PROVE  Accounted(j)'
<1>1. \A p \in Procs : Has(p, j) => Has(p, j)'
  BY StillHas
<1>. QED
  BY <1>1 DEF Accounted, OnItsWay, SameRow

LEMMA OwedEdited ==
    ASSUME Types, OwedInv, NEW i \in Issues, IssueEdited(i)
    PROVE  OwedInv'
<1>. SUFFICES ASSUME NEW j \in owed', rows'[j].status # "completed"
              PROVE  Accounted(j)'
  BY DEF OwedInv, Accounted
<1>1. TypeOK /\ Commit(i, NoWrite) /\ NoWrite \in Writes
  BY BlankTyped DEF Types, IssueEdited
<1>2. j \in owed /\ j \in Issues /\ Accounted(j)
  BY <1>1, CommitOne DEF OwedInv, TypeOK
<1>3. SameRow(j)
  BY <1>1, <1>2, CommitOne DEF SameRow
<1>. QED
  BY <1>2, <1>3, ServiceKeeps DEF IssueEdited

LEMMA OwedStep == Types /\ OwedInv /\ [Next]_vars => OwedInv'
<1>. SUFFICES ASSUME Types, OwedInv, [Next]_vars PROVE OwedInv'
  OBVIOUS
<1>1. CASE \/ UNCHANGED vars
           \/ \E pr \in Prs :
                 \/ \E refs \in Texts : OpenPr(pr, refs) \/ EditPr(pr, refs)
                 \/ ClosePr(pr) \/ ReopenPr(pr) \/ MergePr(pr)
  <2>1. UNCHANGED <<rows, forced, procs, owed>> /\ unanswered \subseteq unanswered'
    BY <1>1 DEF vars, OpenPr, EditPr, ClosePr, ReopenPr, MergePr
  <2>. SUFFICES ASSUME NEW j \in owed PROVE Accounted(j)'
    BY <2>1 DEF OwedInv
  <2>. QED
    BY <2>1, ServiceKeeps DEF OwedInv, SameRow
<1>. QED
  BY <1>1, OwedBegin, OwedHandler, OwedTaken, OwedWorker, OwedEdited DEF Next

\* Whichever calls fail, handlers die, deliveries and tasks come again, late
\* or overlapping, and upserts write what they read before, every issue that a
\* closed pull request hands back is queued, in a forced task, in a handler's
\* list, due with the event's next delivery, or completed; short of the
\* exceptions that the invariant names.
THEOREM NothingOwedIsForgotten == Spec => []OwedIsOnItsWay
<1>. DEFINE Inv == Types /\ OwedInv
<1>1. Init => Inv
  BY TypesInit DEF Init, OwedInv
<1>2. Inv /\ [Next]_vars => Inv'
  BY TypesStep, OwedStep
<1>3. Inv => OwedIsOnItsWay
  <2>. SUFFICES ASSUME Inv, NEW i \in owed, rows[i].status # "completed",
                       i \notin forced, rows[i].pr \notin unanswered
                PROVE  \/ \E w \in Workers : local[w].force /\ i \in local[w].todo
                       \/ \E h \in Handlers :
                             /\ pc[h] \in {"fetch", "detach", "publish", "reattach"}
                             /\ i \in local[h].todo
    BY DEF OwedIsOnItsWay
  <2>1. PICK p \in Procs : Has(p, i)
    BY DEF OwedInv, Accounted, OnItsWay
  <2>2. CASE p \in Handlers /\ ToCome(p, i)
    BY <2>2 DEF ToCome
  <2>3. CASE p \in Handlers /\ InHand(p, i)
    <3>1. pc[p] \in {"publish", "reattach"} /\ i = Current(p)
      BY <2>3 DEF InHand, Holds
    <3>2. local[p].todo # {}
      BY <3>1 DEF Types, TypeOK
    <3>. QED
      BY <2>3, <3>1, <3>2, CurrentIsTodo DEF Types
  <2>4. CASE p \in Workers /\ Working(p, i)
    <3>1. local[p].force /\ i = Current(p) /\ pc[p] \in {"find", "claim", "load", "flush"}
      BY <2>4 DEF Working
    <3>2. local[p].todo # {}
      BY <3>1 DEF Types, TypeOK
    <3>. QED
      BY <2>4, <3>1, <3>2, CurrentIsTodo DEF Types
  <2>. QED
    BY <2>1, <2>2, <2>3, <2>4 DEF Has
<1>. QED
  BY <1>1, <1>2, <1>3, PTL DEF Spec

=============================================================================
