----------------------------- MODULE Deliveries -----------------------------
(***************************************************************************)
(* Deliveries of pull_request webhooks for pull requests that reference    *)
(* several issues (app/webhooks.py, _handle_pull_request), the requests    *)
(* they leave behind, and what else writes the issues' rows meanwhile.     *)
(*                                                                         *)
(* A delivery walks its issues in order and is cut at every call; an       *)
(* exception ends it with a 500 and leaves the event to be delivered       *)
(* again.  Workers run remediate_issue_task and poll_session_task, cut     *)
(* where a row is read, claimed or written: what a task decided or read    *)
(* may be stale when it writes.  Leases do not run out and polls have no   *)
(* tokens here: module Remediation has these.                              *)
(***************************************************************************)
EXTENDS Integers, FiniteSets, FiniteSetsExt, TaskRow

CONSTANTS
    Issues,         \* numbers of issues
    Texts,          \* what pull requests may say: the issues they mention
    Workers,        \* devin-worker slots
    MaxFaults       \* bound on failed calls and lost processes

ASSUME DeliveryParameters ==
    /\ Issues \subseteq Nat \ {0} /\ IsFiniteSet(Issues)
    /\ Texts \subseteq SUBSET Issues
    /\ Workers \cap Handlers = {}
    /\ MaxFaults \in Nat

VARIABLES
    rows,       \* task row of each issue
    forced,     \* issues with a queued remediate_issue_task, force_retry
    prs,        \* pull requests, on GitHub
    unanswered, \* those whose closed event is to be delivered (again)
    pc,         \* next call of each process
    local,      \* its locals
    owed,       \* issues a closed event has to hand back (history)
    faults

procs == <<pc, local>>
vars  == <<rows, forced, prs, unanswered, procs, owed, faults>>

Procs == Handlers \cup Workers

Requests == [state  : {"none", "open", "closed", "merged"},
             refs   : SUBSET Issues,    \* what its title and body mention
             texts  : SUBSET Texts,     \* the same, at any time it was open
             closed : BOOLEAN]          \* has been closed unmerged once

HandlerPcs == {"idle", "complete", "completed", "fetch", "detach", "publish",
               "reattach"}

WorkerPcs == {"idle", "find", "claim", "ask", "load", "flush"}

\* For a worker, pr, status and session are what it is going to record.
Locals == [pr      : Prs \cup {NULL},
           todo    : SUBSET Issues,     \* issues still to do
           force   : BOOLEAN,           \* force_retry, until it is decided
           failed  : BOOLEAN,           \* the status first read was failed
           status  : Statuses \cup {NULL},
           session : Sessions \cup {NULL},
           write   : Writes]            \* of an upsert that has read its row

Blank == [pr |-> NULL, todo |-> {}, force |-> FALSE, failed |-> FALSE,
          status |-> NULL, session |-> NULL, write |-> NoWrite]

\* Besides the types: who holds, writes or compensates a row knows which.
TypeOK ==
    /\ rows \in [Issues -> Rows]
    /\ forced \subseteq Issues
    /\ prs \in [Prs -> Requests]
    /\ unanswered \subseteq Prs
    /\ pc \in [Procs -> HandlerPcs \cup WorkerPcs]
    /\ local \in [Procs -> Locals]
    /\ \A p \in Procs :
          /\ pc[p] \in {"detach", "publish", "reattach"} => local[p].pr # NULL
          /\ pc[p] \notin {"idle", "complete", "fetch"} => local[p].todo # {}
    /\ owed \subseteq Issues
    /\ faults \in 0..MaxFaults

NoRequest == [state |-> "none", refs |-> {}, texts |-> {}, closed |-> FALSE]

Init ==
    /\ rows = [i \in Issues |-> AbsentRow]
    /\ forced = {}
    /\ prs = [pr \in Prs |-> NoRequest]
    /\ unanswered = {}
    /\ pc = [p \in Procs |-> "idle"]
    /\ local = [p \in Procs |-> Blank]
    /\ owed = {}
    /\ faults = 0

Fault == faults < MaxFaults /\ faults' = faults + 1

Current(p) == Min(local[p].todo)

\* The handler a detached row is with.
Holds(h, i) == pc[h] \in {"publish", "reattach"} /\ Current(h) = i

Goto(p, next, locals) ==
    /\ pc' = [pc EXCEPT ![p] = next]
    /\ local' = [local EXCEPT ![p] = locals]

Start(p, first, locals) == pc[p] = "idle" /\ Goto(p, first, locals)

(***************************************************************************)
(* An upsert: what it will change follows from the row it reads, and is    *)
(* written later over whatever the row is by then.                         *)
(***************************************************************************)
Read(p, i, status, session, pr) ==
    [local[p] EXCEPT !.status = NULL, !.session = NULL,
                     !.write = NetChange(rows[i], status, session, pr)]

\* The row stays failed, with another pull request or under the hands of the
\* handler that holds it: what brings a retry may miss it now.
Spoils(i, w) ==
    /\ Flushed(rows[i], w).status # "completed"
    /\ \/ w.status # NULL \/ w.pr # NULL
       \/ \E h \in Handlers : Holds(h, i)

Commit(i, w) ==
    IF KeyConflict(rows[i], w)
    THEN UNCHANGED <<rows, owed>>
    ELSE /\ rows' = [rows EXCEPT ![i] = Flushed(@, w)]
         /\ owed' = IF Spoils(i, w) THEN owed \ {i} ELSE owed

(***************************************************************************)
(* The handlers.                                                           *)
(***************************************************************************)
\* Opened, reopened and ready_for_review events carry the text of their
\* time; any of them may come late, or once more.
PullRequestOpened(h, pr, refs) ==
    /\ refs \in prs[pr].texts
    /\ Start(h, "complete", [Blank EXCEPT !.pr = pr, !.todo = refs])
    /\ UNCHANGED <<rows, forced, prs, unanswered, owed, faults>>

\* Mutant: the issues are those the pull request names by now.
LinkedByText(pr) == {i \in prs[pr].refs : rows[i].status \in {"completed", "failed"}}

Linked(pr) == {i \in Issues : rows[i].pr = pr /\ rows[i].status # "running"}

PullRequestClosed(h, pr) ==
    /\ prs[pr].closed
    /\ Start(h, "fetch", [Blank EXCEPT !.pr = pr, !.todo = Linked(pr)])
    /\ unanswered' = unanswered \ {pr}
    /\ owed' = owed \cup {i \in Issues : Detachable(rows[i], pr)}
    /\ UNCHANGED <<rows, forced, prs, faults>>

\* An issues event for a tracked issue writes title, URL and updated_at,
\* whatever it has read of the row.
IssueEdited(i) ==
    /\ Exists(rows[i])
    /\ Commit(i, NoWrite)
    /\ UNCHANGED <<forced, prs, unanswered, procs, faults>>

Continue(h, next) ==
    Goto(h, next, [local[h] EXCEPT !.todo = @ \ {Current(h)}, !.write = NoWrite])

Answer(h) == Goto(h, "idle", Blank)

\* A closed event that was answered with 500 is to be delivered again.
AnswerError(h) ==
    /\ Answer(h)
    /\ unanswered' = IF pc[h] \in {"fetch", "detach", "publish", "reattach"}
                     THEN unanswered \cup {local[h].pr} ELSE unanswered

Finish(h) ==
    /\ pc[h] \in {"complete", "fetch"} /\ local[h].todo = {}
    /\ Answer(h)
    /\ UNCHANGED <<rows, forced, prs, unanswered, owed, faults>>

\* Only tracked issues are completed.
Complete(h) ==
    LET i == Current(h) IN
    /\ pc[h] = "complete" /\ local[h].todo # {}
    /\ IF Exists(rows[i])
       THEN Goto(h, "completed", Read(h, i, "completed", NULL, local[h].pr))
       ELSE Continue(h, "complete")
    /\ UNCHANGED <<rows, forced, prs, unanswered, owed, faults>>

FlushCompleted(h) ==
    /\ pc[h] = "completed"
    /\ Commit(Current(h), local[h].write)
    /\ Continue(h, "complete")
    /\ UNCHANGED <<forced, prs, unanswered, faults>>

\* get_issue.  Users close, reopen and label issues as they like, so each
\* look may find the issue worth a retry or not.  When the call fails the loop
\* goes on, and the event will count as handled.
Fetch(h) ==
    LET i == Current(h) IN
    /\ pc[h] = "fetch" /\ local[h].todo # {}
    /\ \/ /\ pc' = [pc EXCEPT ![h] = "detach"]
          /\ UNCHANGED <<local, owed, faults>>
       \/ /\ Continue(h, "fetch")
          /\ owed' = owed \ {i}
          /\ UNCHANGED faults
       \/ /\ Continue(h, "fetch")
          /\ owed' = IF rows[i].status = "failed" THEN owed \ {i} ELSE owed
          /\ Fault
    /\ UNCHANGED <<rows, forced, prs, unanswered>>

Detach(h) ==
    LET i  == Current(h)
        pr == local[h].pr
    IN  /\ pc[h] = "detach"
        /\ IF Detachable(rows[i], pr)
           THEN /\ rows' = [rows EXCEPT ![i] = Detached(@, h)]
                /\ pc' = [pc EXCEPT ![h] = "publish"]
                /\ UNCHANGED local
           ELSE /\ UNCHANGED rows
                /\ Continue(h, "fetch")
        /\ UNCHANGED <<forced, prs, unanswered, owed, faults>>

\* Mutant: a publication that raised is logged like a failed get_issue.
PublishOrSkip(h) ==
    LET i == Current(h) IN
    /\ pc[h] = "publish"
    /\ \/ forced' = forced \cup {i} /\ UNCHANGED faults
       \/ UNCHANGED forced /\ Fault
    /\ Continue(h, "fetch")
    /\ UNCHANGED <<rows, prs, unanswered, owed>>

\* Mutant: the next issue is published without being looked at.
PublishThenNext(h) ==
    LET i == Current(h) IN
    /\ pc[h] = "publish"
    /\ \/ /\ forced' = forced \cup {i}
          /\ Continue(h, "publish")
          /\ UNCHANGED faults
       \/ /\ UNCHANGED <<forced, local>>
          /\ pc' = [pc EXCEPT ![h] = "reattach"]
          /\ Fault
    /\ UNCHANGED <<rows, prs, unanswered, owed>>

\* A publication that raises may have reached the broker all the same.
Publish(h) ==
    LET i == Current(h) IN
    /\ pc[h] = "publish"
    /\ \/ /\ forced' = forced \cup {i}
          /\ Continue(h, "fetch")
          /\ UNCHANGED faults
       \/ /\ \/ forced' = forced \cup {i}
             \/ UNCHANGED forced
          /\ pc' = [pc EXCEPT ![h] = "reattach"]
          /\ Fault
          /\ UNCHANGED local
    /\ UNCHANGED <<rows, prs, unanswered, owed>>

\* Mutant: the exception is swallowed after the compensation.
ReattachAndAnswer(h) ==
    LET i == Current(h) IN
    /\ pc[h] = "reattach"
    /\ rows' = IF Reattachable(rows[i], h)
               THEN [rows EXCEPT ![i] = Reattached(@, local[h].pr)]
               ELSE rows
    /\ Answer(h)
    /\ UNCHANGED <<forced, prs, unanswered, owed, faults>>

\* The compensation, and the exception raised again.
Reattach(h) ==
    LET i == Current(h) IN
    /\ pc[h] = "reattach"
    /\ rows' = IF Reattachable(rows[i], h)
               THEN [rows EXCEPT ![i] = Reattached(@, local[h].pr)]
               ELSE rows
    /\ AnswerError(h)
    /\ UNCHANGED <<forced, prs, owed, faults>>

\* A database error at any statement, or a process that is gone.
Die(h) ==
    /\ pc[h] # "idle"
    /\ AnswerError(h)
    /\ owed' = owed \ {i \in Issues : Holds(h, i)}
    /\ Fault
    /\ UNCHANGED <<rows, forced, prs>>

(***************************************************************************)
(* The workers.  A message is acknowledged when its task ends, so that it  *)
(* may be delivered once more.  Without force, a scan, a label or a        *)
(* duplicate may ask for a remediation at any time.                        *)
(***************************************************************************)
Remediate(w, i, force) ==
    /\ force => i \in forced
    /\ forced' \in {forced, IF force THEN forced \ {i} ELSE forced}
    /\ Start(w, "find", [Blank EXCEPT !.todo = {i}, !.force = force,
                           !.failed = ~force /\ rows[i].status = "failed"])
    /\ UNCHANGED <<rows, prs, unanswered, owed, faults>>

\* The needle #1 is found in #12 too.
Mentions(refs, i) == \E n \in refs : n = i \/ n \div 10 = i

\* First the cross-references of the timeline, then the text.
FindExistingPr(i) ==
    LET open      == {pr \in Prs : prs[pr].state = "open"}
        crossing  == {pr \in open : i \in UNION prs[pr].texts}
        mentioned == {pr \in open : Mentions(prs[pr].refs, i)}
    IN  IF crossing # {} THEN crossing
        ELSE IF mentioned # {} THEN mentioned ELSE {NULL}

FindPr(w) ==
    /\ pc[w] = "find"
    /\ \E pr \in FindExistingPr(Current(w)) :
          IF pr # NULL
          THEN Goto(w, "load", [local[w] EXCEPT !.status = "completed", !.pr = pr,
                                                !.failed = FALSE])
          ELSE IF local[w].failed THEN Goto(w, "idle", Blank)
          ELSE Goto(w, "claim", local[w])
    /\ UNCHANGED <<rows, forced, prs, unanswered, owed, faults>>

\* The claim and, when it is granted, create_session: nobody here sees the
\* state in between.
Claim(w) ==
    LET i == Current(w) IN
    /\ pc[w] = "claim"
    /\ IF Claimable(rows[i])
       THEN /\ rows' = [rows EXCEPT ![i] = Claimed(@)]
            /\ owed' = owed \ {i}
            /\ \E result \in Sessions \cup {NULL} :
                  Goto(w, "load", [Blank EXCEPT !.todo = {i}, !.session = result,
                          !.status = IF result = NULL THEN "failed" ELSE "running"])
       ELSE UNCHANGED <<rows, owed>> /\ Goto(w, "idle", Blank)
    /\ UNCHANGED <<forced, prs, unanswered, faults>>

StartPoll(w, i) ==
    /\ rows[i].status = "running" /\ rows[i].session # NULL
    /\ Start(w, "ask", [Blank EXCEPT !.todo = {i}])
    /\ UNCHANGED <<rows, forced, prs, unanswered, owed, faults>>

\* get_session tells a status and perhaps a pull request, or GitHub does.
Ask(w) ==
    /\ pc[w] = "ask"
    /\ \E status \in Statuses,
          pr \in {q \in Prs : prs[q].state # "none"} \cup {NULL} :
          Goto(w, "load", [local[w] EXCEPT !.pr = pr,
              !.status = IF pr # NULL /\ status = "running"
                         THEN "completed" ELSE status])
    /\ UNCHANGED <<rows, forced, prs, unanswered, owed, faults>>

Load(w) ==
    /\ pc[w] = "load"
    /\ Goto(w, "flush", [Read(w, Current(w), local[w].status, local[w].session,
                              local[w].pr) EXCEPT !.pr = NULL])
    /\ UNCHANGED <<rows, forced, prs, unanswered, owed, faults>>

Flush(w) ==
    /\ pc[w] = "flush"
    /\ Commit(Current(w), local[w].write)
    /\ Goto(w, "idle", Blank)
    /\ UNCHANGED <<forced, prs, unanswered, faults>>

\* A task raises, at find_existing_pr or a statement, or its process is gone.
Fail(w) ==
    /\ pc[w] # "idle"
    /\ owed' = IF local[w].force THEN owed \ (local[w].todo \ forced) ELSE owed
    /\ Goto(w, "idle", Blank)
    /\ Fault
    /\ UNCHANGED <<rows, forced, prs, unanswered>>

(***************************************************************************)
(* GitHub and its users.                                                   *)
(***************************************************************************)
OpenPr(pr, refs) ==
    /\ prs[pr].state = "none"
    /\ prs' = [prs EXCEPT ![pr] =
          [state |-> "open", refs |-> refs, texts |-> {refs}, closed |-> FALSE]]
    /\ UNCHANGED <<rows, forced, unanswered, procs, owed, faults>>

EditPr(pr, refs) ==
    /\ prs[pr].state = "open"
    /\ prs' = [prs EXCEPT ![pr].refs = refs, ![pr].texts = @ \cup {refs}]
    /\ UNCHANGED <<rows, forced, unanswered, procs, owed, faults>>

ClosePr(pr) ==
    /\ prs[pr].state = "open"
    /\ prs' = [prs EXCEPT ![pr].state = "closed", ![pr].closed = TRUE]
    /\ unanswered' = unanswered \cup {pr}
    /\ UNCHANGED <<rows, forced, procs, owed, faults>>

ReopenPr(pr) ==
    /\ prs[pr].state = "closed"
    /\ prs' = [prs EXCEPT ![pr].state = "open"]
    /\ UNCHANGED <<rows, forced, unanswered, procs, owed, faults>>

\* The closed event of a merged pull request does nothing.
MergePr(pr) ==
    /\ prs[pr].state = "open"
    /\ prs' = [prs EXCEPT ![pr].state = "merged"]
    /\ UNCHANGED <<rows, forced, unanswered, procs, owed, faults>>

HandlerStep(h) ==
    \/ Finish(h) \/ Complete(h) \/ FlushCompleted(h)
    \/ Fetch(h) \/ Detach(h) \/ Publish(h) \/ Reattach(h)

WorkerStep(w) == FindPr(w) \/ Claim(w) \/ Ask(w) \/ Load(w) \/ Flush(w)

Next ==
    \/ \E h \in Handlers :
        \/ \E pr \in Prs :
            \/ \E refs \in Texts : PullRequestOpened(h, pr, refs)
            \/ PullRequestClosed(h, pr)
        \/ HandlerStep(h)
        \/ Die(h)
    \/ \E w \in Workers :
        \/ \E i \in Issues :
            \/ \E force \in BOOLEAN : Remediate(w, i, force)
            \/ StartPoll(w, i)
        \/ WorkerStep(w)
        \/ Fail(w)
    \/ \E i \in Issues : IssueEdited(i)
    \/ \E pr \in Prs :
        \/ \E refs \in Texts : OpenPr(pr, refs) \/ EditPr(pr, refs)
        \/ ClosePr(pr) \/ ReopenPr(pr) \/ MergePr(pr)

Spec == Init /\ [][Next]_vars

-----------------------------------------------------------------------------

\* Every issue a closed pull request hands back is retried, whichever call of
\* the loop failed and whatever the other issues of the delivery met: until
\* then it is queued with force_retry, or a forced task or a handler has it
\* before it, or the event that would find it is to be delivered again, or it
\* counts as completed, which the next scan corrects.  No longer owed is an
\* issue found closed or without its label.  No longer owed, too, though
\* nothing retries it, is an issue
\*   - held by a handler that dies between the detach and the publication;
\*   - failed before, when get_issue fails;
\*   - whose forced task raises or is lost;
\*   - that an upsert leaves failed while a handler holds it, which voids the
\*     compensation, or that an upsert makes failed or running again or gives
\*     another pull request (Spoils).
OwedIsOnItsWay ==
    \A i \in owed :
        \/ i \in forced
        \/ \E w \in Workers : local[w].force /\ i \in local[w].todo
        \/ \E h \in Handlers : /\ pc[h] \in {"fetch", "detach", "publish", "reattach"}
                                /\ i \in local[h].todo
        \/ rows[i].pr \in unanswered
        \/ rows[i].status = "completed"

=============================================================================
