----------------------------- MODULE PollChains -----------------------------
(***************************************************************************)
(* What the poll chains of Remediation promise: a chain is the sequence of *)
(* poll_session_tasks that pass one token on.  It is where its polls are   *)
(* queued or executed.                                                     *)
(***************************************************************************)
EXTENDS Remediation, FiniteSets

\* Processes that will poll, or schedule the next poll, under a token.
Carriers(token) ==
    {p \in Procs : /\ local[p].token = token
                   /\ pc[p] \in PollPcs \cup {"publish"}}

\* The queued polls under a token, each copy numbered.
Queued(token) == UNION {{s} \X (1..polls[<<s, token>>]) : s \in Sessions}

\* A chain has one position: its poll is either queued or being executed,
\* once, except that each redelivery of a task can add one more.  Lost and
\* doubtful publications, re-arming scans and aborted tasks never fork it.
ChainDoesNotFork ==
    row.token # NULL =>
        Cardinality(Queued(row.token)) + Cardinality(Carriers(row.token))
            <= 1 + redeliveries

\* The session has a poll queued or executed under the token.
Polled(session, token) ==
    \/ \E m \in Queued(token) : m[1] = session
    \/ \E p \in Carriers(token) : local[p].session = session

\* A worker is lost with the task of a creator between arm_poll and the
\* publication: its poll is never sent, while a lost poll comes back itself.
LosesCreator ==
    \E w \in Workers :
        pc[w] = "publish" /\ local[w].task # "poll" /\ pc'[w] = "idle"

\* A chain never just ends: as long as the row keeps its session and token
\* and stays running, each poll is followed by the next, also one that found
\* nothing new, could not reach Devin or was delivered twice, and whatever
\* other chains, creators and webhooks do meanwhile.  Only a failed call or a
\* lost process ends it.
ChainNeverJustEnds ==
    [][/\ row.token # NULL /\ Polled(row.session, row.token)
       /\ row.status = "running" /\ row'.status = "running"
       /\ row'.session = row.session /\ row'.token = row.token
       => Polled(row.session, row.token)' \/ faults' # faults \/ LosesCreator]_vars

\* Polling outlives failures: once Devin is done with the session of a
\* running row, the row gets settled, whatever was lost on the way (the
\* creator, a poll task, a publication, a worker).
SessionIsSettled ==
    \A s \in Sessions :
        /\ row.status = "running" /\ row.session = s
        /\ devin[s] \in {"finished", "error"}
        ~> row.status # "running" \/ row.session # s

\* A claim whose owner died is taken over: no row stays running without a
\* session.
StrandedClaimIsRecovered ==
    row.status = "running" /\ row.session = NULL
        ~> row.status # "running" \/ row.session # NULL

=============================================================================
