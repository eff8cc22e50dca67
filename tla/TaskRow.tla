------------------------------ MODULE TaskRow ------------------------------
(***************************************************************************)
(* The task row of one GitHub issue (app/db.py, class Task) and the        *)
(* statements app/store.py runs on it.  The service has no other shared    *)
(* state: every replica, worker and webhook handler coordinates through    *)
(* this row, so each operator below is one SQL statement, atomic by itself *)
(* and by nothing more.                                                    *)
(*                                                                         *)
(* Only what the statements' WHERE clauses look at is kept.  A lease is    *)
(* reduced to how it compares with the clock: absent, still live, expired. *)
(* updated_at is reduced to its only use, the compensation token of        *)
(* reattach_closed_pr: the handler whose detach wrote it last, or NULL     *)
(* once anybody else has written it.                                       *)
(***************************************************************************)

CONSTANTS
    Sessions,   \* Devin session ids
    Tokens,     \* poll tokens (secrets.token_hex)
    Prs,        \* pull request URLs
    Handlers,   \* webhook deliveries being handled: the writers of stamps
    NULL,       \* SQL NULL, Python None
    DETACHED    \* the empty string detach_closed_pr stores in pr_url

ASSUME NullIsNoValue ==
    /\ NULL \notin Sessions \cup Tokens \cup Prs \cup Handlers
    /\ NULL \notin {"running", "completed", "failed"}
    /\ DETACHED \notin Prs \cup {NULL}

Statuses == {"running", "completed", "failed"}
Leases   == {"none", "live", "expired"}

Rows == [status  : Statuses \cup {"absent"},
         session : Sessions \cup {NULL},
         pr      : Prs \cup {NULL, DETACHED},
         token   : Tokens \cup {NULL},
         lease   : Leases,
         stamp   : Handlers \cup {NULL}]

AbsentRow == [status |-> "absent", session |-> NULL, pr |-> NULL,
              token |-> NULL, lease |-> "none", stamp |-> NULL]

Exists(r) == r.status # "absent"

(***************************************************************************)
(* upsert reads the row, assigns the given keywords and commits.  The ORM  *)
(* writes back the columns whose value differs from what was READ, plus    *)
(* updated_at, in an UPDATE keyed by the primary key alone (an INSERT when *)
(* the read found no row).  The two halves are separate statements: the    *)
(* net change is computed from one state of the row and applied to         *)
(* another.                                                                *)
(***************************************************************************)
Writes == [insert  : BOOLEAN,
           status  : Statuses \cup {NULL},
           session : Sessions \cup {NULL},
           pr      : Prs \cup {NULL}]

NoWrite == [insert |-> FALSE, status |-> NULL, session |-> NULL, pr |-> NULL]

Changed(old, new) == IF new = old THEN NULL ELSE new

NetChange(r, status, session, pr) ==
    [insert  |-> ~Exists(r),
     status  |-> Changed(r.status, status),
     session |-> Changed(r.session, session),
     pr      |-> Changed(r.pr, pr)]

\* The INSERT of a second first-writer violates the primary key.
KeyConflict(r, w) == w.insert /\ Exists(r)

Column(old, new) == IF new = NULL THEN old ELSE new

Flushed(r, w) ==
    [r EXCEPT !.status  = Column(r.status, w.status),
              !.session = Column(r.session, w.session),
              !.pr      = Column(r.pr, w.pr),
              !.stamp   = NULL]

(***************************************************************************)
(* claim_remediation: INSERT ... ON CONFLICT DO NOTHING, then an UPDATE    *)
(* whose WHERE clause admits a row that is not running, or that is running *)
(* without a session on an expired creation lease.                         *)
(***************************************************************************)
LeaseLost(r) == r.lease \in {"none", "expired"}

\* Mutants: the lease is not looked at; a stranded claim is not admitted.
ClaimableIgnoringLease(r)   == r.status # "running" \/ r.session = NULL
ClaimableUnlessRunning(r)   == r.status # "running"

Claimable(r) ==
    \/ r.status # "running"
    \/ r.session = NULL /\ LeaseLost(r)

\* Mutant: the previous session's poll token survives the claim.
ClaimedKeepingToken(r) ==
    [r EXCEPT !.status = "running", !.session = NULL, !.pr = NULL,
              !.lease = "live", !.stamp = NULL]

Claimed(r) ==
    [r EXCEPT !.status = "running", !.session = NULL, !.pr = NULL,
              !.token = NULL, !.lease = "live", !.stamp = NULL]

(***************************************************************************)
(* Poll ownership: claim_poll, renew_poll, release_poll and the query      *)
(* get_unpolled_running.  None of them writes updated_at.                  *)
(***************************************************************************)
\* Mutant: a scan takes the polling over whether its lease is lost or not.
PollGrantableAnyLease(r, session, onlyIfLost) ==
    r.session = session /\ r.status = "running"

PollGrantable(r, session, onlyIfLost) ==
    /\ r.session = session
    /\ r.status = "running"
    /\ onlyIfLost => LeaseLost(r)

PollClaimed(r, token) == [r EXCEPT !.token = token, !.lease = "live"]

Renewable(r, token) == r.token = token
Renewed(r)          == [r EXCEPT !.lease = "live"]

\* Mutant: a poll that ends drops the ownership of whoever has it.
ReleasedAnyToken(r, token) == [r EXCEPT !.token = NULL, !.lease = "none"]

\* release_poll without a token drops whatever ownership it finds.
Released(r, token) ==
    IF token # NULL /\ r.token # token
    THEN r
    ELSE [r EXCEPT !.token = NULL, !.lease = "none"]

\* Mutant: only missing leases count as lost, not expired ones.
UnpolledIfNeverLeased(r) ==
    r.status = "running" /\ r.session # NULL /\ r.lease = "none"

Unpolled(r) ==
    r.status = "running" /\ r.session # NULL /\ LeaseLost(r)

(***************************************************************************)
(* detach_closed_pr and its compensation reattach_closed_pr.               *)
(***************************************************************************)
\* Mutant: the row need not point at the closed pull request any more.
DetachableByStatus(r, pr) == r.status \in {"completed", "failed"}

Detachable(r, pr) == r.pr = pr /\ r.status \in {"completed", "failed"}

Detached(r, h) == [r EXCEPT !.status = "failed", !.pr = DETACHED, !.stamp = h]

\* Mutant: the compensation token is not compared.
ReattachableByShape(r, h) == r.status = "failed" /\ r.pr = DETACHED

Reattachable(r, h) == r.status = "failed" /\ r.pr = DETACHED /\ r.stamp = h

Reattached(r, pr) == [r EXCEPT !.pr = pr, !.stamp = NULL]

(***************************************************************************)
(* Time passing is the only thing that turns a live lease into a lost one. *)
(***************************************************************************)
Expired(r) == [r EXCEPT !.lease = "expired"]

=============================================================================
