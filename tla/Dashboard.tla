------------------------------ MODULE Dashboard -----------------------------
(***************************************************************************)
(* The dashboard's polling of GET /status (usePolledStatus in frontend/src *)
(* and the endpoint in app/api/read.py).  The component's state outlives   *)
(* the effect that fills it: when the effect is run again (a development   *)
(* remount, another interval) its predecessor is disposed of, with         *)
(* whatever request it has under way.  A request is an asynchronous call:  *)
(* the endpoint may answer it at any time until it is aborted, and the     *)
(* code after the await runs later than the moment the call settles.       *)
(***************************************************************************)
EXTENDS Integers, FiniteSets

CONSTANTS
    MaxVersions,    \* bound on the changes of the task table
    MaxEffects,     \* bound on the runs of the effect
    MaxRequests,    \* bound on requests that are under way at a time
    MaxFailures     \* bound on requests that fail or time out

ASSUME DashboardParameters ==
    /\ MaxVersions \in Nat \ {0} /\ MaxEffects \in Nat \ {0}
    /\ MaxRequests \in Nat \ {0} /\ MaxFailures \in Nat

VARIABLES
    table,      \* version of the task table
    effect,     \* the run of the effect that is not disposed of, or 0
    timer,      \* runs of the effect whose nextTimer is set
    requests,   \* calls of fetchStatus that have not been dealt with
    shown,      \* state.rows: the version shown, 0 for none
    error,      \* state.error is set
    failures

vars == <<table, effect, timer, requests, shown, error, failures>>

Effects == 1..MaxEffects

\* A call is sent, read (the endpoint has read the table), and then answered,
\* or rejected because it failed, timed out or was aborted.
Calls == [id : 1..MaxRequests, effect : Effects, rows : 0..MaxVersions,
          state : {"sent", "read", "answered", "rejected"}]

Of(e) == {c \in requests : c.effect = e}

\* Besides the types: of one run of the effect there is a request or a timer
\* for the next one, and never two.
TypeOK ==
    /\ table \in 1..MaxVersions
    /\ effect \in Effects
    /\ timer \subseteq Effects
    /\ requests \subseteq Calls
    /\ \A e \in Effects :
          Cardinality(Of(e)) + (IF e \in timer THEN 1 ELSE 0) <= 1
    /\ shown \in 0..MaxVersions
    /\ error \in BOOLEAN
    /\ failures \in 0..MaxFailures

FreeIds == (1..MaxRequests) \ {c.id : c \in requests}

Call(e) == [id |-> CHOOSE n \in FreeIds : TRUE, effect |-> e, rows |-> 0,
            state |-> "sent"]

Settle(c, state) == (requests \ {c}) \cup {[c EXCEPT !.state = state]}

Fail == failures < MaxFailures /\ failures' = failures + 1

\* The component is mounted and its effect run for the first time.
Init ==
    /\ table = 1
    /\ effect = 1
    /\ timer = {}
    /\ requests = {[id |-> 1, effect |-> 1, rows |-> 0, state |-> "sent"]}
    /\ shown = 0
    /\ error = FALSE
    /\ failures = 0

Change ==
    /\ table < MaxVersions
    /\ table' = table + 1
    /\ UNCHANGED <<effect, timer, requests, shown, error, failures>>

\* GET /status: store.get_all, one query.
Read(c) ==
    /\ c.state = "sent"
    /\ requests' = (requests \ {c}) \cup {[c EXCEPT !.state = "read", !.rows = table]}
    /\ UNCHANGED <<table, effect, timer, shown, error, failures>>

\* The body has come in; fetchStatus is resolved.
Resolve(c) ==
    /\ c.state = "read"
    /\ requests' = Settle(c, "answered")
    /\ UNCHANGED <<table, effect, timer, shown, error, failures>>

\* A network error or a status that is not ok; or the timeout of the request.
Reject(c) ==
    /\ c.state \in {"sent", "read"}
    /\ requests' = Settle(c, "rejected")
    /\ Fail
    /\ UNCHANGED <<table, effect, timer, shown, error>>

\* Mutant: an answer is shown whether its effect has been disposed of or not.
ContinueIfDisposed(c) ==
    /\ c.state \in {"answered", "rejected"}
    /\ requests' = requests \ {c}
    /\ shown' = IF c.state = "answered" THEN c.rows ELSE shown
    /\ error' = (c.state = "rejected")
    /\ timer' = IF c.effect = effect THEN timer \cup {c.effect} ELSE timer
    /\ UNCHANGED <<table, effect, failures>>

\* Mutant: an answer does not clear the error of an earlier failure.
ContinueKeepingError(c) ==
    /\ c.state \in {"answered", "rejected"}
    /\ requests' = requests \ {c}
    /\ IF c.effect # effect
       THEN UNCHANGED <<shown, error, timer>>
       ELSE /\ shown' = IF c.state = "answered" THEN c.rows ELSE shown
            /\ error' = (error \/ c.state = "rejected")
            /\ timer' = timer \cup {c.effect}
    /\ UNCHANGED <<table, effect, failures>>

\* The code after the await: state is set and the next poll is scheduled,
\* unless the effect has been disposed of meanwhile.
Continue(c) ==
    /\ c.state \in {"answered", "rejected"}
    /\ requests' = requests \ {c}
    /\ IF c.effect # effect
       THEN UNCHANGED <<shown, error, timer>>
       ELSE /\ shown' = IF c.state = "answered" THEN c.rows ELSE shown
            /\ error' = (c.state = "rejected")
            /\ timer' = timer \cup {c.effect}
    /\ UNCHANGED <<table, effect, failures>>

\* Mutant: the page polls at an interval, as app/templates/index.html does.
TickAtInterval(e) ==
    /\ e \in timer \cup {effect} /\ FreeIds # {}
    /\ timer' = timer \ {e}
    /\ requests' = requests \cup {Call(e)}
    /\ UNCHANGED <<table, effect, shown, error, failures>>

Tick(e) ==
    /\ e \in timer /\ FreeIds # {}
    /\ timer' = timer \ {e}
    /\ requests' = requests \cup {Call(e)}
    /\ UNCHANGED <<table, effect, shown, error, failures>>

\* Mutant: the predecessor's timer is left to go off.
RerunKeepingTimer ==
    /\ effect < MaxEffects /\ FreeIds # {}
    /\ effect' = effect + 1
    /\ UNCHANGED timer
    /\ requests' = requests \cup {Call(effect + 1)}
    /\ UNCHANGED <<table, shown, error, failures>>

\* The effect is cleaned up, which aborts its request unless that is settled,
\* and run again.
Rerun ==
    LET aborted == {c \in Of(effect) : c.state \in {"sent", "read"}} IN
    /\ effect < MaxEffects /\ FreeIds # {}
    /\ effect' = effect + 1
    /\ timer' = timer \ {effect}
    /\ requests' = (requests \ aborted)
                   \cup {[c EXCEPT !.state = "rejected"] : c \in aborted}
                   \cup {Call(effect + 1)}
    /\ UNCHANGED <<table, shown, error, failures>>

Next ==
    \/ Change \/ Rerun
    \/ \E e \in Effects : Tick(e)
    \/ \E c \in requests : Read(c) \/ Resolve(c) \/ Reject(c) \/ Continue(c)

Spec == Init /\ [][Next]_vars

\* The browser's timers and callbacks run; the endpoint answers, in the end,
\* every request that is not given up.
FairSpec ==
    /\ Spec
    /\ \A e \in Effects : WF_vars(Tick(e))
    /\ \A c \in Calls :
          WF_vars(c \in requests /\ (Read(c) \/ Resolve(c) \/ Continue(c)))

-----------------------------------------------------------------------------

\* The page never goes back to older rows, whenever answers, timeouts and a
\* new run of the effect arrive relative to each other; rows once shown stay
\* when a poll fails.
RowsNeverGoBack == [][shown' >= shown]_vars

\* Nothing of a disposed effect goes on: after its request has settled it has
\* neither a timer nor a further request.
DisposedIsSilent ==
    \A e \in Effects : e < effect =>
        /\ e \notin timer
        /\ \A c \in Of(e) : c.state \in {"answered", "rejected"}

\* A change of the task table is shown in the end, without an error, after any
\* failures and reruns.
ChangesAreShown ==
    \A v \in 1..MaxVersions : table = v ~> shown >= v /\ ~error

=============================================================================
