# Verification of the Devin remediation service

The service watches GitHub issues labelled `devin-remediate`, starts one Devin
session per issue, follows the session until there is a pull request, and files
issues of its own from Semgrep findings. Several API replicas and Celery workers
do this at once. They share **one SQL row per issue** and nothing else: there are
no locks, no transactions longer than a statement or two, and every call to
GitHub, Devin or the broker may fail, be repeated or arrive late.

The modules here model that protocol from the code, TLC checks it on small
instances, and TLAPS proves its central promises for every size.

## 1. The system

| Part | Code | State it keeps | Operations | Modelled in |
|---|---|---|---|---|
| task store | `app/db.py`, `app/store.py` | the row of each issue: status, session, pull request, poll token, lease, `updated_at` | `upsert`, `claim_remediation`, `claim_poll`, `renew_poll`, `release_poll`, `get_unpolled_running`, `detach_closed_pr`, `reattach_closed_pr` | `TaskRow` |
| remediation | `app/remediation.py` | none but locals | `process_issue`, `scan_and_process`, `arm_poll`, `poll_session_once`, `continue_poll` | `Remediation` |
| tasks, broker | `app/tasks.py`, `app/orchestrator/*`, `app/celery_app.py` | queues; late acknowledgement; Beat | one task per operation above | `Remediation`, `Discovery` |
| webhooks | `app/webhooks.py` | none but locals | issue labelled or edited; pull request opened, closed | `Remediation`, `Deliveries` |
| GitHub and Devin clients | `app/github.py`, `app/devin.py` | on the remote side: issues, pull requests, sessions | listings, search of a pull request, create issue, comment; create and get a session | `Remediation`, `Discovery`, `Deliveries` |
| HTTP client | `app/http_client.py` | loop counter | `request` with retries | `HttpClient` |
| discovery, ingest API | `app/discovery/*`, `app/api/ingest.py` | none but locals; a checkout directory | `ingest_findings`, `update_checkout`, `run_semgrep`, `/ingest/semgrep`, `/scan` | `Discovery`, `Checkout` |
| read API, start-up | `app/api/read.py`, `app/main.py` | none | reads; the start-up scan | `GET /status` in `Dashboard`; start-up scan in `Remediation` |
| observability | `app/observability.py` | request id of the current context | logs, metrics, spans | no |
| dashboard | `frontend/` | the last status, a timer, a request | polling hook | `Dashboard` |
| deployment | `k8s/`, compose files | - | migration, then rollout | no |

**How they interact.** A scan (Beat, start-up, `POST /scan`) or a webhook only
*enqueues* `remediate_issue_task`. That task looks for an open pull request,
claims the row, creates a session, records it, and *arms* a poll: a random token
and a lease go into the row and a `poll_session_task` into the broker. Each poll
renews the lease and enqueues the next one, so polling is a *chain* of tasks that
pass one token on. A scan re-arms running rows whose lease was lost. The closed
event of a pull request detaches it from its row and enqueues a forced
remediation, and compensates when the broker refuses. Discovery updates
a checkout that all runs on its host share, scans it, lists what is already
filed, files the rest, and asks for a scan. The dashboard polls the rows.

**What is hard.**

- Each process is interruptible between any two statements, and two of the
  statements (`upsert`) are a read and a later write keyed by the issue alone,
  which no WHERE clause protects.
- Ownership is a lease: it can be lost to time as well as to another process.
- Publications and POSTs have a third outcome: they raise and happened anyway.
- A task is acknowledged after it ran; what dies with its worker process is gone,
  what dies with its host comes back and runs again.
- The row of a handler's compensation may have changed and changed back, and the
  delivery it belongs to has other issues to go on with.
- Runs of discovery meet in one directory, and a command that is killed leaves it
  as it was at that moment.

**What makes the parts correct.** Task store and remediation: one creator per
claim, one poll chain per token, tokens that a scan can take over, and recovery
from everything lost. Webhooks: one confirmed requeue per closed pull request, a
compensation that overwrites nothing, and no issue forgotten that a closed pull
request leaves behind. HTTP client: what is not idempotent happens
at most once, and retries hold the caller no longer than their cap allows. Discovery: each finding
filed once, and all of them in the end, from scans of one commit each. Dashboard:
never back to older rows, and no change unseen for good.

## 2. The modules

| Module | Contents |
|---|---|
| `TaskRow` | The row and the SQL statements, as operators from row to row; `upsert` as `NetChange` (what the ORM will write, computed from the row it read) and `Flushed` (the UPDATE). |
| `Remediation` | One issue and all processes that race over it, each cut at every statement, broker call and HTTP call. `Spec`, and `FairSpec` for liveness. |
| `RemediationHistory` | `Remediation` with history variables (who holds a claim; whose detached row was changed since; who detached the pull request recorded last, and how many retries followed) and the properties that need them. |
| `RequeueClaim` | A statement of a comment about requeues that the code does not keep, over `RemediationHistory` and one more history variable. |
| `PollOwnership` | The abstract specification of claiming and polling: who may take the lease, renew it, release it. No statements, no queues, no crashes. |
| `OwnershipRefinement` | The mapping under which `Remediation` implements `PollOwnership`. |
| `PollChains` | What poll chains promise, over `Remediation`. |
| `DocumentedClaims` | A statement of a comment that `Remediation` does not keep. |
| `HttpClient` | One call of `http_client.request` and the service it talks to. |
| `Discovery` | Runs of `ingest_findings` over the repository's issue list, read page by page. |
| `Deliveries` | Webhooks of pull requests that name several issues, with the issues' rows, the tasks that write them meanwhile, forced retries, and `find_existing_pr` over what the pull requests say. |
| `Checkout` | The checkout directory of a host and the discovery runs that share it. |
| `Dashboard` | The polling hook of the dashboard and the endpoint it polls. |
| `MC...` | Instances for TLC: model values, who opens pull requests, symmetries. |
| `RemediationProofs`, `ClaimProofs`, `OwnershipProofs` | Theorems about `Remediation`: types, claims and webhooks, polling (section 5). Each extends the one before. |
| `HttpClientProofs`, `DiscoveryProofs`, `DeliveriesProofs`, `CheckoutProofs`, `DashboardProofs` | Theorems about the modules they are named for (section 5). |

### Correspondence with the code

**`Remediation`.** A worker slot, an ingest-worker slot and a webhook delivery
are *processes*; `pc[p]` is the next statement or call, `local[p]` the Python
locals that survive it. `process_issue` is `ReceiveRemediation` (receipt and
first read), `FindPr`, then either `LoadCompleted`/`FlushCompleted` or `Claim`,
`CreateSession`, `LoadRecord`/`FlushRecord`, `Arm`, `PublishPoll`; its error path
is `LoadFailed`/`FlushFailed`/`ReleaseAll`. `poll_session_task` is `ReceivePoll`,
`AskDevin`, `LookupPr`, `LoadPolled`/`FlushPolled`, `RenewPoll` or `ReleaseOwn`,
`PublishPoll`. `scan_and_process` is `ScanIssues`, `GetUnpolled`, `Rearm`. The
pull-request webhook is `PullRequestOpened`/`FlushOpened` and
`PullRequestClosed`, `DetachClosedPr`, `Requeue`, `Reattach`. `Abort` is an
exception, a time limit or a lost worker process anywhere; `Redeliver` is a host
lost before acknowledgement; a failing broker call branches inside `PublishPoll`
and `Requeue`, a failing Devin call inside `CreateSession` and `AskDevin`.

A row's lease is kept as *none / live / expired*, which is all the WHERE clauses
compare. `updated_at` is kept as the handler whose detach wrote it last, or NULL
once anybody else has, which is its only use as a compensation token.

Queued polls are *counted* by argument, because a duplicated message matters;
queued remediations are a *set*, because a second equal message adds nothing that
a later scan does not. One issue suffices: no statement on these paths reads or
writes another issue's row.

**`HttpClient`.** A call's loop: `Send` ends an attempt with its answer and
whether the service carried it out; `Retry`/`Sleep` or `Finish` follow the code's
test; `Interrupted` is a time limit at any point. Jitter is every value up to the
backoff. The httpx timeouts bound one wait, for a connection to an address or for
the next bytes, and there is no deadline for a call: an attempt is any number of
waits (`Wait`, then `Send`), each of at most `Timeout`.

**`Discovery`.** `Start` is a task received or a body posted; `ListPage` one
request of the paged listing, each reading the list as it is by then;
what a page shows is what its places in the labelled list hold (`Place`);
`CreateIssue` one POST, which may fail with or without effect; `EnqueueScan`
follows only if something was created. Issues can be closed, reopened, lose
their label, and others than the service file labelled ones (`Foreign`).

**`PollOwnership`.** `open`, `owner` and `lease` are the columns of the row that
ownership is about; `entitled` are creators with a granted claim, `circulating`
the tokens some message or process still carries, `held` those a process is
acting under. A live lease changes hands in two ways only: an entitled creator
installs its token, once per claim, or drops whatever is there because it failed;
anybody else takes over a *lost* lease with a fresh token. A token that was
superseded is circulating at most, and neither renews nor releases. `Rewrite`, an
unconditional upsert, changes `open` and nothing else: that is the precise extent
of the damage `one_creator` exhibits.

**`Deliveries`.** A handler walks its issues (`todo`) through
`Complete`/`FlushCompleted`, or `Fetch`, `Detach`, `Publish` and `Reattach`; `Die`
cuts it anywhere, as an exception or as a lost API process. The closed event is in
`unanswered` until it is received, and again once it was answered with an error.
A worker's task is `Remediate`, `FindPr`, then `Claim` with `create_session`, then
`Load`/`Flush`; a poll is `StartPoll`, `Ask`, `Load`/`Flush`. Every upsert is thus a
read and a later commit, as in `Remediation`, and so is what a lookup found and
what is done with it. `Fail` is a task that raises or is lost. `FindExistingPr` is
the search itself, timeline first, then the substring match on the text. Whether an
issue is open and labelled is free at every look, because users may change it at
any time. Two handlers and any number of events may be under way at once.

**`Checkout`.** A slot's run is `Begin`, `Look`, then `FetchStart`/`FetchEnd` and
`ResetStart`/`ResetEnd`, or `LookDeeper`, `Remove` and `CloneStart`/`CloneEnd`, and
then `ScanStart`/`ScanEnd`. The directory is what the code and git look at: there
or not, `.git` missing, begun or whole, the commit of `origin/HEAD`, the commits
the files come from, the lock files. What git does is external: it locks,
cleans up after errors, and not after SIGKILL, which `subprocess.run` sends when
the soft time limit goes off. Whether a fetch completes a clone that was cut short
depends on its moment and on git's version, so both outcomes are possible.

**`Dashboard`.** A call of `fetchStatus` is sent, reads the table, and settles; the
code after its `await` is a later step (`Continue`), which is where it finds out
that its effect was disposed of. `Rerun` is the cleanup (abort, `clearTimeout`)
followed by the next run of the effect.

## 3. The runs

All bounds are constants of the `.cfg` files: `MaxFaults` (failed calls and lost
processes), `MaxRedeliveries`, and in `HttpClient` `MaxWaits`, in `Discovery` `MaxForeign`, `MaxUnlabelled`, in `Checkout` `MaxCommits`, in
`Dashboard` `MaxVersions`, `MaxEffects`, `MaxRequests`, `MaxFailures`.
No guard but theirs is added to the code's.

### Runs that pass

| Run | Instance | What it shows |
|---|---|---|
| `creators` | 2 workers, 2 sessions, a person's pull request, 1 fault; leases outlive creation | A granted claim stays exclusive until its owner has recorded the result, or an unconditional statement hits the row (`ClaimIsExclusive`); no token without session and lease (`TokenHasLease`); every step is a step of `PollOwnership` or a stutter (`ImplementsOwnership`); no step ends a chain and leaves the row waiting for it (`ChainNeverJustEnds`). Sessions do not end here: whether they do is a matter of polling, which the next runs cover. |
| `chains` | 1 worker, 1 scanner, 2 tokens, a person's pull request, 2 faults, 1 redelivery; leases expire at any time | A token has one chain, plus one copy per redelivery (`ChainDoesNotFork`), with lost and doubtful publications and premature re-arming; with expiring leases and scans, too, every step is one of `PollOwnership` (`ImplementsOwnership`), and a poll that leaves the session running schedules the next one unless a call fails (`ChainNeverJustEnds`). |
| `webhooks` | 2 handlers, 1 worker, 1 fault, Devin's own pull request | From the moment a pull request is recorded on the row until one is recorded anew, all deliveries of its closure together publish one confirmed retry at most (`NoDoubleRequeue`); a publication that raised is not counted, and `requeued_twice` counts it. The compensation never overwrites a row changed since, even one that looks the same again (`ReattachOnlyUntouched`). Polls keep their lease here (`LeaseOutlivesHop`): without a scanner nobody would look whether they do. |
| `recovery` | fair; 1 worker, 1 scanner, 2 faults, 1 redelivery | A session that ended is settled in the row, whatever was lost (`SessionIsSettled`); a stranded claim is taken over (`StrandedClaimIsRecovered`). |
| `http_client` | the code's defaults in half seconds: 4 attempts, waits of up to 30 s, 2 of them that do not end their attempt, backoff 0.5 s to 20 s; Retry-After of 5 s and of 20 min | Not idempotent: at most once, and not at all after a refusal (`AppliedAtMostOnce`). Backoffs and Retry-After headers add no more than the cap per retry to the waits the service made (`HeldOnlyWhileServed`). |
| `discovery` | fair; 1 run at a time, 2 findings, pages of 2, up to 2 foreign issues, cap of 1, a label taken off, 2 faults | Each finding is filed once while labels stay, over any number of runs, failing POSTs and a list that grows between pages (`FiledOnce`). Everything reported is filed in the end (`BacklogIsWorkedOff`). What a run files is scanned, unless a call failed (`FiledIsScanned`). |
| `deliveries` | 1 issue, a pull request whose text names it and may be edited not to, 2 handlers, 1 worker that remediates and polls, 1 fault | An issue the closed event hands back is queued, with a forced task or a handler, found by the event's redelivery, or left to a scan (`OwedIsOnItsWay`), when opened and closed deliveries, edits, tasks and polls interleave between the read and the commit of each other's upserts. Excepted, because the code does lose them: an issue held by a handler that dies; a failed one that could not be fetched; one whose forced task raises or is lost; one that an upsert leaves failed while a handler holds it, or makes failed or running again, or gives another pull request. |
| `checkout` | fair; 2 slots, 3 commits, 2 faults | A run nothing overlaps scans exactly one commit, no older than the head it started from, whatever overlaps and kills came before (`ScanIsOfOneHead`). Failures and meetings leave a directory the next run can use (`LeftUsable`), and scans go on (`ScansKeepComing`), unless a git command is killed or a checkout is removed under another run. |
| `dashboard` | fair; 3 versions of the table, 3 runs of the effect, 2 failures | The page never shows older rows than before (`RowsNeverGoBack`), a disposed run of the effect does nothing more (`DisposedIsSilent`), and changes are shown in the end (`ChangesAreShown`). |

Why the bounds are enough. The hazards need two rivals (two workers, two
handlers, a worker and a scanner) and a third actor only as the environment,
which is unbounded: pull requests open, close and reopen, leases expire, scans and
deliveries arrive any number of times. Two faults let a failure hit the recovery
from the first. A second session or token is there where a property tells
the new owner from the old one. Where one fault is all (`webhooks`,
`deliveries`), it can hit the publication whose compensation is in question; the
theorems have any number. Two issues would take `deliveries` beyond what TLC does in
minutes; the loop over several issues, some of which fail, is covered by the theorem
`NothingOwedIsForgotten`, for any number of them. Pages of two with two findings and two foreign issues make a listing of three
requests. The theorems lift the central results to every instance.

`http_client` sets `CHECK_DEADLOCK FALSE`: a call ends.

### Runs that end in a counterexample

Each checks a statement the repository makes about itself; `PROJECT.json` quotes
it and the line that breaks it.

| Run | Property | What happens |
|---|---|---|
| `one_creator` | `OneCreator` | A worker that saw an open pull request writes *completed* over a row another worker has just claimed, which makes it claimable again: two tasks inside `create_session`. |
| `requeued_twice` | `NeverRequeuedTwice` | A publication raises although the broker took the task; the compensation puts the association back, and the event delivered again detaches and requeues once more. |
| `mounted` | `ScansKeepComing` | The compose file mounts the volume at the checkout directory itself: it exists, has no `.git`, and cannot be removed, so `rmtree` raises in every run and nothing is ever cloned. The Kubernetes manifest mounts one level higher. |

Disagreements that runs of these models showed, recorded here without a run of
their own; first the ones of `Remediation` and `Deliveries`:

- A failing creation marks the row failed and then releases without a token
  (`remediation.py:150`); a forced retry in between loses its fresh lease, and a
  third task may claim at once. `README.md:277` says a claim is reclaimable only
  after its lease expires.
- A poll superseded while it asks Devin overwrites the status of its successor's
  row (`remediation.py:234`). `README.md:276` calls a stale poll a no-op. That it
  touches no ownership is part of `ImplementsOwnership`.
- The status is read before the GitHub lookup (`remediation.py:101`); an issue
  failed since is retried without force. `remediation.py:83` says it is skipped.
- A handler lost between detach and requeue leaves a *failed* row that every later
  scan skips (`store.py:250`). `remediation.py:80` says that a closed pull request
  has its issue re-queued on the next scan.
- An edit of the issue's title between a failed publication and its compensation
  changes `updated_at`, and the association is not put back although nothing
  replaced it (`store.py:270`, `webhooks.py:91-93`). `webhooks.py:116-119` says it
  is, "keeping the event replayable". Any upsert has that effect, one that read the
  row before the detach included (`store.py:51-65`): the issue stays failed,
  detached and unqueued.
- A forced task whose `find_existing_pr` raises is acknowledged and gone
  (`remediation.py:105`), and the row is failed and detached already: no scan
  retries it.
- The needle `#1` is searched as a substring (`github.py:80`), so the search for
  issue 1 finds a pull request that mentions `#12` only, and the issue is completed
  by it. `github.py:54` speaks of an open pull request that references this issue.
- A redelivered closed event whose `get_issue` fails is answered with 200 and the
  issue stays failed (`webhooks.py:126-128`).

And those of `HttpClient`, `Discovery` and `Checkout`:

- A service that answers little by little, each wait within its httpx timeout
  (`http_client.py:50-56`), keeps `create_session` beyond the 600 s of the creation
  lease; nothing else ends the call before the soft time limit of 900 s.
  `remediation.py:33` says the lease comfortably exceeds a round trip with retries.
- Two runs that list before either creates both file the finding
  (`ingest.py:33`); `FiledOnce` is checked for runs that do not overlap.
  `ingest.py:2` says *once each*.
- Two runs that overlap may scan the files of two commits at once, or of a
  directory being removed (`semgrep.py:96`); therefore the premise of
  `ScanIsOfOneHead`. A git command killed by the soft time limit leaves a lock or a
  partial `.git` that every later run fails on.
- The fallback fingerprint is computed from the absolute path, before the prefix
  is stripped (`semgrep.py:165`), and from a bucket of ten lines: a finding pushed
  as SARIF, or shifted from line 19 to 20, is filed again. `README.md:190` says a
  shift of a few lines does not matter.
- A label taken off while the list is paged (`github.py:155`) moves an issue to
  the page already read, and its finding is filed again; `FiledOnce` therefore
  has the premise that labels stay. `ingest.py:5` calls a re-run a no-op.
- A failing `create_issue` ends the run before its scan (`tasks.py:37`), and the
  next run reports nothing new, so the issues filed wait for the periodic scan;
  `FiledIsScanned` has the premise that nothing failed. `tasks.py:31` promises an
  immediate scan.
- The listing includes closed issues (`github.py:143`), so a finding whose issue
  was closed is never filed again; the service's `README.md:190` says open ones.

The instances of the violating runs give the code the benefit of the doubt: no
faults, and leases that outlive what they cover, except where the failure of a
publication is what the statement is about (`requeued_twice`).

## 4. Assumptions and fairness

*Assumed of the environment.* `LeaseOutlivesCreate`: a creation lease is not lost
while its owner is between claim and record. This is an assumption about Devin and
the database, and the code does not enforce it: the HTTP timeouts bound each wait of
a call and not the call (section 3), and the soft time limit of 900 s is longer
than the lease of 600 s. What the client itself adds is bounded
(`CallEndsWithItsService`). `LeaseOutlivesHop`: a scheduled poll runs within its
lease, which the code sizes as the poll's delay plus a grace period. `chains`
assumes neither, `webhooks` only the second. Tokens are fresh when drawn:
`secrets.token_hex`; a token nobody holds may be reused, which keeps the instance
finite.

*Fairness.* Workers and scanners go on with what they started (WF): Celery's time
limits end a task that hangs. Webhook handlers, which run in the API process under no
limit, are not assumed to. A queued message is
received in the end (SF): the broker serves in order, and other messages may come
first again and again. Beat scans forever (WF on `ScanIssues(i, FALSE)`) and
leases run out (WF on `ExpireLease`). A discovery task is started in the end (SF).
In
`Checkout`, Beat starts runs forever and a run's commands end (WF on `Begin` and
`Step`: the time limits see to it). In `Dashboard`, the browser runs timers and
callbacks, and the endpoint answers a request that is not given up (WF).
Nothing is assumed of GitHub, Devin, users or failures; in particular `Deliveries`
has no fairness, as GitHub redelivers only on demand. Faults are finite in
number, so a liveness result reads: once failures stop, recovery happens.

## 5. What is proved

| Theorem | Statement | Argument |
|---|---|---|
| `TypeCorrect` (RemediationProofs) | `Spec => []TypeOK` | One lemma per group of actions; the types of the row statements are lemmas of their own. |
| `ClaimExclusive` (ClaimProofs) | `HSpec => []ClaimIsExclusive` | Below. |
| `TokenAlwaysHasLease` (ClaimProofs) | `Spec => []TokenHasLease` | Conditional statements keep the three columns together; the blind ones do because of `LocalInv`: a prepared write never clears a session. |
| `ReattachIsSafe` (ClaimProofs) | `HSpec => ReattachOnlyUntouched` | `StampIsFresh`: a row that still carries a handler's stamp has not been changed since its detach, because every write of a compared column clears or replaces the stamp. |
| `RequeuedOnce` (ClaimProofs) | `HSpec => []NoDoubleRequeue` | Below. |
| `OwnershipImplemented` (OwnershipProofs) | `Spec => ImplementsOwnership` | The refinement, below. |
| `ChainsDoNotFork` (OwnershipProofs) | `Spec => []ChainDoesNotFork` | Below. |
| `ChainsNeverJustEnd` (OwnershipProofs) | `Spec => ChainNeverJustEnds` | An action property: every step but a fault that takes the row's last message or carrier puts another in its place, or gives the row up. |
| `HttpTypeCorrect`, `NeverAppliedTwice`, `CallEndsWithItsService` (HttpClientProofs) | `Spec => []TypeOK`, `[]AppliedAtMostOnce`, `[]HeldOnlyWhileServed` | `Ledger` = `TypeOK` and `Carried` (how often the request may have been carried out, at each control point) and `Spent` (the time so far is at most what the waits and the sleeps so far may take, `Waited` and `Slept`). |
| `DiscoveryTypeCorrect`, `FiledAreScanned` (DiscoveryProofs) | `Spec => []TypeOK`, `[]FiledIsScanned` | `ScanInv`: unless something failed, what waits for a scan has a run that *has filed something* or is about to ask (`Asks`); that a run is filing is not enough. |
| `FiledAtMostOnce` (DiscoveryProofs) | `Spec /\ []NoOverlap => []FiledOnce` | Below. |
| `DeliveriesTypeCorrect`, `NothingOwedIsForgotten` (DeliveriesProofs) | `Spec => []TypeOK`, `[]OwedIsOnItsWay` | Below. |
| `CheckoutTypeCorrect`, `LoneScanIsOfOneHead`, `AlwaysLeftUsable` (CheckoutProofs) | `Spec => []TypeOK`, `[]ScanIsOfOneHead`, `[]LeftUsable` | Below. |
| `DashboardTypeCorrect`, `DisposedFallsSilent`, `RowsOnlyAdvance` (DashboardProofs) | `Spec => []TypeOK`, `[]DisposedIsSilent`, `RowsNeverGoBack` | Below. |

**Claims.** `ClaimExclusive` needs three strengthenings, since `ClaimIsExclusive`
alone does not know what the other processes are about to write:

1. `LocalInv`: what each process carries at each control point (a process about
   to arm knows a session; a process that is not in a flush has no write).
2. `SessionsOwned`: a session in one process's hands, not yet in the row, is in
   nobody else's, so nobody can arm a poll on the row of a creator.
3. `ClaimHeld`: while a claim is held, the row is running, leased and tokenless,
   and it has the session only from the creator's own record on.

A step of another process is then either one that only reads, or a conditional
statement whose condition `ClaimHeld` makes false, or a blind write, which ends
the history variable's claim by definition; a blind write is what `one_creator`
exhibits. The theorem thus says exactly how far `claim_remediation` protects.

**One retry.** `OneRetry` counts from the moment a pull request is recorded on the
row. One handler at a time has detached it and is not finished; once a retry is
published without an exception there is none; and as long as either holds the row
shows no pull request, so that no other delivery can detach one. Only a
compensation could put the old one back, and it finds the row only if it bears its
handler's stamp: that handler is then the one detacher (by `StampKept`, which
`ReattachIsSafe` rests on as well), and it has published nothing that was confirmed.
That a handler before its detach knows a pull request is part of `LocalInv`.

**The refinement.** Initial states map to initial states (`RefInit`), and each
step maps to a step of `PollOwnership` or a stutter (`RefStep`), with one lemma
per group of actions that names the abstract step they take: `ClaimSteps`,
`ArmSteps`, `RearmSteps`, `ReleaseStep`, `RenewSteps`, and so on. The invariant
underneath (`RefInv`) is `TypeOK`, `LocalInv`, `TokenHasLease` and
`TokensPlaced`: a process carries a token only where the code has one in a local,
and one that polls has a poll as its task. What is delicate is that the mapped
sets shrink as messages are consumed and locals are dropped; `TokenLeft`,
`TokenSent` and `TokenTaken` say which tokens circulate afterwards.

**Chains.** `ChainDoesNotFork` compares a number of queued messages and of
carrying processes with a number of redeliveries. It becomes inductive once the
counted sets are known to be finite (`ChainInv`): a grant starts a chain whose
token is nowhere else, and each later step moves, drops or redelivers one
position. The queue is counted as a set of copies, so cardinalities of finite
sets suffice and no induction over a sum is needed.

`ChainNeverJustEnds` took the place of a state invariant, that a row with a live
lease has a chain as long as nothing failed. The attempt to prove it showed that
it does not hold: with two workers, two sessions and a closed pull request, and no
failure at all, a poll that was superseded may overwrite the *failed* status of a
row whose new chain has been given up already (`remediation.py:234`), and then the
row is running with a lease and nothing behind it until a scan finds the lease
expired. The promise of the code is about its own steps: a poll that leaves the
session running schedules the next one.

**Filing once.** While labels stay, issues only move down the list. `Informed`
says what a run knows that overlaps with no other: while it lists, every issue
with one of its fingerprints that it has not found is further down than the pages
it has read; from then on, none of its remaining findings has an issue, and no two
of them are the same. The end of the last page is the end of the list, so the
first gives the second. The premise `NoOverlap` is over states, so any number of
slots and API threads may take turns. It cannot be left out (section 3).

**Deliveries.** `OwedInv` follows an owed issue from hand to hand (`OnItsWay`):
queued, with a forced task that has not decided yet (`Working`), on the list of a
handler that has not come to it (`ToCome`), held by the handler that detached it
with the handler's own stamp (`InHand`), named by an event that is delivered again,
or completed. The stamp is needed: without it a handler's compensation might find a
row that is no longer its own, and the issue would be in nobody's hands. That upserts
read and write at different times is what makes the induction long: a commit either
completes the issue, or leaves its row as it found it with nobody holding it, or is
one of the exceptions (`CommitOne`), whatever it has read.

**Checkout.** What a run knows before each call, if nothing has overlapped it, is
`Knows`: nothing at all before the fetch, whatever earlier runs left; then that
`origin/HEAD` is between the head it began with and the present one, then the
files too. `InWork` says that what is unfinished is being worked on: a clone cut
short belongs to a clone under way, each lock to its command, and a reset works on
a whole clone. A kill or the removal of a checkout in use breaks it, and `hurt`
remembers that; nothing else does, for any number of slots.

**Dashboard.** Rows advance because what a request of the live effect has read is
not older than what is shown (`Recent`), and that is inductive because an effect
never has two requests (`OneEach`), and because a disposed one has nothing that
goes on (`Present`).

The theorems hold for any sets of processes, sessions, tokens, pull requests,
issues, slots, findings and reports and for any bounds, under the assumptions of
the modules on their constants, which TLC evaluates in the runs.

*Model-checked only.* Liveness (`SessionIsSettled`, `StrandedClaimIsRecovered`,
`BacklogIsWorkedOff`, `ScansKeepComing`, `ChangesAreShown`): the prover has no
reasoning about fairness. Every invariant and action property of the passing
runs is a theorem. `Deliveries` bounds nothing but failures, `HttpClient` the waits
of a call as well (`MaxWaits`); the theorems hold for every bound.

## 6. What is not modelled

- Titles, URLs and the text of comments and prompts: no decision depends on them.
- Issues that are closed or unlabelled, in `Remediation`: its issue stays open and
  labelled, as the tests before `claim` and before `detach` establish.
  `Deliveries` lets them change.
- More than one page of pull requests or timeline events: `find_existing_pr` reads
  the first hundred only, and nothing is promised beyond them.
- Semgrep itself, and how SARIF becomes findings with fingerprints; failures of a
  local reset, such as a full disk.
- The scan and discovery queues: a scan or a run may start at any time, which
  includes every order the queues allow.
- Signatures, authentication and size limits; reads and probes other than
  `GET /status`; logs, metrics, traces and the request id they carry; rendering, and
  the older page of `templates/index.html`, which polls at an interval.
- Registration of webhooks, migrations and the release recipe: scripts that an
  operator runs once.

## 7. Plan

Modelled: everything of section 1 but what section 6 names. Proved: every safety
property of the passing runs. To come, in this order:

1. `Deliveries` and `Remediation` share the statements of `TaskRow`, but nothing
   relates their runs: that a handler of `Deliveries` restricted to one issue takes
   only the steps `Remediation` allows.
2. An abstract specification of filing (a finding is unfiled, filed, scanned), and
   `Discovery` shown to implement it.
3. The safety halves of the liveness results: that a row that waits for a scan
   stays visible to `get_unpolled_running` until one takes it.
