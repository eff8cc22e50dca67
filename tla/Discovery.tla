----------------------------- MODULE Discovery -----------------------------
(***************************************************************************)
(* Filing findings as issues: discovery_task and POST /ingest/semgrep, the *)
(* two callers of ingest_findings, and the labelled issues they list and   *)
(* extend on GitHub.  There is no row and no lock here: the issue list is  *)
(* read page by page, and only then is the first issue created.            *)
(***************************************************************************)
EXTENDS Integers, Sequences, FiniteSets, FiniteSetsExt, Functions

CONSTANTS
    Runners,        \* ingest-worker slots and API threads that may ingest
    Fingerprints,   \* of findings
    Reports,        \* what a run of semgrep, or a SARIF body, may contain
    PageSize,       \* per_page
    MaxNew,         \* SEMGREP_MAX_FINDINGS, 0: no cap
    MaxUnlabelled,  \* bound on issues somebody takes the label off
    MaxForeign,     \* bound on labelled issues and PRs nobody ingested
    MaxFaults,      \* bound on failed calls and lost runs
    NULL            \* no marker in the body

ASSUME DiscoveryParameters ==
    /\ Reports \subseteq Seq(Fingerprints)
    /\ NULL \notin Fingerprints
    /\ PageSize \in Nat \ {0}
    /\ MaxNew \in Nat
    /\ MaxUnlabelled \in Nat /\ MaxForeign \in Nat /\ MaxFaults \in Nat

VARIABLES
    issues,     \* the repository's issues, newest first
    pc,         \* next call of each runner
    run,        \* local variables of ingest_findings
    unscanned,  \* issues filed since a scan was last enqueued
    faults

vars == <<issues, pc, run, unscanned, faults>>

Issues == [mark : Fingerprints \cup {NULL}, open : BOOLEAN, labelled : BOOLEAN]

Runs == [report   : Reports \cup {<<>>},
         dryRun   : BOOLEAN,
         page     : Nat \ {0},
         existing : SUBSET Fingerprints,
         todo     : SUBSET Nat,
         created  : SUBSET Fingerprints]

NoRun == [report |-> <<>>, dryRun |-> FALSE, page |-> 1, existing |-> {},
          todo |-> {}, created |-> {}]

\* Only fingerprints of its own report count as existing for a run, and it
\* only files positions of that report.
TypeOK ==
    /\ issues \in Seq(Issues)
    /\ pc \in [Runners -> {"idle", "list", "file", "enqueue"}]
    /\ run \in [Runners -> Runs]
    /\ unscanned \subseteq Fingerprints
    /\ faults \in 0..MaxFaults
    /\ \A p \in Runners :
          /\ run[p].existing \subseteq Range(run[p].report)
          /\ run[p].todo \subseteq DOMAIN run[p].report

Init ==
    /\ issues = <<>>
    /\ pc = [p \in Runners |-> "idle"]
    /\ run = [p \in Runners |-> NoRun]
    /\ unscanned = {}
    /\ faults = 0

Filed(f) == {k \in DOMAIN issues : issues[k].mark = f}

NewIssue(mark) == <<[mark |-> mark, open |-> TRUE, labelled |-> TRUE]>> \o issues

Fault == faults < MaxFaults /\ faults' = faults + 1

Leave(p) ==
    /\ pc' = [pc EXCEPT ![p] = "idle"]
    /\ run' = [run EXCEPT ![p] = NoRun]

\* Mutant: the cap counts the findings looked at, not the new ones.
SelectCapFirst(report, existing) ==
    {k \in DOMAIN report :
        /\ report[k] \notin existing
        /\ \A j \in 1..(k - 1) : report[j] # report[k]
        /\ MaxNew = 0 \/ k <= MaxNew}

\* The loop over the findings: the positions it files, in their order.
Select(report, existing) ==
    LET new == {k \in DOMAIN report :
                   /\ report[k] \notin existing
                   /\ \A j \in 1..(k - 1) : report[j] # report[k]}
    IN  {k \in new : MaxNew = 0 \/ Cardinality({j \in new : j < k}) < MaxNew}

\* A task taken from the queue (also again, after its worker died), or a
\* SARIF body posted.  Without a fingerprint to look for nothing is listed.
Start(p, report, dryRun) ==
    /\ pc[p] = "idle"
    /\ pc' = [pc EXCEPT ![p] = IF report = <<>> THEN "idle" ELSE "list"]
    /\ run' = IF report = <<>> THEN run
              ELSE [run EXCEPT ![p] = [NoRun EXCEPT !.report = report,
                                                    !.dryRun = dryRun]]
    /\ UNCHANGED <<issues, unscanned, faults>>

\* Mutant: only open issues are listed.
ListedOpenOnly == {j \in DOMAIN issues : issues[j].labelled /\ issues[j].open}

Listed == {j \in DOMAIN issues : issues[j].labelled}

\* The place of an issue in the list.
Place(j) == Cardinality({i \in Listed : i <= j})

Page(k) ==
    {issues[j] : j \in {j \in Listed : /\ (k - 1) * PageSize < Place(j)
                                      /\ Place(j) <= k * PageSize}}

LastPage(k) == Cardinality(Listed) < k * PageSize

\* Mutant: every marker found counts, and so does none.
FoundAnything(report, page) == {i.mark : i \in page}

Found(report, page) == {i.mark : i \in page} \cap Range(report)

ListPage(p) ==
    LET r        == run[p]
        existing == r.existing \cup Found(r.report, Page(r.page))
    IN  /\ pc[p] = "list"
        /\ IF LastPage(r.page)
           THEN /\ pc' = [pc EXCEPT ![p] = IF r.dryRun THEN "idle" ELSE "file"]
                /\ run' = [run EXCEPT ![p] =
                      IF r.dryRun THEN NoRun
                      ELSE [r EXCEPT !.existing = existing,
                                     !.todo = Select(r.report, existing)]]
           ELSE /\ pc' = pc
                /\ run' = [run EXCEPT ![p] = [r EXCEPT !.existing = existing,
                                                       !.page = @ + 1]]
        /\ UNCHANGED <<issues, unscanned, faults>>

\* create_issue is a POST: its failure may leave an issue behind, and ends
\* the run at once.
CreateIssue(p) ==
    LET k == Min(run[p].todo)
        f == run[p].report[k]
    IN  /\ pc[p] = "file" /\ run[p].todo # {}
        /\ \/ /\ issues' = NewIssue(f)
              /\ unscanned' = unscanned \cup {f}
              /\ run' = [run EXCEPT ![p].todo = @ \ {k}, ![p].created = @ \cup {f}]
              /\ UNCHANGED <<pc, faults>>
           \/ /\ \/ issues' = NewIssue(f) /\ unscanned' = unscanned \cup {f}
                 \/ UNCHANGED <<issues, unscanned>>
              /\ Leave(p)
              /\ Fault

\* Mutant: only a run that files its whole report asks for a scan.
FinishComplete(p) ==
    /\ pc[p] = "file" /\ run[p].todo = {}
    /\ IF run[p].created # Range(run[p].report)
       THEN Leave(p)
       ELSE pc' = [pc EXCEPT ![p] = "enqueue"] /\ UNCHANGED run
    /\ UNCHANGED <<issues, unscanned, faults>>

Finish(p) ==
    /\ pc[p] = "file" /\ run[p].todo = {}
    /\ IF run[p].created = {}
       THEN Leave(p)
       ELSE pc' = [pc EXCEPT ![p] = "enqueue"] /\ UNCHANGED run
    /\ UNCHANGED <<issues, unscanned, faults>>

EnqueueScan(p) ==
    /\ pc[p] = "enqueue"
    /\ unscanned' = {}
    /\ Leave(p)
    /\ UNCHANGED <<issues, faults>>

\* A listing that fails, a publication that fails, a time limit, a crash.
Abort(p) ==
    /\ pc[p] # "idle"
    /\ Leave(p)
    /\ Fault
    /\ UNCHANGED <<issues, unscanned>>

\* Beat's reconciliation scan.
PeriodicScan ==
    /\ unscanned' = {}
    /\ UNCHANGED <<issues, pc, run, faults>>

Foreign ==
    /\ Cardinality(Filed(NULL)) < MaxForeign
    /\ issues' = NewIssue(NULL)
    /\ UNCHANGED <<pc, run, unscanned, faults>>

SetOpen(k, open) ==
    /\ issues[k].open # open
    /\ issues' = [issues EXCEPT ![k].open = open]
    /\ UNCHANGED <<pc, run, unscanned, faults>>

Unlabel(k) ==
    /\ issues[k].labelled
    /\ Cardinality({j \in DOMAIN issues : ~issues[j].labelled}) < MaxUnlabelled
    /\ issues' = [issues EXCEPT ![k].labelled = FALSE]
    /\ UNCHANGED <<pc, run, unscanned, faults>>

RunnerStep(p) == ListPage(p) \/ CreateIssue(p) \/ Finish(p) \/ EnqueueScan(p)

Next ==
    \/ \E p \in Runners :
        \/ \E report \in Reports, dryRun \in BOOLEAN : Start(p, report, dryRun)
        \/ RunnerStep(p)
        \/ Abort(p)
    \/ \E k \in DOMAIN issues :
        \/ \E open \in BOOLEAN : SetOpen(k, open)
        \/ Unlabel(k)
    \/ Foreign
    \/ PeriodicScan

Spec == Init /\ [][Next]_vars

\* Beat queues a discovery_task every SEMGREP_SCAN_INTERVAL_MINUTES and a
\* scan every SCAN_INTERVAL_MINUTES; other runs may be ahead of it in the
\* queue, hence SF.  A started run goes on.
Fairness ==
    /\ \A p \in Runners :
        /\ \A report \in Reports : SF_vars(Start(p, report, FALSE))
        /\ WF_vars(RunnerStep(p))
    /\ WF_vars(PeriodicScan)

FairSpec == Spec /\ Fairness

-----------------------------------------------------------------------------

\* One issue per finding: as long as runs do not overlap and labels stay,
\* crashes, runs repeated after a half-done one, doubtful POSTs, issues closed
\* in triage and a list that grows while it is paged never file one twice.
FiledOnce ==
    (\A k \in DOMAIN issues : issues[k].labelled)
        => \A f \in Fingerprints : Cardinality(Filed(f)) <= 1

\* Every finding that semgrep keeps reporting is filed in the end, however
\* small the cap and whatever fails on the way.
BacklogIsWorkedOff ==
    \A f \in Fingerprints :
        (\A report \in Reports \ {<<>>} : f \in Range(report)) => <>(Filed(f) # {})

\* A run sees to the scan of what it files: unless a call failed or a run was
\* lost, no issue waits for the periodic scan, also not those of a run that
\* had to stop at the cap or started before another one's scan.
FiledIsScanned ==
    unscanned # {} /\ faults = 0 => \E p \in Runners : pc[p] \in {"file", "enqueue"}

=============================================================================
