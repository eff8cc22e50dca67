-------------------------- MODULE DiscoveryProofs --------------------------
(***************************************************************************)
(* Discovery files a finding once as long as its runs do not overlap, and  *)
(* sees to the scan of what it files however they do: for every number of  *)
(* runners, findings, reports and failures, every page size and every cap. *)
(*                                                                         *)
(* A listing may be behind the list it reads, but only by issues that are  *)
(* further up: what a run has not found is further down than the pages it  *)
(* has read (Informed), since new issues come first and none leaves the    *)
(* list while labels stay.  What waits for a scan has a run that will ask  *)
(* for one (Asks).                                                         *)
(***************************************************************************)
EXTENDS Discovery, FiniteSetTheorems, SequenceTheorems, WellFoundedInduction, TLAPS

Less == {m \in Nat \X Nat : m[1] < m[2]}

LEMMA MinIsIn ==
    ASSUME NEW S \in SUBSET Nat, S # {}
    PROVE  Min(S) \in S
<1>1. IsWellFoundedOn(Less, Nat)
  BY NatLessThanWellFounded DEF OpToRel, Less
<1>2. PICK n \in S : \A k \in S : <<k, n>> \notin Less
  BY <1>1, WFMin
<1>3. ASSUME NEW k \in S PROVE n <= k
  <2>1. <<k, n>> \in Less <=> k < n
    BY DEF Less
  <2>. QED
    BY <1>2, <2>1
<1>. QED
  BY <1>3 DEF Min

(***************************************************************************)
(* The list of issues.                                                     *)
(***************************************************************************)
\* A new issue comes first, and the others move down by one.
LEMMA NewIssueIsFirst ==
    ASSUME issues \in Seq(Issues), NEW mark \in Fingerprints \cup {NULL},
           issues' = NewIssue(mark)
    PROVE  /\ issues' \in Seq(Issues)
           /\ \A j \in DOMAIN issues' :
                 \/ j = 1 /\ issues'[j].mark = mark /\ issues'[j].labelled
                 \/ j - 1 \in DOMAIN issues /\ issues'[j] = issues[j - 1]
           /\ \A j \in DOMAIN issues : j + 1 \in DOMAIN issues' /\ issues'[j + 1] = issues[j]
<1>. DEFINE new == [mark |-> mark, open |-> TRUE, labelled |-> TRUE]
<1>1. new \in Issues /\ new.mark = mark /\ new.labelled
  BY DEF Issues
<1>2. issues' = <<new>> \o issues
  BY DEF NewIssue
<1>. HIDE DEF new
<1>3. <<new>> \in Seq(Issues) /\ Len(<<new>>) = 1 /\ <<new>>[1] = new
  BY <1>1
<1>4. /\ issues' \in Seq(Issues) /\ Len(issues') = Len(issues) + 1
      /\ \A i \in 1 .. 1 + Len(issues) :
            issues'[i] = IF i <= 1 THEN <<new>>[i] ELSE issues[i - 1]
  BY <1>2, <1>3, ConcatProperties
<1>5. DOMAIN issues = 1..Len(issues) /\ DOMAIN issues' = 1..Len(issues') /\ Len(issues) \in Nat
  BY <1>4
<1>. QED
  BY <1>1, <1>3, <1>4, <1>5

\* An issue that is closed, opened again or unlabelled stays where it is.
LEMMA IssueKeepsPlace ==
    ASSUME issues \in Seq(Issues), NEW k \in DOMAIN issues,
           SetOpen(k, TRUE) \/ SetOpen(k, FALSE) \/ Unlabel(k)
    PROVE  /\ issues' \in Seq(Issues) /\ DOMAIN issues' = DOMAIN issues
           /\ \A j \in DOMAIN issues : issues'[j].mark = issues[j].mark
           /\ \A j \in DOMAIN issues : issues'[j].labelled => issues[j].labelled
           /\ UNCHANGED <<pc, run, unscanned, faults>>
<1>1. \A j \in DOMAIN issues : issues[j] \in Issues
  OBVIOUS
<1>2. PICK i \in Issues : /\ issues' = [issues EXCEPT ![k] = i]
                          /\ i.mark = issues[k].mark
                          /\ i.labelled => issues[k].labelled
  <2>1. CASE SetOpen(k, TRUE)
    <3>. DEFINE i == [issues[k] EXCEPT !.open = TRUE]
    <3>1. issues' = [issues EXCEPT ![k] = i]
      BY <2>1 DEF SetOpen
    <3>2. i \in Issues /\ i.mark = issues[k].mark /\ (i.labelled => issues[k].labelled)
      BY <1>1 DEF Issues
    <3>. HIDE DEF i
    <3>. QED
      BY <3>1, <3>2
  <2>2. CASE SetOpen(k, FALSE)
    <3>. DEFINE i == [issues[k] EXCEPT !.open = FALSE]
    <3>1. issues' = [issues EXCEPT ![k] = i]
      BY <2>2 DEF SetOpen
    <3>2. i \in Issues /\ i.mark = issues[k].mark /\ (i.labelled => issues[k].labelled)
      BY <1>1 DEF Issues
    <3>. HIDE DEF i
    <3>. QED
      BY <3>1, <3>2
  <2>3. CASE Unlabel(k)
    <3>. DEFINE i == [issues[k] EXCEPT !.labelled = FALSE]
    <3>1. issues' = [issues EXCEPT ![k] = i]
      BY <2>3 DEF Unlabel
    <3>2. i \in Issues /\ i.mark = issues[k].mark /\ (i.labelled => issues[k].labelled)
      BY <1>1 DEF Issues
    <3>. HIDE DEF i
    <3>. QED
      BY <3>1, <3>2
  <2>. QED
    BY <2>1, <2>2, <2>3
<1>3. issues' \in Seq(Issues) /\ DOMAIN issues' = DOMAIN issues
  BY <1>2
<1>. QED
  BY <1>1, <1>2, <1>3 DEF SetOpen, Unlabel

(***************************************************************************)
(* Types.                                                                  *)
(***************************************************************************)
LEMMA RunType ==
    ASSUME TypeOK, NEW p \in Runners
    PROVE  /\ run[p] \in Runs
           /\ run[p].report \in Reports \cup {<<>>} /\ run[p].report \in Seq(Fingerprints)
           /\ run[p].page \in Nat \ {0}
           /\ run[p].existing \subseteq Range(run[p].report)
           /\ run[p].todo \in SUBSET Nat /\ run[p].todo \subseteq DOMAIN run[p].report
           /\ run[p].created \subseteq Fingerprints
           /\ Range(run[p].report) \subseteq Fingerprints
           /\ \A k \in run[p].todo : run[p].report[k] \in Fingerprints
<1>1. run[p] \in Runs
  BY DEF TypeOK
<1>2. run[p].report \in Reports \cup {<<>>} /\ run[p].page \in Nat \ {0}
      /\ run[p].todo \in SUBSET Nat /\ run[p].created \subseteq Fingerprints
  BY <1>1 DEF Runs
<1>3. run[p].report \in Seq(Fingerprints)
  <2>1. <<>> \in Seq(Fingerprints)
    BY EmptySeq
  <2>2. CASE run[p].report \in Reports
    BY <2>2, DiscoveryParameters
  <2>. QED
    BY <1>2, <2>1, <2>2
<1>4. /\ Range(run[p].report) \subseteq Fingerprints
      /\ \A k \in DOMAIN run[p].report : run[p].report[k] \in Fingerprints
  BY <1>3 DEF Range
<1>. QED
  BY <1>1, <1>2, <1>3, <1>4 DEF TypeOK

LEMMA NoRunType ==
    /\ NoRun \in Runs /\ NoRun.existing = {} /\ NoRun.todo = {} /\ NoRun.created = {}
    /\ NoRun.page = 1 /\ NoRun.report = <<>>
BY DEF NoRun, Runs

\* A runner that goes on with a run of the same kind.
LEMMA RunnerTypes ==
    ASSUME TypeOK, NEW p \in Runners, NEW r \in Runs,
           NEW at \in {"idle", "list", "file", "enqueue"},
           r.existing \subseteq Range(r.report), r.todo \subseteq DOMAIN r.report,
           pc' = [pc EXCEPT ![p] = at], run' = [run EXCEPT ![p] = r],
           issues' \in Seq(Issues), unscanned' \subseteq Fingerprints,
           faults' \in 0..MaxFaults
    PROVE  TypeOK'
<1>1. pc' \in [Runners -> {"idle", "list", "file", "enqueue"}] /\ run' \in [Runners -> Runs]
  BY DEF TypeOK
<1>2. run'[p] = r /\ \A q \in Runners \ {p} : run'[q] = run[q]
  BY DEF TypeOK
<1>3. \A q \in Runners : /\ run'[q].existing \subseteq Range(run'[q].report)
                         /\ run'[q].todo \subseteq DOMAIN run'[q].report
  BY <1>2 DEF TypeOK
<1>. QED
  BY <1>1, <1>3 DEF TypeOK

LEMMA FaultCounts == ASSUME TypeOK, Fault PROVE faults' \in 0..MaxFaults /\ faults' # 0
BY DiscoveryParameters DEF TypeOK, Fault

LEMMA StartTypes ==
    ASSUME TypeOK, NEW p \in Runners, NEW report \in Reports, NEW dryRun \in BOOLEAN,
           Start(p, report, dryRun)
    PROVE  TypeOK'
<1>1. CASE report = <<>>
  <2>1. UNCHANGED vars
    BY <1>1 DEF Start, TypeOK, vars
  <2>. QED
    BY <2>1 DEF TypeOK, vars
<1>2. CASE report # <<>>
  <2>. DEFINE r == [NoRun EXCEPT !.report = report, !.dryRun = dryRun]
  <2>1. r \in Runs /\ r.existing = {} /\ r.todo = {}
    BY NoRunType DEF Runs
  <2>2. run' = [run EXCEPT ![p] = r] /\ pc' = [pc EXCEPT ![p] = "list"]
    BY <1>2 DEF Start
  <2>. HIDE DEF r
  <2>3. issues' \in Seq(Issues) /\ unscanned' \subseteq Fingerprints /\ faults' \in 0..MaxFaults
    BY DEF Start, TypeOK
  <2>. QED
    BY <2>1, <2>2, <2>3, RunnerTypes
<1>. QED
  BY <1>1, <1>2

LEMMA LeaveTypes ==
    ASSUME TypeOK, NEW p \in Runners, Leave(p),
           issues' \in Seq(Issues), unscanned' \subseteq Fingerprints,
           faults' \in 0..MaxFaults
    PROVE  TypeOK'
BY NoRunType, RunnerTypes DEF Leave

\* What a page that is read leaves: no run, or one that goes on to its findings,
\* or to the next page.
Lists(p, at, s) ==
    LET r        == run[p]
        existing == r.existing \cup Found(r.report, Page(r.page))
    IN  /\ pc[p] = "list" /\ pc' = [pc EXCEPT ![p] = at] /\ run' = [run EXCEPT ![p] = s]
        /\ UNCHANGED <<issues, unscanned, faults>>
        /\ \/ at = "idle" /\ s = NoRun
           \/ /\ s.report = r.report /\ s.existing = existing
              /\ \/ /\ at = "file" /\ LastPage(r.page)
                    /\ s.todo = Select(r.report, existing)
                 \/ /\ at = "list" /\ s.page = r.page + 1
                    /\ s.todo = r.todo

LEMMA ListedRun ==
    ASSUME TypeOK, NEW p \in Runners, ListPage(p)
    PROVE  \E at \in {"idle", "list", "file"}, s \in Runs : Lists(p, at, s)
<1>. DEFINE r        == run[p]
            existing == r.existing \cup Found(r.report, Page(r.page))
            todo     == Select(r.report, existing)
            last     == [r EXCEPT !.existing = existing, !.todo = todo]
            next     == [r EXCEPT !.existing = existing, !.page = @ + 1]
<1>1. existing \subseteq Fingerprints
  BY RunType DEF Found
<1>2. todo \in SUBSET Nat
  <2>1. todo \subseteq DOMAIN r.report
    BY DEF Select
  <2>2. DOMAIN r.report = 1..Len(r.report) /\ Len(r.report) \in Nat
    BY RunType, LenProperties
  <2>. HIDE DEF todo
  <2>. QED
    BY <2>1, <2>2
<1>. HIDE DEF existing, todo
<1>3. r \in Runs /\ r.page \in Nat \ {0} /\ r.page + 1 \in Nat \ {0}
  BY RunType
<1>4. last \in Runs /\ last.report = r.report /\ last.existing = existing /\ last.todo = todo
  BY <1>1, <1>2, <1>3 DEF Runs
<1>5. next \in Runs /\ next.report = r.report /\ next.existing = existing
      /\ next.todo = r.todo /\ next.page = r.page + 1
  BY <1>1, <1>3 DEF Runs
<1>6. /\ pc[p] = "list" /\ UNCHANGED <<issues, unscanned, faults>>
      /\ \/ pc' = [pc EXCEPT ![p] = "idle"] /\ run' = [run EXCEPT ![p] = NoRun]
         \/ /\ LastPage(r.page)
            /\ pc' = [pc EXCEPT ![p] = "file"] /\ run' = [run EXCEPT ![p] = last]
         \/ ~LastPage(r.page) /\ pc' = pc /\ run' = [run EXCEPT ![p] = next]
  BY DEF ListPage, existing, todo
<1>7. pc' = pc => pc' = [pc EXCEPT ![p] = "list"]
  BY <1>6 DEF TypeOK
<1>8. CASE pc' = [pc EXCEPT ![p] = "idle"] /\ run' = [run EXCEPT ![p] = NoRun]
  <2>1. Lists(p, "idle", NoRun)
    BY <1>6, <1>8 DEF Lists
  <2>. QED
    BY <2>1, NoRunType
<1>9. CASE /\ LastPage(r.page)
           /\ pc' = [pc EXCEPT ![p] = "file"] /\ run' = [run EXCEPT ![p] = last]
  <2>. HIDE DEF last
  <2>1. Lists(p, "file", last)
    BY <1>4, <1>6, <1>9 DEF Lists, existing, todo
  <2>. QED
    BY <1>4, <2>1
<1>10. CASE pc' = pc /\ run' = [run EXCEPT ![p] = next]
  <2>. HIDE DEF next
  <2>1. Lists(p, "list", next)
    BY <1>5, <1>6, <1>7, <1>10 DEF Lists, existing
  <2>. QED
    BY <1>5, <2>1
<1>. QED
  BY <1>6, <1>8, <1>9, <1>10

\* What a call of create_issue for position k leaves.
Creates(p, k) ==
    LET f == run[p].report[k]
    IN  /\ f \in Fingerprints /\ pc[p] = "file"
        /\ \/ issues' = NewIssue(f) /\ unscanned' = unscanned \cup {f}
           \/ UNCHANGED <<issues, unscanned>>
        /\ \/ Leave(p) /\ Fault
           \/ \E s \in Runs :
                 /\ issues' = NewIssue(f) /\ UNCHANGED <<pc, faults>>
                 /\ run' = [run EXCEPT ![p] = s]
                 /\ s.report = run[p].report /\ s.existing = run[p].existing
                 /\ s.todo = run[p].todo \ {k} /\ f \in s.created

LEMMA CreatedRun ==
    ASSUME TypeOK, NEW p \in Runners, CreateIssue(p)
    PROVE  \E k \in run[p].todo : Creates(p, k)
<1>. DEFINE r == run[p]
            k == Min(r.todo)
            f == r.report[k]
            s == [r EXCEPT !.todo = @ \ {k}, !.created = @ \cup {f}]
<1>1. k \in r.todo /\ f \in Fingerprints
  BY RunType, MinIsIn DEF CreateIssue
<1>2. /\ pc[p] = "file"
      /\ \/ /\ issues' = NewIssue(f)
            /\ unscanned' = unscanned \cup {f}
            /\ run' = [run EXCEPT ![p].todo = @ \ {k}, ![p].created = @ \cup {f}]
            /\ UNCHANGED <<pc, faults>>
         \/ /\ \/ issues' = NewIssue(f) /\ unscanned' = unscanned \cup {f}
               \/ UNCHANGED <<issues, unscanned>>
            /\ Leave(p)
            /\ Fault
  BY DEF CreateIssue
<1>. HIDE DEF k, f
<1>3. /\ s \in Runs /\ s.report = r.report /\ s.existing = r.existing
      /\ s.todo = r.todo \ {k} /\ f \in s.created
  BY <1>1, RunType DEF Runs
<1>4. [run EXCEPT ![p].todo = @ \ {k}, ![p].created = @ \cup {f}] = [run EXCEPT ![p] = s]
  BY DEF TypeOK
<1>. HIDE DEF s, r
<1>5. CASE /\ issues' = NewIssue(f)
           /\ unscanned' = unscanned \cup {f}
           /\ run' = [run EXCEPT ![p] = s]
           /\ UNCHANGED <<pc, faults>>
  BY <1>1, <1>2, <1>3, <1>5 DEF r, f, Creates
<1>6. CASE /\ \/ issues' = NewIssue(f) /\ unscanned' = unscanned \cup {f}
              \/ UNCHANGED <<issues, unscanned>>
           /\ Leave(p)
           /\ Fault
  BY <1>1, <1>2, <1>6 DEF r, f, Creates
<1>. QED
  BY <1>2, <1>4, <1>5, <1>6

LEMMA CreateTypes ==
    ASSUME TypeOK, NEW p \in Runners, CreateIssue(p)
    PROVE  TypeOK'
<1>1. PICK k \in run[p].todo : Creates(p, k)
  BY CreatedRun
<1>2. issues \in Seq(Issues) /\ unscanned \subseteq Fingerprints /\ faults \in 0..MaxFaults
  BY DEF TypeOK
<1>3. issues' \in Seq(Issues) /\ unscanned' \subseteq Fingerprints
  BY <1>1, <1>2, NewIssueIsFirst DEF Creates
<1>4. CASE Leave(p) /\ Fault
  BY <1>3, <1>4, LeaveTypes, FaultCounts
<1>5. ASSUME NEW s \in Runs, UNCHANGED <<pc, faults>>, run' = [run EXCEPT ![p] = s],
             s.report = run[p].report, s.existing = run[p].existing,
             s.todo = run[p].todo \ {k}
      PROVE  TypeOK'
  <2>1. pc' = [pc EXCEPT ![p] = "file"]
    BY <1>1, <1>5 DEF Creates, TypeOK
  <2>2. s.existing \subseteq Range(s.report) /\ s.todo \subseteq DOMAIN s.report
    BY <1>5, RunType
  <2>. QED
    BY <1>2, <1>3, <1>5, <2>1, <2>2, RunnerTypes
<1>. QED
  BY <1>1, <1>4, <1>5 DEF Creates

LEMMA ListTypes ==
    ASSUME TypeOK, NEW p \in Runners, ListPage(p)
    PROVE  TypeOK'
<1>. DEFINE r        == run[p]
            existing == r.existing \cup Found(r.report, Page(r.page))
<1>1. existing \subseteq Range(r.report)
  BY RunType DEF Found
<1>2. Select(r.report, existing) \subseteq DOMAIN r.report /\ r.todo \subseteq DOMAIN r.report
  BY RunType DEF Select
<1>. HIDE DEF existing
<1>3. PICK at \in {"idle", "list", "file"}, s \in Runs : Lists(p, at, s)
  BY ListedRun
<1>4. /\ pc' = [pc EXCEPT ![p] = at] /\ run' = [run EXCEPT ![p] = s]
      /\ UNCHANGED <<issues, unscanned, faults>>
  BY <1>3 DEF Lists
<1>5. \/ s = NoRun
      \/ /\ s.report = r.report /\ s.existing = existing
         /\ s.todo \in {r.todo, Select(r.report, existing)}
  BY <1>3 DEF Lists, existing
<1>6. s.existing \subseteq Range(s.report) /\ s.todo \subseteq DOMAIN s.report
  BY <1>1, <1>2, <1>5, NoRunType
<1>. QED
  BY <1>4, <1>6, RunnerTypes DEF TypeOK

LEMMA TypeStep == TypeOK /\ [Next]_vars => TypeOK'
<1>. SUFFICES ASSUME TypeOK, [Next]_vars PROVE TypeOK'
  OBVIOUS
<1>. issues \in Seq(Issues) /\ unscanned \subseteq Fingerprints /\ faults \in 0..MaxFaults
  BY DEF TypeOK
<1>1. CASE UNCHANGED vars
  BY <1>1 DEF vars, TypeOK
<1>2. ASSUME NEW p \in Runners, NEW report \in Reports, NEW dryRun \in BOOLEAN,
             Start(p, report, dryRun)
      PROVE  TypeOK'
  BY <1>2, StartTypes
<1>3. ASSUME NEW p \in Runners, RunnerStep(p) PROVE TypeOK'
  <2>1. CASE Finish(p)
    <3>1. CASE Leave(p)
      BY <2>1, <3>1, LeaveTypes DEF Finish
    <3>2. CASE pc' = [pc EXCEPT ![p] = "enqueue"] /\ UNCHANGED run
      <4>1. UNCHANGED <<issues, run, unscanned, faults>>
        BY <2>1, <3>2 DEF Finish
      <4>. QED
        BY <3>2, <4>1 DEF TypeOK
    <3>. QED
      BY <2>1, <3>1, <3>2 DEF Finish
  <2>2. CASE EnqueueScan(p)
    BY <2>2, LeaveTypes DEF EnqueueScan
  <2>. QED
    BY <1>3, <2>1, <2>2, ListTypes, CreateTypes DEF RunnerStep
<1>4. ASSUME NEW p \in Runners, Abort(p) PROVE TypeOK'
  BY <1>4, LeaveTypes, FaultCounts DEF Abort
<1>5. ASSUME NEW k \in DOMAIN issues, NEW open \in BOOLEAN, SetOpen(k, open) \/ Unlabel(k)
      PROVE  TypeOK'
  BY <1>5, IssueKeepsPlace DEF TypeOK
<1>6. CASE Foreign
  <2>1. issues' \in Seq(Issues) /\ UNCHANGED <<pc, run, unscanned, faults>>
    BY <1>6, NewIssueIsFirst DEF Foreign
  <2>. QED
    BY <2>1 DEF TypeOK
<1>7. CASE PeriodicScan
  BY <1>7 DEF PeriodicScan, TypeOK
<1>. QED
  BY <1>1, <1>2, <1>3, <1>4, <1>5, <1>6, <1>7 DEF Next

LEMMA TypeInit == Init => TypeOK
BY NoRunType, EmptySeq, DiscoveryParameters DEF Init, TypeOK

\* The list, the runs and their positions keep their types, and a run looks for
\* and files only what its own report contains.
THEOREM DiscoveryTypeCorrect == Spec => []TypeOK
BY TypeInit, TypeStep, PTL DEF Spec

(***************************************************************************)
(* What is filed is scanned.                                               *)
(***************************************************************************)
\* A run that will ask for a scan: it is about to, or has filed something.
Asks(p) ==
    \/ pc[p] = "enqueue"
    \/ pc[p] = "file" /\ run[p].created # {}

ScanInv == unscanned # {} /\ faults = 0 => \E p \in Runners : Asks(p)

LEMMA OthersAsk ==
    ASSUME TypeOK, NEW p \in Runners, NEW at, NEW r,
           pc' = [pc EXCEPT ![p] = at], run' = [run EXCEPT ![p] = r],
           NEW q \in Runners \ {p}, Asks(q)
    PROVE  Asks(q)'
BY DEF TypeOK, Asks

LEMMA ScanStep == TypeOK /\ ScanInv /\ [Next]_vars => ScanInv'
<1>. SUFFICES ASSUME TypeOK, ScanInv, [Next]_vars, unscanned' # {}, faults' = 0
              PROVE  \E p \in Runners : Asks(p)'
  BY DEF ScanInv
<1>1. CASE UNCHANGED <<pc, run, unscanned, faults>>
  BY <1>1 DEF ScanInv, Asks
<1>2. ASSUME NEW p \in Runners, NEW at, NEW r, ~Asks(p),
             pc' = [pc EXCEPT ![p] = at], run' = [run EXCEPT ![p] = r],
             UNCHANGED <<unscanned, faults>>
      PROVE  \E q \in Runners : Asks(q)'
  <2>1. PICK q \in Runners : Asks(q)
    BY <1>2 DEF ScanInv
  <2>. QED
    BY <1>2, <2>1, OthersAsk
<1>3. ASSUME NEW p \in Runners, NEW report \in Reports, NEW dryRun \in BOOLEAN,
             Start(p, report, dryRun)
      PROVE  \E q \in Runners : Asks(q)'
  <2>1. CASE report = <<>>
    BY <1>1, <1>3, <2>1 DEF Start, TypeOK
  <2>2. CASE report # <<>>
    BY <1>2, <1>3, <2>2 DEF Start, Asks
  <2>. QED
    BY <2>1, <2>2
<1>4. ASSUME NEW p \in Runners, ListPage(p)
      PROVE  \E q \in Runners : Asks(q)'
  <2>1. PICK at \in {"idle", "list", "file"}, s \in Runs : Lists(p, at, s)
    BY <1>4, ListedRun
  <2>. QED
    BY <1>2, <2>1 DEF Lists, Asks
<1>5. ASSUME NEW p \in Runners, CreateIssue(p)
      PROVE  \E q \in Runners : Asks(q)'
  <2>1. PICK k \in run[p].todo : Creates(p, k)
    BY <1>5, CreatedRun
  <2>2. ~Fault
    BY FaultCounts
  <2>3. PICK s \in Runs : /\ run' = [run EXCEPT ![p] = s] /\ UNCHANGED pc
                          /\ s.created # {}
    BY <2>1, <2>2 DEF Creates
  <2>4. pc'[p] = "file" /\ run'[p].created # {}
    BY <2>1, <2>3 DEF Creates, TypeOK
  <2>. QED
    BY <2>4 DEF Asks
<1>6. ASSUME NEW p \in Runners, Finish(p)
      PROVE  \E q \in Runners : Asks(q)'
  <2>1. CASE run[p].created = {}
    BY <1>2, <1>6, <2>1 DEF Finish, Leave, Asks
  <2>2. CASE run[p].created # {}
    <3>1. pc'[p] = "enqueue"
      BY <1>6, <2>2 DEF Finish, TypeOK
    <3>. QED
      BY <3>1 DEF Asks
  <2>. QED
    BY <2>1, <2>2
<1>7. ASSUME NEW p \in Runners, EnqueueScan(p) \/ Abort(p)
      PROVE  FALSE
  BY <1>7, FaultCounts DEF EnqueueScan, Abort
<1>8. ASSUME NEW k \in DOMAIN issues, NEW open \in BOOLEAN, SetOpen(k, open) \/ Unlabel(k)
      PROVE  \E q \in Runners : Asks(q)'
  BY <1>1, <1>8 DEF SetOpen, Unlabel
<1>9. CASE Foreign \/ PeriodicScan
  BY <1>1, <1>9 DEF Foreign, PeriodicScan
<1>. QED
  BY <1>1, <1>3, <1>4, <1>5, <1>6, <1>7, <1>8, <1>9 DEF Next, RunnerStep, vars

\* Unless a call failed or a run was lost, no issue that was filed waits for the
\* periodic scan, however many runs file at a time.
THEOREM FiledAreScanned == Spec => []FiledIsScanned
<1>1. Init => ScanInv
  BY DEF Init, ScanInv
<1>2. ScanInv => FiledIsScanned
  BY DEF ScanInv, Asks, FiledIsScanned
<1>. QED
  BY <1>1, <1>2, TypeInit, TypeStep, ScanStep, PTL DEF Spec

(***************************************************************************)
(* A finding is filed once.                                                *)
(***************************************************************************)
AllLabelled == \A k \in DOMAIN issues : issues[k].labelled

Once == \A f \in Fingerprints : \A i, j \in Filed(f) : i = j

\* What a run that overlaps with no other knows of the issues: while it lists,
\* that those it looks for and has not found are further down than the pages it
\* has seen; and then, that what it is going to file is not there yet.
Informed(at, r) ==
    /\ at = "list" =>
          \A f \in Range(r.report) \ r.existing :
              \A j \in Filed(f) : (r.page - 1) * PageSize < j
    /\ at = "file" =>
          \A k \in r.todo :
              /\ Filed(r.report[k]) = {}
              /\ \A j \in r.todo : r.report[j] = r.report[k] => j = k

FileInv == AllLabelled => Once /\ \A p \in Runners : Informed(pc[p], run[p])

\* With all issues labelled, the place of an issue is its position.
LEMMA PlacesArePositions ==
    ASSUME TypeOK, AllLabelled
    PROVE  /\ Listed = DOMAIN issues
           /\ Cardinality(Listed) = Len(issues)
           /\ \A j \in DOMAIN issues : Place(j) = j
<1>1. Len(issues) \in Nat /\ DOMAIN issues = 1..Len(issues)
  BY LenProperties DEF TypeOK
<1>2. Listed = 1..Len(issues)
  BY <1>1 DEF Listed, AllLabelled
<1>3. \A n \in Nat : Cardinality(1..n) = n
  BY FS_Interval
<1>4. ASSUME NEW j \in 1..Len(issues) PROVE Place(j) = j
  <2>. DEFINE above == {i \in Listed : i <= j}
  <2>1. above = 1..j
    BY <1>1, <1>2
  <2>2. Place(j) = Cardinality(above)
    BY DEF Place
  <2>. HIDE DEF above
  <2>. QED
    BY <1>1, <1>3, <2>1, <2>2
<1>. QED
  BY <1>1, <1>2, <1>3, <1>4

\* An issue on the page is found by a run that looks for it, and after the last
\* page none is left.
LEMMA PageFinds ==
    ASSUME TypeOK, AllLabelled, NEW report, NEW n \in Nat \ {0},
           NEW f \in Range(report), NEW j \in Filed(f), (n - 1) * PageSize < j
    PROVE  /\ f \notin Found(report, Page(n)) => n * PageSize < j
           /\ LastPage(n) => f \in Found(report, Page(n))
<1>1. j \in DOMAIN issues /\ issues[j].mark = f
  BY DEF Filed
<1>2. /\ DOMAIN issues = 1..Len(issues) /\ Len(issues) \in Nat
      /\ j \in Listed /\ Place(j) = j /\ Cardinality(Listed) = Len(issues)
  BY <1>1, PlacesArePositions, LenProperties DEF TypeOK
<1>3. PageSize \in Nat /\ n * PageSize \in Nat
  BY DiscoveryParameters
<1>4. j <= n * PageSize => issues[j] \in Page(n)
  BY <1>2 DEF Page
<1>5. j <= n * PageSize => f \in Found(report, Page(n))
  BY <1>1, <1>4 DEF Found
<1>6. LastPage(n) => j <= n * PageSize
  BY <1>1, <1>2, <1>3 DEF LastPage
<1>. QED
  BY <1>1, <1>2, <1>3, <1>5, <1>6

\* A new issue is found further up than all others.
LEMMA FiledMoves ==
    ASSUME TypeOK, NEW mark \in Fingerprints \cup {NULL}, issues' = NewIssue(mark)
    PROVE  /\ AllLabelled' => AllLabelled
           /\ \A f : \A j \in Filed(f)' : (j = 1 /\ f = mark) \/ j - 1 \in Filed(f)
           /\ \A f : Filed(f)' \subseteq Nat /\ Filed(f) \subseteq Nat
<1>1. issues \in Seq(Issues) /\ issues' \in Seq(Issues)
  BY NewIssueIsFirst DEF TypeOK
<1>2. /\ \A j \in DOMAIN issues' :
            \/ j = 1 /\ issues'[j].mark = mark /\ issues'[j].labelled
            \/ j - 1 \in DOMAIN issues /\ issues'[j] = issues[j - 1]
      /\ \A j \in DOMAIN issues : j + 1 \in DOMAIN issues' /\ issues'[j + 1] = issues[j]
  BY <1>1, NewIssueIsFirst
<1>3. DOMAIN issues \subseteq Nat /\ DOMAIN issues' \subseteq Nat
  BY <1>1, LenProperties
<1>. QED
  BY <1>2, <1>3 DEF AllLabelled, Filed

\* A run that takes its findings in the state the listing found.
LEMMA SelectsNew ==
    ASSUME TypeOK, NEW report \in Seq(Fingerprints), NEW existing,
           \A f \in Range(report) \ existing : Filed(f) = {},
           NEW k \in Select(report, existing)
    PROVE  /\ Filed(report[k]) = {}
           /\ \A j \in Select(report, existing) : report[j] = report[k] => j = k
<1>1. \A j \in Select(report, existing) :
         /\ j \in DOMAIN report /\ report[j] \notin existing
         /\ \A i \in 1..(j - 1) : report[i] # report[j]
  BY DEF Select
<1>2. DOMAIN report = 1..Len(report) /\ Len(report) \in Nat
  BY LenProperties
<1>3. report[k] \in Range(report)
  BY <1>1 DEF Range
<1>4. ASSUME NEW j \in Select(report, existing), report[j] = report[k]
      PROVE  j = k
  <2>1. j \in 1..Len(report) /\ k \in 1..Len(report)
    BY <1>1, <1>2
  <2>2. ~(j < k) /\ ~(k < j)
    BY <1>1, <1>4, <2>1
  <2>. QED
    BY <2>1, <2>2
<1>. QED
  BY <1>1, <1>3, <1>4

\* A step of the only runner, after which nothing has been filed.
LEMMA ListInformed ==
    ASSUME TypeOK, AllLabelled, NEW p \in Runners, Informed(pc[p], run[p]), ListPage(p)
    PROVE  Informed(pc[p], run[p])' /\ UNCHANGED issues
<1>. DEFINE r == run[p]
            existing == r.existing \cup Found(r.report, Page(r.page))
<1>1. PICK at \in {"idle", "list", "file"}, s \in Runs : Lists(p, at, s)
  BY ListedRun
<1>2. /\ pc[p] = "list" /\ pc'[p] = at /\ run'[p] = s /\ UNCHANGED issues
  BY <1>1 DEF Lists, TypeOK
<1>3. r.page \in Nat \ {0} /\ r.report \in Seq(Fingerprints)
  BY RunType
<1>4. \A f \in Range(r.report) \ r.existing :
         \A j \in Filed(f) : (r.page - 1) * PageSize < j
  BY <1>2 DEF Informed
<1>5. \A f \in Range(r.report) \ existing :
         \A j \in Filed(f) : r.page * PageSize < j /\ ~LastPage(r.page)
  BY <1>3, <1>4, PageFinds
<1>. HIDE DEF existing
<1>6. \A f : Filed(f)' = Filed(f)
  BY <1>2 DEF Filed
<1>7. CASE at = "file"
  <2>1. s.report = r.report /\ LastPage(r.page) /\ s.todo = Select(r.report, existing)
    BY <1>1, <1>7 DEF Lists, existing
  <2>2. \A f \in Range(r.report) \ existing : Filed(f) = {}
    BY <1>5, <2>1
  <2>3. ASSUME NEW k \in s.todo
        PROVE  /\ Filed(s.report[k]) = {}
               /\ \A j \in s.todo : s.report[j] = s.report[k] => j = k
    <3>1. k \in Select(r.report, existing)
      BY <2>1
    <3>2. /\ Filed(r.report[k]) = {}
          /\ \A j \in Select(r.report, existing) : r.report[j] = r.report[k] => j = k
      BY <1>3, <2>2, <3>1, SelectsNew
    <3>. QED
      BY <2>1, <3>2
  <2>. QED
    BY <1>2, <1>6, <1>7, <2>3 DEF Informed
<1>8. CASE at = "list"
  <2>1. s.report = r.report /\ s.existing = existing /\ s.page = r.page + 1
    BY <1>1, <1>8 DEF Lists, existing
  <2>2. s.page - 1 = r.page
    BY <1>3, <2>1
  <2>3. \A f \in Range(s.report) \ s.existing :
           \A j \in Filed(f) : (s.page - 1) * PageSize < j
    BY <1>5, <2>1, <2>2
  <2>. QED
    BY <1>2, <1>6, <1>8, <2>3 DEF Informed
<1>9. CASE at = "idle"
  BY <1>2, <1>9 DEF Informed
<1>. QED
  BY <1>2, <1>7, <1>8, <1>9

LEMMA OnceMoves ==
    ASSUME TypeOK, Once, NEW mark \in Fingerprints \cup {NULL}, issues' = NewIssue(mark),
           mark # NULL => Filed(mark) = {}
    PROVE  /\ Once'
           /\ \A f \in Fingerprints : Filed(f) = {} /\ f # mark => Filed(f)' = {}
           /\ \A f \in Fingerprints \ {mark} : \A j \in Filed(f)' :
                 j \in Nat /\ j - 1 \in Filed(f) /\ j - 1 \in Nat
<1>1. ASSUME NEW f \in Fingerprints, NEW i \in Filed(f)', NEW j \in Filed(f)'
      PROVE  i = j
  <2>1. i \in Nat /\ j \in Nat
    BY FiledMoves
  <2>2. CASE f = mark
    BY <2>2, FiledMoves, DiscoveryParameters
  <2>3. CASE f # mark
    <3>1. i - 1 \in Filed(f) /\ j - 1 \in Filed(f)
      BY <2>3, FiledMoves
    <3>. QED
      BY <2>1, <3>1 DEF Once
  <2>. QED
    BY <2>2, <2>3
<1>2. Once'
  BY <1>1 DEF Once
<1>3. ASSUME NEW f \in Fingerprints \ {mark}, NEW j \in Filed(f)'
      PROVE  j \in Nat /\ j - 1 \in Filed(f) /\ j - 1 \in Nat
  BY FiledMoves
<1>. QED
  BY <1>2, <1>3

LEMMA CreateInformed ==
    ASSUME TypeOK, AllLabelled, Once, NEW p \in Runners, Informed(pc[p], run[p]),
           CreateIssue(p)
    PROVE  Informed(pc[p], run[p])' /\ Once'
<1>1. PICK k \in run[p].todo : Creates(p, k)
  BY CreatedRun
<1>. DEFINE f == run[p].report[k]
<1>2. f \in Fingerprints /\ pc[p] = "file" /\ f # NULL
  BY <1>1, DiscoveryParameters DEF Creates
<1>3. /\ Filed(f) = {}
      /\ \A m \in run[p].todo \ {k} : Filed(run[p].report[m]) = {} /\ run[p].report[m] # f
      /\ \A m, n \in run[p].todo : run[p].report[n] = run[p].report[m] => n = m
      /\ \A m \in run[p].todo : run[p].report[m] \in Fingerprints
  BY <1>2, RunType DEF Informed
<1>. HIDE DEF f
<1>4. Once'
  <2>1. CASE issues' = NewIssue(f)
    BY <1>2, <1>3, <2>1, OnceMoves
  <2>2. CASE UNCHANGED issues
    BY <2>2 DEF Once, Filed
  <2>. QED
    BY <1>1, <2>1, <2>2 DEF Creates, f
<1>5. CASE Leave(p)
  <2>1. pc'[p] = "idle"
    BY <1>5 DEF Leave, TypeOK
  <2>. QED
    BY <1>4, <2>1 DEF Informed
<1>6. ASSUME NEW s \in Runs,
             issues' = NewIssue(f), UNCHANGED pc, run' = [run EXCEPT ![p] = s],
             s.report = run[p].report, s.todo = run[p].todo \ {k}
      PROVE  Informed(pc[p], run[p])'
  <2>1. pc'[p] = "file" /\ run'[p] = s
    BY <1>2, <1>6 DEF TypeOK
  <2>2. \A m \in s.todo : /\ Filed(s.report[m])' = {}
                          /\ \A n \in s.todo : s.report[n] = s.report[m] => n = m
    BY <1>2, <1>3, <1>6, OnceMoves
  <2>3. \A m \in run'[p].todo :
           /\ Filed(run[p].report[m])' = {}
           /\ \A n \in run'[p].todo : run'[p].report[n] = run'[p].report[m] => n = m
    BY <2>1, <2>2 DEF Filed
  <2>. QED
    BY <2>1, <2>3 DEF Informed
<1>. QED
  BY <1>1, <1>4, <1>5, <1>6 DEF Creates, f

LEMMA ForeignInformed ==
    ASSUME TypeOK, AllLabelled, Once, NEW p \in Runners, Informed(pc[p], run[p]), Foreign
    PROVE  Informed(pc[p], run[p])' /\ Once'
<1>1. issues' = NewIssue(NULL) /\ UNCHANGED <<pc, run>>
  BY DEF Foreign
<1>2. /\ Once'
      /\ \A f \in Fingerprints : Filed(f) = {} => Filed(f)' = {}
      /\ \A f \in Fingerprints : \A j \in Filed(f)' :
            j \in Nat /\ j - 1 \in Filed(f) /\ j - 1 \in Nat
  BY <1>1, OnceMoves, DiscoveryParameters
<1>. DEFINE bound == (run[p].page - 1) * PageSize
<1>3. bound \in Int /\ bound' = bound
  BY <1>1, RunType, DiscoveryParameters
<1>. HIDE DEF bound
<1>4. ASSUME \A f \in Range(run[p].report) \ run[p].existing :
                \A j \in Filed(f) : bound < j
      PROVE  \A f \in Range(run[p].report) \ run[p].existing :
                \A j \in Filed(f)' : bound < j
  <2>. SUFFICES ASSUME NEW f \in Range(run[p].report) \ run[p].existing,
                       NEW j \in Filed(f)'
                PROVE  bound < j
    OBVIOUS
  <2>1. f \in Fingerprints
    BY RunType
  <2>2. j \in Nat /\ j - 1 \in Nat /\ bound < j - 1
    BY <1>2, <1>4, <2>1
  <2>. QED
    BY <1>3, <2>2
<1>5. \A m \in run[p].todo : run[p].report[m] \in Fingerprints
  BY RunType
<1>6. UNCHANGED run[p] /\ UNCHANGED pc[p]
  BY <1>1
<1>. QED
  BY <1>2, <1>3, <1>4, <1>5, <1>6 DEF Informed, bound

LEMMA StartInformed ==
    ASSUME TypeOK, NEW p \in Runners, NEW report \in Reports, NEW dryRun \in BOOLEAN,
           Start(p, report, dryRun), Informed(pc[p], run[p])
    PROVE  Informed(pc[p], run[p])' /\ UNCHANGED issues
<1>1. UNCHANGED issues /\ \A f : Filed(f)' = Filed(f)
  BY DEF Start, Filed
<1>2. CASE report = <<>>
  <2>1. UNCHANGED run /\ pc'[p] = pc[p]
    BY <1>2 DEF Start, TypeOK
  <2>. QED
    BY <1>1, <2>1 DEF Informed
<1>3. CASE report # <<>>
  <2>. DEFINE r == [NoRun EXCEPT !.report = report, !.dryRun = dryRun]
  <2>1. r.page = 1
    BY DEF NoRun
  <2>2. pc'[p] = "list" /\ run'[p] = r
    BY <1>3 DEF Start, TypeOK
  <2>. HIDE DEF r
  <2>3. \A f : \A j \in Filed(f) : (r.page - 1) * PageSize < j
    <3>1. \A f : \A j \in Filed(f) : j \in 1..Len(issues)
      BY LenProperties DEF Filed, TypeOK
    <3>2. r.page - 1 = 0 /\ 0 * PageSize = 0
      BY <2>1, DiscoveryParameters
    <3>. QED
      BY <3>1, <3>2
  <2>. QED
    BY <1>1, <2>2, <2>3 DEF Informed
<1>. QED
  BY <1>2, <1>3

\* The runs that are under way, as the worker's slots and the API start them,
\* do not overlap.
NoOverlap ==
    \A p, q \in Runners : pc[p] # "idle" /\ pc[q] # "idle" => p = q

LEMMA FileStep ==
    TypeOK /\ NoOverlap /\ NoOverlap' /\ FileInv /\ [Next]_vars => FileInv'
<1>. SUFFICES ASSUME TypeOK, NoOverlap, NoOverlap', FileInv, [Next]_vars, AllLabelled'
              PROVE  Once' /\ \A p \in Runners : Informed(pc[p], run[p])'
  BY DEF FileInv
<1>1. ASSUME UNCHANGED issues
      PROVE  AllLabelled /\ Once' /\ \A f : Filed(f)' = Filed(f)
  BY <1>1 DEF FileInv, AllLabelled, Once, Filed
<1>2. ASSUME UNCHANGED <<issues, pc, run>>
      PROVE  Once' /\ \A p \in Runners : Informed(pc[p], run[p])'
  BY <1>1, <1>2 DEF FileInv, Informed
<1>3. ASSUME NEW p \in Runners, pc[p] # "idle" \/ pc'[p] # "idle",
             NEW at, pc' = [pc EXCEPT ![p] = at],
             Once', Informed(pc[p], run[p])'
      PROVE  Once' /\ \A q \in Runners : Informed(pc[q], run[q])'
  <2>. SUFFICES ASSUME NEW q \in Runners \ {p} PROVE Informed(pc[q], run[q])'
    BY <1>3
  <2>1. pc'[q] = "idle"
    BY <1>3 DEF NoOverlap, TypeOK
  <2>. QED
    BY <2>1 DEF Informed
<1>4. ASSUME NEW p \in Runners, NEW report \in Reports, NEW dryRun \in BOOLEAN,
             Start(p, report, dryRun)
      PROVE  Once' /\ \A q \in Runners : Informed(pc[q], run[q])'
  <2>1. UNCHANGED issues
    BY <1>4 DEF Start
  <2>2. CASE report = <<>>
    BY <1>2, <1>4, <2>2 DEF Start, TypeOK
  <2>3. CASE report # <<>>
    <3>1. pc' = [pc EXCEPT ![p] = "list"] /\ pc'[p] = "list"
      BY <1>4, <2>3 DEF Start, TypeOK
    <3>2. Once' /\ Informed(pc[p], run[p])'
      BY <1>1, <1>4, <2>1, StartInformed DEF FileInv
    <3>. QED
      BY <1>3, <3>1, <3>2
  <2>. QED
    BY <2>2, <2>3
<1>5. ASSUME NEW p \in Runners, ListPage(p)
      PROVE  Once' /\ \A q \in Runners : Informed(pc[q], run[q])'
  <2>1. PICK at \in {"idle", "list", "file"}, s \in Runs : Lists(p, at, s)
    BY <1>5, ListedRun
  <2>2. pc[p] = "list" /\ pc' = [pc EXCEPT ![p] = at] /\ UNCHANGED issues
    BY <2>1 DEF Lists
  <2>3. Once' /\ Informed(pc[p], run[p])'
    BY <1>1, <1>5, <2>2, ListInformed DEF FileInv
  <2>. QED
    BY <1>3, <2>2, <2>3
<1>6. ASSUME NEW p \in Runners, CreateIssue(p)
      PROVE  Once' /\ \A q \in Runners : Informed(pc[q], run[q])'
  <2>1. PICK k \in run[p].todo : Creates(p, k)
    BY <1>6, CreatedRun
  <2>2. \/ UNCHANGED issues
        \/ \E mark \in Fingerprints : issues' = NewIssue(mark)
    BY <2>1 DEF Creates
  <2>3. AllLabelled
    BY <1>1, <2>2, FiledMoves
  <2>4. Once' /\ Informed(pc[p], run[p])'
    BY <1>6, <2>3, CreateInformed DEF FileInv
  <2>5. pc[p] = "file" /\ (pc' = [pc EXCEPT ![p] = "idle"] \/ pc' = [pc EXCEPT ![p] = "file"])
    BY <2>1 DEF Creates, Leave, TypeOK
  <2>. QED
    BY <1>3, <2>4, <2>5
<1>7. ASSUME NEW p \in Runners, Finish(p) \/ EnqueueScan(p) \/ Abort(p)
      PROVE  Once' /\ \A q \in Runners : Informed(pc[q], run[q])'
  <2>1. /\ UNCHANGED issues /\ pc[p] # "idle"
        /\ pc' = [pc EXCEPT ![p] = "idle"] \/ pc' = [pc EXCEPT ![p] = "enqueue"]
    BY <1>7 DEF Finish, EnqueueScan, Abort, Leave
  <2>2. pc'[p] \in {"idle", "enqueue"}
    BY <2>1 DEF TypeOK
  <2>3. Once' /\ Informed(pc[p], run[p])'
    BY <1>1, <2>1, <2>2 DEF Informed
  <2>. QED
    BY <1>3, <2>1, <2>3
<1>8. ASSUME NEW k \in DOMAIN issues, NEW open \in BOOLEAN, SetOpen(k, open) \/ Unlabel(k)
      PROVE  Once' /\ \A p \in Runners : Informed(pc[p], run[p])'
  <2>1. /\ DOMAIN issues' = DOMAIN issues
        /\ \A j \in DOMAIN issues : issues'[j].mark = issues[j].mark
        /\ \A j \in DOMAIN issues : issues'[j].labelled => issues[j].labelled
        /\ UNCHANGED <<pc, run, unscanned, faults>>
    BY <1>8, IssueKeepsPlace DEF TypeOK
  <2>2. AllLabelled /\ \A f : Filed(f)' = Filed(f)
    BY <2>1 DEF AllLabelled, Filed
  <2>. QED
    BY <2>1, <2>2 DEF FileInv, Once, Informed
<1>9. CASE Foreign
  <2>1. issues' = NewIssue(NULL) /\ AllLabelled
    BY <1>9, FiledMoves DEF Foreign
  <2>2. Once /\ \A p \in Runners : Informed(pc[p], run[p])
    BY <2>1 DEF FileInv
  <2>. QED
    BY <1>9, <2>1, <2>2, OnceMoves, ForeignInformed
<1>10. CASE PeriodicScan \/ UNCHANGED vars
  BY <1>2, <1>10 DEF PeriodicScan, vars
<1>. QED
  BY <1>4, <1>5, <1>6, <1>7, <1>8, <1>9, <1>10 DEF Next, RunnerStep

\* As long as runs do not overlap and labels stay, no finding is filed twice:
\* not after a crash or a repeated run, not after a POST of which nobody knows
\* whether it was carried out, and not when the list grows while it is read.
THEOREM FiledAtMostOnce == Spec /\ []NoOverlap => []FiledOnce
<1>1. Init => FileInv
  BY DEF Init, FileInv, Once, Filed, Informed
<1>2. TypeOK /\ NoOverlap /\ NoOverlap' /\ FileInv /\ [Next]_vars => FileInv'
  BY FileStep
<1>3. FileInv => FiledOnce
  <2>. SUFFICES ASSUME Once, NEW f \in Fingerprints
                PROVE  Cardinality(Filed(f)) <= 1
    BY DEF FileInv, AllLabelled, FiledOnce
  <2>1. CASE Filed(f) = {}
    BY <2>1, FS_EmptySet
  <2>2. ASSUME NEW j \in Filed(f)
        PROVE  Cardinality(Filed(f)) <= 1
    <3>1. Filed(f) = {j}
      BY DEF Once
    <3>2. Cardinality({j}) = 1
      BY FS_Singleton
    <3>. QED
      BY <3>1, <3>2
  <2>. QED
    BY <2>1, <2>2
<1>. QED
  BY <1>1, <1>2, <1>3, TypeInit, TypeStep, PTL DEF Spec

=============================================================================
