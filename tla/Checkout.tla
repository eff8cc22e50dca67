------------------------------ MODULE Checkout ------------------------------
(***************************************************************************)
(* The checkout that Semgrep discovery keeps of the target repository      *)
(* (app/discovery/semgrep.py).  discovery_task runs in an ingest worker    *)
(* with several slots, all of which use the one directory of their host,   *)
(* and nothing keeps two runs apart.                                       *)
(*                                                                         *)
(* git is external: a command locks what it writes and fails when it finds *)
(* it locked, cleans up after an error, and cleans up nothing when it is   *)
(* killed, which is what subprocess.run does to it when the soft time      *)
(* limit of the task goes off.                                             *)
(***************************************************************************)
EXTENDS Integers, FiniteSets

CONSTANTS
    Slots,      \* of the ingest workers on one host
    Mounted,    \* the directory is itself the mount point of a volume
    MaxCommits, \* bound on the commits of the repository's default branch
    MaxFaults,  \* bound on network failures, scanner failures and kills
    NULL

ASSUME CheckoutParameters ==
    /\ Mounted \in BOOLEAN
    /\ MaxCommits \in Nat \ {0} /\ MaxFaults \in Nat
    /\ NULL \notin 1..MaxCommits

VARIABLES
    origin,     \* head of the default branch, on GitHub
    dir,        \* the checkout directory
    pc,         \* next call of each slot
    read,       \* commits whose files the scan of each slot has seen
    asked,      \* head when the run of each slot began (history)
    alone,      \* no other run has overlapped the slot's run (history)
    hurt,       \* git was killed, or a checkout in use removed (history)
    faults

history == <<asked, alone>>
vars    == <<origin, dir, pc, read, asked, alone, hurt, faults>>

Commits == 1..MaxCommits

Directories ==
    [there : BOOLEAN,
     git   : {"none", "cut", "whole"},  \* .git: missing, begun, with origin/HEAD
     ref   : Commits \cup {NULL},       \* commit of origin/HEAD
     tree  : SUBSET Commits,            \* commits the files come from
     locks : SUBSET {"shallow", "index"}]

Missing == [there |-> FALSE, git |-> "none", ref |-> NULL, tree |-> {}, locks |-> {}]
Empty   == [Missing EXCEPT !.there = TRUE]

Commands == {"cloning", "fetching", "resetting"}
SlotPcs  == {"idle", "look", "fetch", "reset", "exists", "remove", "clone", "run",
             "scan"} \cup Commands

\* Besides the types: what a command that is under way has locked.
TypeOK ==
    /\ origin \in Commits
    /\ dir \in Directories
    /\ pc \in [Slots -> SlotPcs]
    /\ read \in [Slots -> SUBSET Commits]
    /\ asked \in [Slots -> Commits]
    /\ alone \in [Slots -> BOOLEAN]
    /\ hurt \in BOOLEAN
    /\ faults \in 0..MaxFaults
    /\ \A s \in Slots : alone[s] =>
          /\ pc[s] = "fetching" => "shallow" \in dir.locks
          /\ pc[s] = "resetting" => "index" \in dir.locks

\* A new volume is an empty directory.
Init ==
    /\ origin = 1
    /\ dir = IF Mounted THEN Empty ELSE Missing
    /\ pc = [s \in Slots |-> "idle"]
    /\ read = [s \in Slots |-> {}]
    /\ asked = [s \in Slots |-> 1]
    /\ alone = [s \in Slots |-> FALSE]
    /\ hurt = FALSE
    /\ faults = 0

Goto(s, next) == pc' = [pc EXCEPT ![s] = next]

\* An exception ends the run; Beat starts another one some time later.
Raise(s) == Goto(s, "idle")

Fault == faults < MaxFaults /\ faults' = faults + 1

\* Changes to the files are seen by the scans that are under way.
Change(d) ==
    /\ dir' = d
    /\ read' = [s \in Slots |-> IF pc[s] = "scan" THEN read[s] \cup d.tree ELSE read[s]]

Unchanged == UNCHANGED <<dir, read>>

Busy(s)  == \E t \in Slots \ {s} : pc[t] \in Commands
InUse(s) == Busy(s) \/ \E t \in Slots \ {s} : pc[t] \in {"run", "scan"}

(***************************************************************************)
(* update_checkout.                                                        *)
(***************************************************************************)
Begin(s) ==
    /\ pc[s] = "idle"
    /\ Goto(s, "look")
    /\ asked' = [asked EXCEPT ![s] = origin]
    /\ alone' = [t \in Slots |-> t = s /\ \A u \in Slots : pc[u] = "idle"]
    /\ UNCHANGED <<origin, dir, read, hurt, faults>>

Look(s) ==
    /\ pc[s] = "look"
    /\ Goto(s, IF dir.git # "none" THEN "fetch" ELSE "exists")
    /\ UNCHANGED <<origin, dir, read, history, hurt, faults>>

LookDeeper(s) ==
    /\ pc[s] = "exists"
    /\ Goto(s, IF dir.there THEN "remove" ELSE "clone")
    /\ UNCHANGED <<origin, dir, read, history, hurt, faults>>

\* Mutant: a mount point is emptied, and cloned into.
RemoveContents(s) ==
    /\ pc[s] = "remove"
    /\ Change(Empty)
    /\ Goto(s, "clone")
    /\ hurt' = (hurt \/ InUse(s))
    /\ UNCHANGED <<origin, history, faults>>

\* rmtree empties a mount point and raises because it cannot remove it, and it
\* raises when a command keeps writing to what it removes.
Remove(s) ==
    /\ pc[s] = "remove"
    /\ \/ /\ ~Mounted
          /\ Change(Missing)
          /\ Goto(s, "clone")
       \/ /\ Mounted
          /\ Change(Empty)
          /\ Raise(s)
       \/ /\ Busy(s)
          /\ Change([Empty EXCEPT !.git = "cut"])
          /\ Raise(s)
    /\ hurt' = (hurt \/ InUse(s))
    /\ UNCHANGED <<origin, history, faults>>

\* git clone refuses a directory with something in it.
CloneStart(s) ==
    /\ pc[s] = "clone"
    /\ IF dir.git = "none" /\ dir.tree = {}
       THEN Change([Empty EXCEPT !.git = "cut"]) /\ Goto(s, "cloning")
       ELSE Unchanged /\ Raise(s)
    /\ UNCHANGED <<origin, history, hurt, faults>>

\* Mutant: what an unsuccessful clone has made stays.
CloneEndLeaving(s) ==
    /\ pc[s] = "cloning"
    /\ \/ /\ dir.git # "none"
          /\ Change([dir EXCEPT !.git = "whole", !.ref = origin, !.tree = {origin}])
          /\ Goto(s, "run")
          /\ UNCHANGED faults
       \/ Unchanged /\ Raise(s) /\ Fault
    /\ UNCHANGED <<origin, history, hurt>>

\* A clone may fail because of another command in its directory, and removes
\* the directory when it fails.
CloneEnd(s) ==
    /\ pc[s] = "cloning"
    /\ \/ /\ dir.git # "none"
          /\ Change([dir EXCEPT !.git = "whole", !.ref = origin, !.tree = {origin}])
          /\ Goto(s, "run")
          /\ UNCHANGED <<hurt, faults>>
       \/ /\ IF Busy(s) \/ dir.git = "none" THEN UNCHANGED faults ELSE Fault
          /\ Change(IF Mounted THEN Empty ELSE Missing)
          /\ Raise(s)
          /\ hurt' = (hurt \/ InUse(s))
    /\ UNCHANGED <<origin, history>>

FetchStart(s) ==
    /\ pc[s] = "fetch"
    /\ IF dir.git # "none" /\ "shallow" \notin dir.locks
       THEN Change([dir EXCEPT !.locks = @ \cup {"shallow"}]) /\ Goto(s, "fetching")
       ELSE Unchanged /\ Raise(s)
    /\ UNCHANGED <<origin, history, hurt, faults>>

\* Mutant: the reset goes on without its lock, as one command with the fetch.
FetchEndInOne(s) ==
    /\ pc[s] = "fetching"
    /\ dir.git = "whole"
    /\ Change([dir EXCEPT !.locks = @ \ {"shallow"}, !.ref = origin])
    /\ Goto(s, "resetting")
    /\ UNCHANGED <<origin, history, hurt, faults>>

\* Whether a fetch repairs a clone that was cut short depends on how far the
\* clone had come, and on the version of git.
FetchEnd(s) ==
    LET unlocked == [dir EXCEPT !.locks = @ \ {"shallow"}] IN
    /\ pc[s] = "fetching"
    /\ \/ /\ dir.git # "none"
          /\ Change([unlocked EXCEPT !.git = "whole", !.ref = origin])
          /\ Goto(s, "reset")
          /\ UNCHANGED faults
       \/ /\ dir.git = "cut"
          /\ Change(unlocked)
          /\ Goto(s, "reset")
          /\ UNCHANGED faults
       \/ /\ dir.git = "none"
          /\ Unchanged /\ Raise(s) /\ UNCHANGED faults
       \/ /\ Change(unlocked) /\ Raise(s) /\ Fault
    /\ UNCHANGED <<origin, history, hurt>>

\* Mutant: the files stay as they are when origin/HEAD cannot be reset to.
ResetStartLenient(s) ==
    /\ pc[s] = "reset"
    /\ IF dir.git = "whole" /\ "index" \notin dir.locks
       THEN /\ Change([dir EXCEPT !.locks = @ \cup {"index"}, !.tree = @ \cup {dir.ref}])
            /\ Goto(s, "resetting")
       ELSE Unchanged /\ Goto(s, "run")
    /\ UNCHANGED <<origin, history, hurt, faults>>

ResetStart(s) ==
    /\ pc[s] = "reset"
    /\ IF dir.git = "whole" /\ "index" \notin dir.locks
       THEN /\ Change([dir EXCEPT !.locks = @ \cup {"index"}, !.tree = @ \cup {dir.ref}])
            /\ Goto(s, "resetting")
       ELSE Unchanged /\ Raise(s)
    /\ UNCHANGED <<origin, history, hurt, faults>>

ResetEnd(s) ==
    /\ pc[s] = "resetting"
    /\ IF dir.git = "whole"
       THEN /\ Change([dir EXCEPT !.locks = @ \ {"index"}, !.tree = {dir.ref}])
            /\ Goto(s, "run")
       ELSE Unchanged /\ Raise(s)
    /\ UNCHANGED <<origin, history, hurt, faults>>

(***************************************************************************)
(* run_semgrep, and the end of the run.                                    *)
(***************************************************************************)
\* The scanner is started in the directory.
ScanStart(s) ==
    /\ pc[s] = "run"
    /\ IF dir.there
       THEN /\ Goto(s, "scan")
            /\ read' = [read EXCEPT ![s] = dir.tree]
       ELSE Raise(s) /\ UNCHANGED read
    /\ UNCHANGED <<origin, dir, history, hurt, faults>>

\* A return code other than 0 and 1, or output that is no JSON, raises.
ScanEnd(s) ==
    /\ pc[s] = "scan"
    /\ Goto(s, "idle")
    /\ read' = [read EXCEPT ![s] = {}]
    /\ Fault \/ UNCHANGED faults
    /\ UNCHANGED <<origin, dir, history, hurt>>

\* The soft time limit: the command under way is killed, and its locks stay.
Kill(s) ==
    /\ pc[s] # "idle"
    /\ Raise(s)
    /\ read' = [read EXCEPT ![s] = {}]
    /\ hurt' = (hurt \/ pc[s] \in Commands)
    /\ Fault
    /\ UNCHANGED <<origin, dir, history>>

Push ==
    /\ origin < MaxCommits
    /\ origin' = origin + 1
    /\ UNCHANGED <<dir, pc, read, history, hurt, faults>>

Step(s) ==
    \/ Look(s) \/ LookDeeper(s) \/ Remove(s) \/ CloneStart(s) \/ CloneEnd(s)
    \/ FetchStart(s) \/ FetchEnd(s) \/ ResetStart(s) \/ ResetEnd(s)
    \/ ScanStart(s) \/ ScanEnd(s)

Next ==
    \/ Push
    \/ \E s \in Slots : Begin(s) \/ Step(s) \/ Kill(s)

Spec == Init /\ [][Next]_vars

\* Beat goes on starting runs, and a run goes on.
FairSpec == Spec /\ \A s \in Slots : WF_vars(Begin(s)) /\ WF_vars(Step(s))

-----------------------------------------------------------------------------

\* A scan whose run nothing overlapped has seen the files of one commit and no
\* others, and of one that was pushed no earlier than the head the run began
\* with, whatever earlier runs left behind: overlapping resets, commands that
\* were killed, clones that were cut short.
ScanIsOfOneHead ==
    \A s \in Slots :
        pc[s] = "scan" /\ alone[s] =>
            \E c \in asked[s]..origin : read[s] = {c}

\* Whatever fails, and however two runs meet, the directory is left in a state
\* from which the next run gets to a scan: to be cloned into, or whole and
\* unlocked.  The exceptions are a git command that is killed, and a checkout
\* that is removed while another run uses it.
LeftUsable ==
    (\A s \in Slots : pc[s] = "idle") /\ ~hurt
        => dir.git # "cut" /\ dir.locks = {}

\* Discovery goes on scanning, although two runs that meet make each other
\* fail; with the same exceptions.
ScansKeepComing == []<>(hurt \/ \E s \in Slots : pc[s] = "scan")

=============================================================================
