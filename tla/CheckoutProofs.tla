--------------------------- MODULE CheckoutProofs ---------------------------
(***************************************************************************)
(* A scan that no other run overlapped is of one recent commit, and the    *)
(* checkout is left usable: for every number of slots, commits and faults, *)
(* on a mounted directory and on any other.                                *)
(*                                                                         *)
(* The first rests on what a run that has been alone so far knows of the   *)
(* directory before each of its calls (Knows), whatever it found there.    *)
(* The second turns each trace a command leaves into evidence that it is   *)
(* still running (InWork): a clone that is cut short, or a lock, without   *)
(* the command it belongs to means that one was killed, or a checkout      *)
(* removed under it.                                                       *)
(***************************************************************************)
EXTENDS Checkout, TLAPS

Types ==
    /\ origin \in Commits
    /\ dir \in Directories
    /\ pc \in [Slots -> SlotPcs]
    /\ read \in [Slots -> SUBSET Commits]
    /\ asked \in [Slots -> Commits]
    /\ alone \in [Slots -> BOOLEAN]
    /\ hurt \in BOOLEAN
    /\ faults \in 0..MaxFaults

\* A whole clone has a head, and there are no locks without a clone.
Sane(d) ==
    /\ d.git = "whole" => d.ref \in Commits
    /\ d.git = "none" => d.locks = {}

\* What a run that nothing overlaps knows before its next call, when it began
\* with the head `from' and the head is now `to'.
Knows(at, d, seen, from, to) ==
    /\ at = "fetching" => "shallow" \in d.locks
    /\ at = "reset" /\ d.git = "whole" => d.ref \in from..to
    /\ at = "resetting" => d.git = "whole" /\ d.ref \in from..to /\ "index" \in d.locks
    /\ at = "run" => \E c \in from..to : d.tree = {c}
    /\ at = "scan" => \E c \in from..to : seen = {c}

AloneKnows ==
    \A s \in Slots :
        /\ asked[s] <= origin
        /\ alone[s] =>
              /\ \A t \in Slots \ {s} : pc[t] = "idle"
              /\ Knows(pc[s], dir, read[s], asked[s], origin)

\* What is unfinished in the directory is being worked on.
InWork(d, at) ==
    /\ d.git = "cut" => \E s \in Slots : at[s] = "cloning"
    /\ "shallow" \in d.locks => \E s \in Slots : at[s] = "fetching"
    /\ "index" \in d.locks => \E s \in Slots : at[s] = "resetting"
    /\ \A s \in Slots : at[s] = "resetting" => d.git = "whole"

Inv == Types /\ Sane(dir) /\ AloneKnows /\ (~hurt => InWork(dir, pc))

(***************************************************************************)
(* The states a command leaves the directory in.                           *)
(***************************************************************************)
LEMMA FreshDirs ==
    /\ Missing \in Directories /\ Missing.git = "none" /\ Missing.locks = {}
    /\ Missing.tree = {}
    /\ Empty \in Directories /\ Empty.git = "none" /\ Empty.locks = {}
    /\ LET d == [Empty EXCEPT !.git = "cut"]
       IN  d \in Directories /\ d.git = "cut" /\ d.locks = {}
<1>1. Missing \in Directories /\ Missing.git = "none" /\ Missing.locks = {} /\ Missing.tree = {}
  BY DEF Missing, Directories
<1>2. Empty \in Directories /\ Empty.git = "none" /\ Empty.locks = {}
  BY <1>1 DEF Empty, Directories
<1>3. LET d == [Empty EXCEPT !.git = "cut"]
      IN  d \in Directories /\ d.git = "cut" /\ d.locks = {}
  BY <1>2 DEF Directories
<1>. QED
  BY <1>1, <1>2, <1>3

LEMMA DirUpdates ==
    ASSUME NEW d \in Directories, NEW locks \in SUBSET {"shallow", "index"},
           NEW ref \in Commits, NEW tree \in SUBSET Commits
    PROVE  /\ LET e == [d EXCEPT !.locks = locks]
              IN  e \in Directories /\ e.locks = locks /\ e.git = d.git
                  /\ e.ref = d.ref /\ e.tree = d.tree
           /\ LET e == [d EXCEPT !.locks = locks, !.tree = tree]
              IN  e \in Directories /\ e.locks = locks /\ e.git = d.git
                  /\ e.ref = d.ref /\ e.tree = tree
           /\ LET e == [d EXCEPT !.git = "whole", !.ref = ref]
              IN  e \in Directories /\ e.locks = d.locks /\ e.git = "whole"
                  /\ e.ref = ref /\ e.tree = d.tree
           /\ LET e == [d EXCEPT !.git = "whole", !.ref = ref, !.tree = tree]
              IN  e \in Directories /\ e.locks = d.locks /\ e.git = "whole"
                  /\ e.ref = ref /\ e.tree = tree
BY DEF Directories

(***************************************************************************)
(* One slot goes on, alone or with others.                                 *)
(***************************************************************************)
LEMMA InWorkMoves ==
    ASSUME Types, InWork(dir, pc), NEW s \in Slots, NEW next, NEW d,
           d.git = "cut" => next = "cloning" \/ (dir.git = "cut" /\ pc[s] # "cloning"),
           "shallow" \in d.locks =>
               next = "fetching" \/ ("shallow" \in dir.locks /\ pc[s] # "fetching"),
           "index" \in d.locks =>
               next = "resetting" \/ ("index" \in dir.locks /\ pc[s] # "resetting"),
           next = "resetting" => d.git = "whole",
           d.git = "whole" \/ dir.git # "whole" \/ ~Busy(s)
    PROVE  InWork(d, [pc EXCEPT ![s] = next])
<1>. DEFINE at == [pc EXCEPT ![s] = next]
<1>1. at[s] = next /\ \A t \in Slots \ {s} : at[t] = pc[t]
  BY DEF Types
<1>. HIDE DEF at
<1>2. d.git = "cut" => \E t \in Slots : at[t] = "cloning"
  BY <1>1 DEF InWork
<1>3. "shallow" \in d.locks => \E t \in Slots : at[t] = "fetching"
  BY <1>1 DEF InWork
<1>4. "index" \in d.locks => \E t \in Slots : at[t] = "resetting"
  BY <1>1 DEF InWork
<1>5. ASSUME NEW t \in Slots, at[t] = "resetting" PROVE d.git = "whole"
  BY <1>1, <1>5 DEF InWork, Busy, Commands
<1>. QED
  BY <1>2, <1>3, <1>4, <1>5 DEF InWork, at

LEMMA SlotMoves ==
    ASSUME Inv, NEW s \in Slots, NEW next \in SlotPcs,
           pc[s] # "idle", Goto(s, next), UNCHANGED <<origin, history>>,
           dir' \in Directories, Sane(dir'), read' \in [Slots -> SUBSET Commits],
           hurt' \in BOOLEAN, faults' \in 0..MaxFaults,
           alone[s] => Knows(next, dir', read'[s], asked[s], origin),
           ~hurt' => InWork(dir', pc')
    PROVE  Inv'
<1>1. Types'
  BY DEF Inv, Types, Goto, history
<1>2. Sane(dir)'
  BY DEF Sane
<1>3. pc'[s] = next /\ UNCHANGED <<origin, asked, alone>>
  BY DEF Inv, Types, Goto, history
<1>4. ASSUME NEW t \in Slots, alone[t]
      PROVE  t = s
  BY <1>4 DEF Inv, AloneKnows
<1>5. ASSUME NEW t \in Slots \ {s}, alone[s]
      PROVE  pc'[t] = "idle"
  BY <1>5 DEF Inv, Types, AloneKnows, Goto
<1>6. alone[s] => Knows(pc[s], dir, read[s], asked[s], origin)'
  BY <1>3 DEF Knows
<1>7. AloneKnows'
  BY <1>3, <1>4, <1>5, <1>6 DEF Inv, AloneKnows
<1>8. (~hurt => InWork(dir, pc))'
  BY DEF InWork
<1>. QED
  BY <1>1, <1>2, <1>7, <1>8 DEF Inv

\* A call that leaves the directory alone and starts no command.
LEMMA QuietMove ==
    ASSUME Inv, NEW s \in Slots, NEW next \in SlotPcs \ Commands,
           pc[s] \notin Commands, Goto(s, next), dir' = dir, UNCHANGED hurt
    PROVE  ~hurt' => InWork(dir', pc')
<1>1. ASSUME ~hurt PROVE InWork(dir, [pc EXCEPT ![s] = next])
  <2>1. Types /\ InWork(dir, pc)
    BY <1>1 DEF Inv
  <2>. QED
    BY <2>1, InWorkMoves DEF Commands
<1>. QED
  BY <1>1 DEF Goto

LEMMA ReadTypes ==
    ASSUME Inv, NEW d \in Directories, Change(d)
    PROVE  dir' = d /\ read' \in [Slots -> SUBSET Commits]
<1>1. d.tree \subseteq Commits
  BY DEF Directories
<1>. QED
  BY <1>1 DEF Change, Inv, Types

LEMMA Parts ==
    ASSUME Inv
    PROVE  /\ dir \in Directories /\ Sane(dir) /\ origin \in Commits
           /\ read \in [Slots -> SUBSET Commits] /\ hurt \in BOOLEAN
           /\ faults \in 0..MaxFaults /\ Types
           /\ ~hurt => InWork(dir, pc)
           /\ \A s \in Slots :
                 /\ asked[s] \in Commits /\ asked[s] <= origin
                 /\ alone[s] => Knows(pc[s], dir, read[s], asked[s], origin)
                 /\ alone[s] => ~InUse(s)
                 /\ ~InUse(s) => ~Busy(s)
BY DEF Inv, Types, AloneKnows, InUse, Busy, Commands

LEMMA Faults == ASSUME Inv, Fault PROVE faults' \in 0..MaxFaults
BY CheckoutParameters DEF Inv, Types, Fault

LEMMA LookSteps ==
    ASSUME Inv, NEW s \in Slots, Look(s) \/ LookDeeper(s)
    PROVE  Inv'
<1>1. \E next \in {"fetch", "exists", "remove", "clone"} : Goto(s, next)
  BY DEF Look, LookDeeper
<1>2. PICK next \in {"fetch", "exists", "remove", "clone"} : Goto(s, next)
  BY <1>1
<1>3. /\ pc[s] \in {"look", "exists"}
      /\ UNCHANGED <<origin, dir, read, history, hurt, faults>>
  BY DEF Look, LookDeeper
<1>4. next \in SlotPcs \ Commands /\ pc[s] \notin Commands
  BY <1>2, <1>3 DEF SlotPcs, Commands
<1>5. ~hurt' => InWork(dir', pc')
  BY <1>2, <1>3, <1>4, QuietMove
<1>6. Knows(next, dir', read'[s], asked[s], origin)
  BY <1>2 DEF Knows
<1>. QED
  BY <1>2, <1>3, <1>4, <1>5, <1>6, Parts, SlotMoves

LEMMA RemoveStep ==
    ASSUME Inv, NEW s \in Slots, Remove(s)
    PROVE  Inv'
<1>1. PICK d \in {Missing, Empty, [Empty EXCEPT !.git = "cut"]},
           next \in {"clone", "idle"} :
         /\ Change(d) /\ Goto(s, next)
         /\ d.git = "cut" => Busy(s)
  BY FreshDirs DEF Remove, Raise
<1>2. d \in Directories /\ d.git \in {"none", "cut"} /\ d.locks = {}
  BY FreshDirs
<1>3. pc[s] = "remove" /\ hurt' = (hurt \/ InUse(s)) /\ UNCHANGED <<origin, history, faults>>
  BY DEF Remove
<1>4. dir' = d /\ read' \in [Slots -> SUBSET Commits]
  BY <1>1, <1>2, ReadTypes
<1>5. ASSUME ~hurt' PROVE InWork(d, pc')
  <2>1. ~hurt /\ ~InUse(s) /\ ~Busy(s)
    BY <1>3, <1>5, Parts
  <2>2. InWork(d, [pc EXCEPT ![s] = next])
    BY <1>1, <1>2, <2>1, Parts, InWorkMoves
  <2>. QED
    BY <1>1, <2>2 DEF Goto
<1>6. Knows(next, d, read'[s], asked[s], origin)
  BY <1>1 DEF Knows
<1>7. Sane(d) /\ next \in SlotPcs /\ hurt' \in BOOLEAN
  BY <1>1, <1>2, <1>3 DEF Sane, SlotPcs
<1>. QED
  BY <1>1, <1>2, <1>3, <1>4, <1>5, <1>6, <1>7, Parts, SlotMoves

\* A call that raises and leaves the directory alone.
LEMMA RaiseStep ==
    ASSUME Inv, NEW s \in Slots, pc[s] \notin Commands \cup {"idle"}, Raise(s), Unchanged,
           UNCHANGED <<origin, history, hurt, faults>>
    PROVE  Inv'
<1>1. "idle" \in SlotPcs \ Commands /\ pc[s] \notin Commands
      /\ Goto(s, "idle") /\ dir' = dir /\ read' = read
  BY DEF SlotPcs, Commands, Raise, Unchanged
<1>2. ~hurt' => InWork(dir', pc')
  BY <1>1, QuietMove
<1>3. Knows("idle", dir', read'[s], asked[s], origin)
  BY DEF Knows
<1>. QED
  BY <1>1, <1>2, <1>3, Parts, SlotMoves

LEMMA CloneStartStep ==
    ASSUME Inv, NEW s \in Slots, CloneStart(s)
    PROVE  Inv'
<1>1. pc[s] = "clone" /\ UNCHANGED <<origin, history, hurt, faults>>
  BY DEF CloneStart
<1>2. CASE Unchanged /\ Raise(s)
  BY <1>1, <1>2, RaiseStep DEF Commands
<1>3. CASE /\ dir.git = "none"
           /\ Change([Empty EXCEPT !.git = "cut"]) /\ Goto(s, "cloning")
  <2>. DEFINE d == [Empty EXCEPT !.git = "cut"]
  <2>1. d \in Directories /\ d.git = "cut" /\ d.locks = {}
    BY FreshDirs
  <2>2. Change(d)
    BY <1>3
  <2>. HIDE DEF d
  <2>3. dir' = d /\ read' \in [Slots -> SUBSET Commits]
    BY <2>1, <2>2, ReadTypes
  <2>4. ASSUME ~hurt PROVE InWork(d, [pc EXCEPT ![s] = "cloning"])
    BY <1>3, <2>1, <2>4, Parts, InWorkMoves
  <2>5. ~hurt' => InWork(dir', pc')
    BY <1>1, <1>3, <2>3, <2>4 DEF Goto
  <2>6. Sane(d) /\ "cloning" \in SlotPcs /\ Knows("cloning", d, read'[s], asked[s], origin)
    BY <2>1 DEF Sane, SlotPcs, Commands, Knows
  <2>. QED
    BY <1>1, <1>3, <2>1, <2>3, <2>5, <2>6, Parts, SlotMoves
<1>. QED
  BY <1>2, <1>3 DEF CloneStart

LEMMA CloneEndStep ==
    ASSUME Inv, NEW s \in Slots, CloneEnd(s)
    PROVE  Inv'
<1>1. pc[s] = "cloning" /\ UNCHANGED <<origin, history>>
  BY DEF CloneEnd
<1>2. CASE /\ dir.git # "none"
           /\ Change([dir EXCEPT !.git = "whole", !.ref = origin, !.tree = {origin}])
           /\ Goto(s, "run")
           /\ UNCHANGED <<hurt, faults>>
  <2>. DEFINE d == [dir EXCEPT !.git = "whole", !.ref = origin, !.tree = {origin}]
  <2>1. /\ d \in Directories /\ d.locks = dir.locks /\ d.git = "whole"
        /\ d.ref = origin /\ d.tree = {origin} /\ origin \in Commits
    BY Parts DEF Directories
  <2>2. Change(d)
    BY <1>2
  <2>. HIDE DEF d
  <2>3. dir' = d /\ read' \in [Slots -> SUBSET Commits]
    BY <2>1, <2>2, ReadTypes
  <2>4. ASSUME ~hurt PROVE InWork(d, [pc EXCEPT ![s] = "run"])
    BY <1>1, <2>1, <2>4, Parts, InWorkMoves
  <2>5. ~hurt' => InWork(dir', pc')
    BY <1>2, <2>3, <2>4 DEF Goto
  <2>6. origin \in asked[s]..origin
    BY Parts DEF Commands, Commits
  <2>7. Sane(d) /\ "run" \in SlotPcs /\ Knows("run", d, read'[s], asked[s], origin)
    BY <2>1, <2>6 DEF Sane, SlotPcs, Knows
  <2>. QED
    BY <1>1, <1>2, <2>1, <2>3, <2>5, <2>7, Parts, SlotMoves
<1>3. CASE /\ IF Busy(s) \/ dir.git = "none" THEN UNCHANGED faults ELSE Fault
           /\ Change(IF Mounted THEN Empty ELSE Missing)
           /\ Raise(s)
           /\ hurt' = (hurt \/ InUse(s))
  <2>1. PICK d \in {Empty, Missing} : Change(d)
    BY <1>3
  <2>2. d \in Directories /\ d.git = "none" /\ d.locks = {}
    BY FreshDirs
  <2>3. dir' = d /\ read' \in [Slots -> SUBSET Commits]
    BY <2>1, <2>2, ReadTypes
  <2>4. ASSUME ~hurt' PROVE InWork(d, pc')
    <3>1. ~hurt /\ ~Busy(s)
      BY <1>3, <2>4, Parts
    <3>2. InWork(d, [pc EXCEPT ![s] = "idle"])
      BY <2>2, <3>1, Parts, InWorkMoves
    <3>. QED
      BY <1>3, <3>2 DEF Goto, Raise
  <2>5. faults' \in 0..MaxFaults /\ hurt' \in BOOLEAN
    BY <1>3, Parts, Faults
  <2>6. Sane(d) /\ "idle" \in SlotPcs /\ Knows("idle", d, read'[s], asked[s], origin)
    BY <2>2 DEF Sane, SlotPcs, Knows
  <2>. QED
    BY <1>1, <1>3, <2>2, <2>3, <2>4, <2>5, <2>6, Parts, SlotMoves DEF Raise
<1>. QED
  BY <1>2, <1>3 DEF CloneEnd

LEMMA FetchStartStep ==
    ASSUME Inv, NEW s \in Slots, FetchStart(s)
    PROVE  Inv'
<1>1. pc[s] = "fetch" /\ UNCHANGED <<origin, history, hurt, faults>>
  BY DEF FetchStart
<1>2. CASE Unchanged /\ Raise(s)
  BY <1>1, <1>2, RaiseStep DEF Commands
<1>3. CASE /\ dir.git # "none"
           /\ Change([dir EXCEPT !.locks = @ \cup {"shallow"}]) /\ Goto(s, "fetching")
  <2>. DEFINE d == [dir EXCEPT !.locks = @ \cup {"shallow"}]
  <2>1. /\ d \in Directories /\ d.locks = dir.locks \cup {"shallow"}
        /\ d.git = dir.git /\ d.ref = dir.ref
    BY Parts DEF Directories
  <2>2. Change(d)
    BY <1>3
  <2>. HIDE DEF d
  <2>3. dir' = d /\ read' \in [Slots -> SUBSET Commits]
    BY <2>1, <2>2, ReadTypes
  <2>4. ASSUME ~hurt PROVE InWork(d, [pc EXCEPT ![s] = "fetching"])
    BY <1>1, <2>1, <2>4, Parts, InWorkMoves
  <2>5. ~hurt' => InWork(dir', pc')
    BY <1>1, <1>3, <2>3, <2>4 DEF Goto
  <2>6. Sane(d) /\ "fetching" \in SlotPcs /\ Knows("fetching", d, read'[s], asked[s], origin)
    BY <1>3, <2>1, Parts DEF Sane, SlotPcs, Commands, Knows
  <2>. QED
    BY <1>1, <1>3, <2>1, <2>3, <2>5, <2>6, Parts, SlotMoves
<1>. QED
  BY <1>2, <1>3 DEF FetchStart

\* A fetch that is over has given its lock back.
LEMMA FetchLeaves ==
    ASSUME Inv, NEW s \in Slots, NEW d \in Directories, NEW next \in {"reset", "idle"},
           pc[s] = "fetching", Goto(s, next), UNCHANGED <<origin, history, hurt>>,
           faults' \in 0..MaxFaults,
           dir' = d, read' \in [Slots -> SUBSET Commits],
           d.locks = dir.locks \ {"shallow"},
           \/ d.git = dir.git /\ d.ref = dir.ref
           \/ d.git = "whole" /\ d.ref = origin,
           next = "reset" => d.git = "cut" \/ d.ref = origin
    PROVE  Inv'
<1>1. ASSUME ~hurt PROVE InWork(d, [pc EXCEPT ![s] = next])
  BY <1>1, Parts, InWorkMoves
<1>2. ~hurt' => InWork(dir', pc')
  BY <1>1 DEF Goto
<1>3. origin \in asked[s]..origin
  BY Parts DEF Commits
<1>4. Sane(d) /\ next \in SlotPcs /\ Knows(next, d, read'[s], asked[s], origin)
  BY <1>3, Parts DEF Sane, SlotPcs, Knows
<1>. QED
  BY <1>2, <1>4, Parts, SlotMoves

LEMMA FetchEndStep ==
    ASSUME Inv, NEW s \in Slots, FetchEnd(s)
    PROVE  Inv'
<1>. DEFINE unlocked == [dir EXCEPT !.locks = @ \ {"shallow"}]
            fetched  == [unlocked EXCEPT !.git = "whole", !.ref = origin]
<1>1. pc[s] = "fetching" /\ UNCHANGED <<origin, history, hurt>>
  BY DEF FetchEnd
<1>2. /\ unlocked \in Directories /\ unlocked.locks = dir.locks \ {"shallow"}
      /\ unlocked.git = dir.git /\ unlocked.ref = dir.ref
  BY Parts DEF Directories
<1>3. /\ fetched \in Directories /\ fetched.locks = dir.locks \ {"shallow"}
      /\ fetched.git = "whole" /\ fetched.ref = origin
  BY <1>2, Parts DEF Directories
<1>4. \/ dir.git # "none" /\ Change(fetched) /\ Goto(s, "reset") /\ UNCHANGED faults
      \/ dir.git = "cut" /\ Change(unlocked) /\ Goto(s, "reset") /\ UNCHANGED faults
      \/ dir.git = "none" /\ Unchanged /\ Raise(s) /\ UNCHANGED faults
      \/ Change(unlocked) /\ Raise(s) /\ Fault
  BY DEF FetchEnd
<1>. HIDE DEF unlocked, fetched
<1>5. CASE Change(fetched) /\ Goto(s, "reset") /\ UNCHANGED faults
  <2>1. dir' = fetched /\ read' \in [Slots -> SUBSET Commits]
    BY <1>3, <1>5, ReadTypes
  <2>. QED
    BY <1>1, <1>3, <1>5, <2>1, Parts, FetchLeaves
<1>6. CASE dir.git = "cut" /\ Change(unlocked) /\ Goto(s, "reset") /\ UNCHANGED faults
  <2>1. dir' = unlocked /\ read' \in [Slots -> SUBSET Commits]
    BY <1>2, <1>6, ReadTypes
  <2>. QED
    BY <1>1, <1>2, <1>6, <2>1, Parts, FetchLeaves
<1>7. CASE dir.git = "none" /\ Unchanged /\ Raise(s) /\ UNCHANGED faults
  <2>1. dir' = dir /\ read' = read /\ Goto(s, "idle") /\ dir.locks = dir.locks \ {"shallow"}
    BY <1>7, Parts DEF Unchanged, Raise, Sane
  <2>. QED
    BY <1>1, <1>7, <2>1, Parts, FetchLeaves
<1>8. CASE Change(unlocked) /\ Raise(s) /\ Fault
  <2>1. dir' = unlocked /\ read' \in [Slots -> SUBSET Commits] /\ faults' \in 0..MaxFaults
    BY <1>2, <1>8, ReadTypes, Faults
  <2>. QED
    BY <1>1, <1>2, <1>8, <2>1, Parts, FetchLeaves DEF Raise
<1>. QED
  BY <1>4, <1>5, <1>6, <1>7, <1>8

LEMMA ResetStartStep ==
    ASSUME Inv, NEW s \in Slots, ResetStart(s)
    PROVE  Inv'
<1>1. pc[s] = "reset" /\ UNCHANGED <<origin, history, hurt, faults>>
  BY DEF ResetStart
<1>2. CASE Unchanged /\ Raise(s)
  BY <1>1, <1>2, RaiseStep DEF Commands
<1>3. CASE /\ dir.git = "whole"
           /\ Change([dir EXCEPT !.locks = @ \cup {"index"}, !.tree = @ \cup {dir.ref}])
           /\ Goto(s, "resetting")
  <2>. DEFINE d == [dir EXCEPT !.locks = @ \cup {"index"}, !.tree = @ \cup {dir.ref}]
  <2>1. /\ d \in Directories /\ d.locks = dir.locks \cup {"index"}
        /\ d.git = "whole" /\ d.ref = dir.ref
    BY <1>3, Parts DEF Directories, Sane
  <2>2. Change(d)
    BY <1>3
  <2>. HIDE DEF d
  <2>3. dir' = d /\ read' \in [Slots -> SUBSET Commits]
    BY <2>1, <2>2, ReadTypes
  <2>4. ASSUME ~hurt PROVE InWork(d, [pc EXCEPT ![s] = "resetting"])
    BY <1>1, <2>1, <2>4, Parts, InWorkMoves
  <2>5. ~hurt' => InWork(dir', pc')
    BY <1>1, <1>3, <2>3, <2>4 DEF Goto
  <2>6. alone[s] => Knows("resetting", d, read'[s], asked[s], origin)
    BY <1>1, <1>3, <2>1, Parts DEF Knows
  <2>7. Sane(d) /\ "resetting" \in SlotPcs
    BY <1>3, <2>1, Parts DEF Sane, SlotPcs, Commands
  <2>. QED
    BY <1>1, <1>3, <2>1, <2>3, <2>5, <2>6, <2>7, Parts, SlotMoves
<1>. QED
  BY <1>2, <1>3 DEF ResetStart

LEMMA ResetEndStep ==
    ASSUME Inv, NEW s \in Slots, ResetEnd(s)
    PROVE  Inv'
<1>1. pc[s] = "resetting" /\ UNCHANGED <<origin, history, hurt, faults>>
  BY DEF ResetEnd
<1>2. CASE dir.git # "whole" /\ Unchanged /\ Raise(s)
  <2>1. dir' = dir /\ read' = read /\ Goto(s, "idle")
    BY <1>2 DEF Unchanged, Raise
  <2>2. hurt
    BY <1>1, <1>2, Parts DEF InWork
  <2>3. "idle" \in SlotPcs /\ Knows("idle", dir, read'[s], asked[s], origin)
    BY DEF SlotPcs, Knows
  <2>. QED
    BY <1>1, <2>1, <2>2, <2>3, Parts, SlotMoves
<1>3. CASE /\ dir.git = "whole"
           /\ Change([dir EXCEPT !.locks = @ \ {"index"}, !.tree = {dir.ref}])
           /\ Goto(s, "run")
  <2>. DEFINE d == [dir EXCEPT !.locks = @ \ {"index"}, !.tree = {dir.ref}]
  <2>1. /\ d \in Directories /\ d.locks = dir.locks \ {"index"}
        /\ d.git = "whole" /\ d.ref = dir.ref /\ d.tree = {dir.ref}
    BY <1>3, Parts DEF Directories, Sane
  <2>2. Change(d)
    BY <1>3
  <2>. HIDE DEF d
  <2>3. dir' = d /\ read' \in [Slots -> SUBSET Commits]
    BY <2>1, <2>2, ReadTypes
  <2>4. ASSUME ~hurt PROVE InWork(d, [pc EXCEPT ![s] = "run"])
    BY <1>1, <2>1, <2>4, Parts, InWorkMoves
  <2>5. ~hurt' => InWork(dir', pc')
    BY <1>1, <1>3, <2>3, <2>4 DEF Goto
  <2>6. alone[s] => Knows("run", d, read'[s], asked[s], origin)
    BY <1>1, <2>1, Parts DEF Knows
  <2>7. Sane(d) /\ "run" \in SlotPcs
    BY <1>3, <2>1, Parts DEF Sane, SlotPcs
  <2>. QED
    BY <1>1, <1>3, <2>1, <2>3, <2>5, <2>6, <2>7, Parts, SlotMoves
<1>. QED
  BY <1>2, <1>3 DEF ResetEnd

LEMMA ScanStartStep ==
    ASSUME Inv, NEW s \in Slots, ScanStart(s)
    PROVE  Inv'
<1>1. pc[s] = "run" /\ UNCHANGED <<origin, dir, history, hurt, faults>>
  BY DEF ScanStart
<1>2. CASE Raise(s) /\ UNCHANGED read
  BY <1>1, <1>2, RaiseStep DEF Commands, Unchanged
<1>3. CASE Goto(s, "scan") /\ read' = [read EXCEPT ![s] = dir.tree]
  <2>1. read' \in [Slots -> SUBSET Commits] /\ read'[s] = dir.tree
    BY <1>3, Parts DEF Directories
  <2>2. ~hurt' => InWork(dir', pc')
    BY <1>1, <1>3, QuietMove DEF SlotPcs, Commands
  <2>3. alone[s] => Knows("scan", dir, read'[s], asked[s], origin)
    BY <1>1, <2>1, Parts DEF Knows
  <2>. QED
    BY <1>1, <1>3, <2>1, <2>2, <2>3, Parts, SlotMoves DEF SlotPcs
<1>. QED
  BY <1>2, <1>3 DEF ScanStart

LEMMA ScanEndStep ==
    ASSUME Inv, NEW s \in Slots, ScanEnd(s)
    PROVE  Inv'
<1>1. /\ pc[s] = "scan" /\ UNCHANGED <<origin, dir, history, hurt>>
      /\ Goto(s, "idle") /\ read' = [read EXCEPT ![s] = {}]
  BY DEF ScanEnd
<1>2. read' \in [Slots -> SUBSET Commits] /\ faults' \in 0..MaxFaults
  BY <1>1, Parts, Faults DEF ScanEnd
<1>3. ~hurt' => InWork(dir', pc')
  BY <1>1, QuietMove DEF SlotPcs, Commands
<1>4. Knows("idle", dir, read'[s], asked[s], origin) /\ "idle" \in SlotPcs
  BY DEF Knows, SlotPcs
<1>. QED
  BY <1>1, <1>2, <1>3, <1>4, Parts, SlotMoves

LEMMA KillStep ==
    ASSUME Inv, NEW s \in Slots, Kill(s)
    PROVE  Inv'
<1>1. /\ pc[s] # "idle" /\ UNCHANGED <<origin, dir, history>>
      /\ Goto(s, "idle") /\ read' = [read EXCEPT ![s] = {}]
      /\ hurt' = (hurt \/ pc[s] \in Commands)
  BY DEF Kill, Raise
<1>2. /\ read' \in [Slots -> SUBSET Commits] /\ faults' \in 0..MaxFaults
      /\ hurt' \in BOOLEAN
  BY <1>1, Parts, Faults DEF Kill
<1>3. ASSUME ~hurt' PROVE InWork(dir', pc')
  <2>1. pc[s] \notin Commands /\ ~hurt /\ UNCHANGED hurt
    BY <1>1, <1>3, Parts
  <2>. QED
    BY <1>1, <1>3, <2>1, QuietMove DEF SlotPcs, Commands
<1>4. Knows("idle", dir, read'[s], asked[s], origin) /\ "idle" \in SlotPcs
  BY DEF Knows, SlotPcs
<1>. QED
  BY <1>1, <1>2, <1>3, <1>4, Parts, SlotMoves

\* A run that begins while another is under way ends the other's being alone.
LEMMA BeginStep ==
    ASSUME Inv, NEW s \in Slots, Begin(s)
    PROVE  Inv'
<1>1. /\ pc[s] = "idle" /\ pc' = [pc EXCEPT ![s] = "look"]
      /\ asked' = [asked EXCEPT ![s] = origin]
      /\ alone' = [t \in Slots |-> t = s /\ \A u \in Slots : pc[u] = "idle"]
      /\ UNCHANGED <<origin, dir, read, hurt, faults>>
  BY DEF Begin, Goto
<1>2. pc'[s] = "look" /\ asked'[s] = origin /\ origin \in Commits
      /\ \A t \in Slots \ {s} : pc'[t] = pc[t] /\ asked'[t] = asked[t]
  BY <1>1 DEF Inv, Types
<1>3. pc' \in [Slots -> SlotPcs] /\ asked' \in [Slots -> Commits]
  BY <1>1 DEF Inv, Types, SlotPcs
<1>4. alone' \in [Slots -> BOOLEAN]
  BY <1>1
<1>5. Types'
  BY <1>1, <1>3, <1>4 DEF Inv, Types
<1>6. ASSUME NEW t \in Slots, alone'[t]
      PROVE  t = s /\ \A u \in Slots \ {s} : pc'[u] = "idle"
  BY <1>1, <1>2, <1>6
<1>7. Knows("look", dir, read[s], origin, origin)
  BY DEF Knows
<1>8. \A t \in Slots : asked'[t] <= origin
  BY <1>2, Parts DEF Commits
<1>9. AloneKnows'
  BY <1>1, <1>2, <1>6, <1>7, <1>8 DEF AloneKnows
<1>10. ASSUME ~hurt' PROVE InWork(dir', pc')
  <2>1. Goto(s, "look") /\ pc[s] \notin Commands
    BY <1>1 DEF Goto, Commands
  <2>. QED
    BY <1>1, <1>10, <2>1, QuietMove DEF SlotPcs, Commands
<1>. QED
  BY <1>1, <1>5, <1>9, <1>10 DEF Inv, Sane

LEMMA PushStep ==
    ASSUME Inv, Push
    PROVE  Inv'
<1>1. /\ origin \in Nat /\ origin' = origin + 1 /\ origin' \in Commits
      /\ UNCHANGED <<dir, pc, read, asked, alone, hurt, faults>>
  BY CheckoutParameters DEF Push, Inv, Types, Commits, history
<1>2. Types'
  BY <1>1 DEF Inv, Types
<1>3. ASSUME NEW s \in Slots
      PROVE  /\ asked[s] \in Nat /\ asked[s] <= origin'
             /\ alone[s] => Knows(pc[s], dir, read[s], asked[s], origin')
  <2>1. asked[s] \in Nat /\ asked[s] <= origin
    BY Parts DEF Commits
  <2>2. \A c \in asked[s]..origin : c \in asked[s]..origin'
    BY <1>1, <2>1
  <2>. QED
    BY <1>1, <2>1, <2>2, Parts DEF Knows
<1>4. AloneKnows'
  BY <1>1, <1>3 DEF Inv, AloneKnows
<1>5. (~hurt => InWork(dir, pc))' /\ Sane(dir)'
  BY <1>1, Parts DEF InWork, Sane
<1>. QED
  BY <1>2, <1>4, <1>5 DEF Inv

LEMMA InvInit == Init => Inv
<1>. SUFFICES ASSUME Init PROVE Inv
  OBVIOUS
<1>1. 1 \in Commits /\ 0 \in 0..MaxFaults
  BY CheckoutParameters DEF Commits
<1>2. dir \in Directories /\ dir.git = "none" /\ dir.locks = {}
  BY FreshDirs DEF Init
<1>3. Types
  BY <1>1, <1>2 DEF Init, Types, SlotPcs
<1>4. \A s \in Slots : asked[s] = 1 /\ ~alone[s] /\ pc[s] = "idle"
  BY DEF Init
<1>5. AloneKnows
  BY <1>4 DEF Init, AloneKnows
<1>6. Sane(dir) /\ InWork(dir, pc)
  BY <1>2, <1>4 DEF Sane, InWork
<1>. QED
  BY <1>3, <1>5, <1>6 DEF Inv

LEMMA InvStep == Inv /\ [Next]_vars => Inv'
<1>. SUFFICES ASSUME Inv, [Next]_vars PROVE Inv'
  OBVIOUS
<1>1. CASE UNCHANGED vars
  BY <1>1 DEF vars, history, Inv, Types, Sane, AloneKnows, Knows, InWork
<1>2. CASE Push
  BY <1>2, PushStep
<1>3. ASSUME NEW s \in Slots, Begin(s) \/ Kill(s) PROVE Inv'
  BY <1>3, BeginStep, KillStep
<1>4. ASSUME NEW s \in Slots, Step(s) PROVE Inv'
  BY <1>4, LookSteps, RemoveStep, CloneStartStep, CloneEndStep, FetchStartStep,
     FetchEndStep, ResetStartStep, ResetEndStep, ScanStartStep, ScanEndStep DEF Step
<1>. QED
  BY <1>1, <1>2, <1>3, <1>4 DEF Next

LEMMA InvAlways == Spec => []Inv
BY InvInit, InvStep, PTL DEF Spec

\* The checkout's variables keep their types, and the command of a run that is
\* alone holds its lock.
THEOREM CheckoutTypeCorrect == Spec => []TypeOK
<1>1. Inv => TypeOK
  BY DEF Inv, Types, TypeOK, AloneKnows, Knows
<1>. QED
  BY <1>1, InvAlways, PTL

\* A scan whose run nothing overlapped sees the files of one commit, pushed no
\* earlier than the head the run began with.
THEOREM LoneScanIsOfOneHead == Spec => []ScanIsOfOneHead
<1>1. Inv => ScanIsOfOneHead
  BY DEF Inv, AloneKnows, Knows, ScanIsOfOneHead
<1>. QED
  BY <1>1, InvAlways, PTL

\* Unless a command was killed or a checkout in use removed, the directory is
\* whole or to be cloned into, and unlocked, whenever no run is under way.
THEOREM AlwaysLeftUsable == Spec => []LeftUsable
<1>1. Inv => LeftUsable
  <2>. SUFFICES ASSUME Inv, \A s \in Slots : pc[s] = "idle", ~hurt
                PROVE  dir.git # "cut" /\ dir.locks = {}
    BY DEF LeftUsable
  <2>1. dir.git # "cut" /\ "shallow" \notin dir.locks /\ "index" \notin dir.locks
    BY Parts DEF InWork
  <2>2. dir.locks \subseteq {"shallow", "index"}
    BY Parts DEF Directories
  <2>. QED
    BY <2>1, <2>2
<1>. QED
  BY <1>1, InvAlways, PTL

=============================================================================
