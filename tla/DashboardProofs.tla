--------------------------- MODULE DashboardProofs ---------------------------
(***************************************************************************)
(* The dashboard's polling never overlaps with itself, a disposed effect   *)
(* falls silent, and the page never goes back to older rows: for every     *)
(* number of effects, requests, failures and changes of the task table.    *)
(*                                                                         *)
(* The page stays up to date because a request of the current effect has   *)
(* read the table after what is shown was read (Recent), and this is       *)
(* inductive because no effect has two requests, or a request and a timer  *)
(* (OneEach).                                                              *)
(***************************************************************************)
EXTENDS Dashboard, FiniteSetTheorems, TLAPS

Types ==
    /\ table \in 1..MaxVersions
    /\ effect \in Effects
    /\ timer \subseteq Effects
    /\ requests \subseteq Calls
    /\ shown \in 0..MaxVersions
    /\ error \in BOOLEAN
    /\ failures \in 0..MaxFailures

\* Of one effect there is a request or a timer, and never two.
OneEach ==
    \A c \in requests :
        /\ c.effect \notin timer
        /\ \A d \in requests : d.effect = c.effect => d = c

\* There is nothing of a future effect, and nothing goes on of a past one.
Present ==
    /\ timer \subseteq {effect}
    /\ \A c \in requests : /\ c.effect <= effect
                           /\ c.effect < effect => c.state \in {"answered", "rejected"}

\* What a request of the current effect has read is not older than what the
\* page shows.
Recent ==
    /\ shown <= table
    /\ \A c \in requests :
          /\ c.rows <= table
          /\ c.effect = effect /\ c.state \in {"read", "answered"} => shown <= c.rows

Inv == Types /\ OneEach /\ Present /\ Recent

LEMMA CallType ==
    ASSUME NEW e \in Effects, FreeIds # {}
    PROVE  /\ Call(e) \in Calls /\ Call(e).effect = e /\ Call(e).rows = 0
           /\ Call(e).state = "sent"
<1>. DEFINE n == CHOOSE m \in FreeIds : TRUE
<1>1. n \in 1..MaxRequests
  BY DEF FreeIds
<1>2. Call(e) = [id |-> n, effect |-> e, rows |-> 0, state |-> "sent"]
  BY DEF Call
<1>. HIDE DEF n
<1>. QED
  BY <1>1, <1>2, DashboardParameters DEF Calls, Effects

LEMMA InvInit == Init => Inv
<1>. SUFFICES ASSUME Init PROVE Inv
  OBVIOUS
<1>1. 1 \in Effects /\ 1 \in 1..MaxVersions /\ 0 \in 0..MaxVersions
      /\ 1 \in 1..MaxRequests /\ 0 \in 0..MaxFailures
  BY DashboardParameters DEF Effects
<1>. DEFINE first == [id |-> 1, effect |-> 1, rows |-> 0, state |-> "sent"]
<1>2. first \in Calls /\ first.effect = 1 /\ first.rows = 0 /\ first.state = "sent"
  BY <1>1 DEF Calls
<1>3. /\ table = 1 /\ effect = 1 /\ timer = {} /\ requests = {first} /\ shown = 0
      /\ error = FALSE /\ failures = 0
  BY DEF Init
<1>. HIDE DEF first
<1>4. Types
  BY <1>1, <1>2, <1>3 DEF Types
<1>5. OneEach
  BY <1>3 DEF OneEach
<1>6. Present /\ Recent
  BY <1>2, <1>3 DEF Present, Recent
<1>. QED
  BY <1>4, <1>5, <1>6 DEF Inv

\* A call that moves on keeps its effect, and what it has read is recent.
LEMMA CallMoves ==
    ASSUME Inv, NEW c \in requests, NEW d \in Calls,
           requests' = (requests \ {c}) \cup {d},
           d.effect = c.effect, d.rows <= table,
           d.state \in {"answered", "rejected"} \/ c.state \notin {"answered", "rejected"},
           d.state \in {"read", "answered"} => shown <= d.rows \/ d.effect # effect,
           UNCHANGED <<table, effect, timer, shown, error>>, failures' \in 0..MaxFailures
    PROVE  Inv'
<1>. c \in Calls
  BY DEF Inv, Types
<1>1. Types'
  BY DEF Inv, Types
<1>2. OneEach'
  BY DEF Inv, OneEach
<1>3. Present'
  BY DEF Inv, Present
<1>4. Recent'
  BY DEF Inv, Recent
<1>. QED
  BY <1>1, <1>2, <1>3, <1>4 DEF Inv

LEMMA CallSteps ==
    ASSUME Inv, NEW c \in requests, Read(c) \/ Resolve(c) \/ Reject(c)
    PROVE  Inv'
<1>. c \in Calls /\ table \in 0..MaxVersions /\ shown <= table /\ c.rows <= table
  BY DEF Inv, Types, Recent
<1>. failures \in 0..MaxFailures
  BY DEF Inv, Types
<1>1. CASE Read(c)
  <2>. DEFINE d == [c EXCEPT !.state = "read", !.rows = table]
  <2>1. d \in Calls /\ d.effect = c.effect /\ d.rows = table /\ d.state = "read"
    BY DEF Calls
  <2>2. /\ c.state = "sent" /\ requests' = (requests \ {c}) \cup {d}
        /\ UNCHANGED <<table, effect, timer, shown, error, failures>>
    BY <1>1 DEF Read
  <2>. HIDE DEF d
  <2>. QED
    BY <2>1, <2>2, CallMoves
<1>2. CASE Resolve(c)
  <2>. DEFINE d == [c EXCEPT !.state = "answered"]
  <2>1. d \in Calls /\ d.effect = c.effect /\ d.rows = c.rows /\ d.state = "answered"
    BY DEF Calls
  <2>2. c.effect = effect => shown <= d.rows
    BY <1>2, <2>1 DEF Resolve, Inv, Recent
  <2>. HIDE DEF d
  <2>. QED
    BY <1>2, <2>1, <2>2, CallMoves DEF Resolve, Settle, d
<1>3. CASE Reject(c)
  <2>. DEFINE d == [c EXCEPT !.state = "rejected"]
  <2>1. d \in Calls /\ d.effect = c.effect /\ d.rows = c.rows /\ d.state = "rejected"
    BY DEF Calls
  <2>2. failures' \in 0..MaxFailures
    BY <1>3, DashboardParameters DEF Reject, Fail
  <2>. HIDE DEF d
  <2>. QED
    BY <1>3, <2>1, <2>2, CallMoves DEF Reject, Settle, d
<1>. QED
  BY <1>1, <1>2, <1>3

LEMMA ContinueStep ==
    ASSUME Inv, NEW c \in requests, Continue(c)
    PROVE  Inv' /\ shown' >= shown
<1>. c \in Calls /\ requests' = requests \ {c}
  BY DEF Inv, Types, Continue
<1>1. CASE c.effect # effect
  <2>1. UNCHANGED <<table, effect, timer, shown, error, failures>>
    BY <1>1 DEF Continue
  <2>. QED
    BY <2>1 DEF Inv, Types, OneEach, Present, Recent
<1>2. CASE c.effect = effect
  <2>1. /\ shown' = IF c.state = "answered" THEN c.rows ELSE shown
        /\ error' = (c.state = "rejected") /\ timer' = timer \cup {effect}
        /\ UNCHANGED <<table, effect, failures>>
    BY <1>2 DEF Continue
  <2>2. c.rows \in 0..MaxVersions /\ c.rows <= table /\ shown' <= table /\ shown' >= shown
    BY <1>2, <2>1 DEF Inv, Types, Recent, Calls
  <2>3. \A d \in requests' : d.effect # effect
    BY <1>2 DEF Inv, OneEach
  <2>4. Types'
    BY <1>2, <2>1, <2>2 DEF Inv, Types
  <2>5. OneEach'
    BY <2>1, <2>3 DEF Inv, OneEach
  <2>6. Present' /\ Recent'
    BY <2>1, <2>2, <2>3 DEF Inv, Present, Recent
  <2>. QED
    BY <2>2, <2>4, <2>5, <2>6 DEF Inv
<1>. QED
  BY <1>1, <1>2

LEMMA TickStep ==
    ASSUME Inv, NEW e \in Effects, Tick(e)
    PROVE  Inv'
<1>. DEFINE c == Call(e)
<1>1. /\ c \in Calls /\ c.effect = e /\ c.rows = 0 /\ c.state = "sent"
  BY CallType DEF Tick
<1>2. /\ e \in timer /\ timer' = timer \ {e} /\ requests' = requests \cup {c}
      /\ UNCHANGED <<table, effect, shown, error, failures>>
  BY DEF Tick
<1>. HIDE DEF c
<1>3. \A d \in requests : d.effect # e
  BY <1>2 DEF Inv, OneEach
<1>4. e = effect /\ table \in 1..MaxVersions /\ effect \in Nat
  BY <1>2 DEF Inv, Present, Types, Effects
<1>5. Types'
  BY <1>1, <1>2 DEF Inv, Types
<1>6. OneEach'
  BY <1>1, <1>2, <1>3 DEF Inv, OneEach
<1>7. Present' /\ Recent'
  BY <1>1, <1>2, <1>4 DEF Inv, Present, Recent
<1>. QED
  BY <1>5, <1>6, <1>7 DEF Inv

LEMMA RerunStep ==
    ASSUME Inv, Rerun
    PROVE  Inv'
<1>. DEFINE aborted  == {c \in Of(effect) : c.state \in {"sent", "read"}}
            rejected == {[c EXCEPT !.state = "rejected"] : c \in aborted}
            next     == effect + 1
            first    == Call(next)
<1>1. /\ effect' = next /\ timer' = timer \ {effect}
      /\ requests' = (requests \ aborted) \cup rejected \cup {first}
      /\ UNCHANGED <<table, shown, error, failures>>
  BY DEF Rerun
<1>2. next \in Effects /\ effect \in Nat
  BY DashboardParameters DEF Rerun, Inv, Types, Effects
<1>3. first \in Calls /\ first.effect = next /\ first.rows = 0 /\ first.state = "sent"
  BY <1>2, CallType DEF Rerun
<1>4. requests \subseteq Calls /\ aborted \subseteq requests
  BY DEF Inv, Types, Of
<1>5. ASSUME NEW d \in rejected
      PROVE  /\ d \in Calls /\ d.state = "rejected" /\ d.effect = effect /\ d.rows <= table
             /\ \E c \in aborted : d = [c EXCEPT !.state = "rejected"]
  <2>1. PICK c \in aborted : d = [c EXCEPT !.state = "rejected"]
    OBVIOUS
  <2>2. c \in Calls /\ c.effect = effect /\ c.rows <= table
    BY <1>4 DEF Of, Inv, Recent
  <2>. QED
    BY <2>1, <2>2 DEF Calls
<1>6. \A c, d \in aborted : c = d
  BY DEF Inv, OneEach, Of
<1>7. \A c \in requests \ aborted : c.effect = effect => c.state \in {"answered", "rejected"}
  BY <1>4 DEF Of, Calls
<1>8. rejected # {} => \A c \in requests \ aborted : c.effect # effect
  BY <1>4 DEF Inv, OneEach, Of
<1>. HIDE DEF aborted, rejected, first
<1>9. \A c \in requests' : \/ c \in requests /\ c \notin aborted
                           \/ c \in rejected
                           \/ c = first
  BY <1>1
<1>10. Types'
  BY <1>1, <1>2, <1>3, <1>4, <1>5, <1>9 DEF Inv, Types
<1>11. timer' = {} /\ \A c \in requests : c.effect <= effect /\ c.effect \in Nat
  BY <1>1, <1>4 DEF Inv, Present, Calls, Effects
<1>12. OneEach'
  <2>. SUFFICES ASSUME NEW c \in requests', NEW d \in requests', d.effect = c.effect
                PROVE  d = c
    BY <1>11 DEF OneEach
  <2>1. CASE c = first \/ d = first
    BY <1>2, <1>3, <1>5, <1>9, <1>11, <2>1
  <2>2. CASE c \in rejected /\ d \in rejected
    BY <1>5, <1>6, <2>2
  <2>3. CASE c \in requests \ aborted /\ d \in requests \ aborted
    BY <2>3 DEF Inv, OneEach
  <2>4. CASE \/ c \in rejected /\ d \in requests \ aborted
             \/ d \in rejected /\ c \in requests \ aborted
    BY <1>5, <1>8, <2>4
  <2>. QED
    BY <1>9, <2>1, <2>2, <2>3, <2>4
<1>13. Present'
  <2>. SUFFICES ASSUME NEW c \in requests'
                PROVE  /\ c.effect <= next
                       /\ c.effect < next => c.state \in {"answered", "rejected"}
    BY <1>1, <1>11 DEF Present
  <2>1. CASE c \in requests \ aborted
    BY <1>2, <1>7, <1>11, <2>1 DEF Inv, Present
  <2>. QED
    BY <1>2, <1>3, <1>5, <1>9, <2>1
<1>14. Recent'
  <2>. table \in Nat /\ shown <= table
    BY DEF Inv, Types, Recent
  <2>. SUFFICES ASSUME NEW c \in requests'
                PROVE  /\ c.rows <= table
                       /\ c.effect = next => c.state = "sent"
    BY <1>1 DEF Recent
  <2>1. CASE c \in requests \ aborted
    BY <1>2, <1>11, <2>1 DEF Inv, Recent
  <2>. QED
    BY <1>2, <1>3, <1>5, <1>9, <2>1
<1>. QED
  BY <1>10, <1>12, <1>13, <1>14 DEF Inv

LEMMA ChangeStep ==
    ASSUME Inv, Change
    PROVE  Inv'
<1>1. table' \in 1..MaxVersions /\ table <= table' /\ table \in Nat
      /\ UNCHANGED <<effect, timer, requests, shown, error, failures>>
  BY DashboardParameters DEF Change, Inv, Types
<1>2. \A c \in requests : c.rows \in Nat
  BY DEF Inv, Types, Calls
<1>3. shown \in Nat
  BY DEF Inv, Types
<1>. QED
  BY <1>1, <1>2, <1>3 DEF Inv, Types, OneEach, Present, Recent

LEMMA InvStep == Inv /\ [Next]_vars => Inv' /\ shown' >= shown
<1>. SUFFICES ASSUME Inv, [Next]_vars PROVE Inv' /\ shown' >= shown
  OBVIOUS
<1>1. shown \in Nat
  BY DEF Inv, Types
<1>2. CASE UNCHANGED vars
  BY <1>1, <1>2 DEF vars, Inv, Types, OneEach, Present, Recent
<1>3. CASE Change \/ Rerun \/ \E e \in Effects : Tick(e)
  <2>1. UNCHANGED shown
    BY <1>3 DEF Change, Rerun, Tick
  <2>. QED
    BY <1>1, <1>3, <2>1, ChangeStep, RerunStep, TickStep
<1>4. ASSUME NEW c \in requests, Read(c) \/ Resolve(c) \/ Reject(c) \/ Continue(c)
      PROVE  Inv' /\ shown' >= shown
  <2>1. CASE Continue(c)
    BY <2>1, ContinueStep
  <2>2. CASE Read(c) \/ Resolve(c) \/ Reject(c)
    <3>1. UNCHANGED shown
      BY <2>2 DEF Read, Resolve, Reject
    <3>. QED
      BY <1>1, <2>2, <3>1, CallSteps
  <2>. QED
    BY <1>4, <2>1, <2>2
<1>. QED
  BY <1>2, <1>3, <1>4 DEF Next

LEMMA InvAlways == Spec => []Inv
BY InvInit, InvStep, PTL DEF Spec

\* Of one run of the effect there is at any time at most one request or one
\* timer, whatever is late, times out, fails or is rerun.
THEOREM DashboardTypeCorrect == Spec => []TypeOK
<1>1. Inv => TypeOK
  <2>. SUFFICES ASSUME Inv, NEW e \in Effects
                PROVE  Cardinality(Of(e)) + (IF e \in timer THEN 1 ELSE 0) <= 1
    BY DEF Inv, Types, TypeOK
  <2>1. CASE Of(e) = {}
    BY <2>1, FS_EmptySet
  <2>2. ASSUME NEW c \in Of(e)
        PROVE  Cardinality(Of(e)) + (IF e \in timer THEN 1 ELSE 0) <= 1
    <3>1. Of(e) = {c} /\ e \notin timer
      BY DEF Inv, OneEach, Of
    <3>2. Cardinality({c}) = 1
      BY FS_Singleton
    <3>. QED
      BY <3>1, <3>2
  <2>. QED
    BY <2>1, <2>2
<1>. QED
  BY <1>1, InvAlways, PTL

\* A disposed run of the effect has no timer and no request under way.
THEOREM DisposedFallsSilent == Spec => []DisposedIsSilent
<1>1. Inv => DisposedIsSilent
  BY DEF Inv, Types, Present, Effects, DisposedIsSilent, Of
<1>. QED
  BY <1>1, InvAlways, PTL

\* The page never goes back to older rows, whenever answers, timeouts and
\* reruns arrive.
THEOREM RowsOnlyAdvance == Spec => RowsNeverGoBack
<1>1. Inv /\ [Next]_vars => [shown' >= shown]_vars
  BY InvStep
<1>. QED
  BY <1>1, InvAlways, PTL DEF Spec, RowsNeverGoBack

=============================================================================
