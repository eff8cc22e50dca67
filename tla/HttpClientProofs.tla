-------------------------- MODULE HttpClientProofs --------------------------
(***************************************************************************)
(* HttpClient keeps its promises for every number of attempts, every       *)
(* backoff and every Retry-After header.  The invariants of the runs do    *)
(* not speak of the states between two attempts; Ledger does: how often    *)
(* the request may have been carried out, and how long the call may have   *)
(* taken for the waits it has had, at each control point.                  *)
(***************************************************************************)
EXTENDS HttpClient, TLAPS

\* Carried out at most once per attempt, and at most once altogether by a
\* call that only ever sends again after a refusal.
Carried ==
    /\ pc \in {"ready", "send"} => applied <= attempt
    /\ pc \in {"answered", "sleep"} => applied <= attempt + 1
    /\ ~idempotent =>
        /\ applied <= 1
        /\ pc \in {"ready", "send", "sleep"} => applied = 0
        /\ pc \in {"answered", "raised"} /\ answer \in {"rejected", "throttled"}
              => applied = 0

Waited(n) == n * Timeout

Slept(n) == n * Cap

\* A wait costs at most Timeout, a sleep at most Cap, and there is one sleep
\* between two attempts.
Spent ==
    /\ pc = "ready" => attempt = 0 /\ waits = 0 /\ elapsed = 0
    /\ pc = "send" => elapsed <= Waited(waits + attempt) + Slept(attempt)
    /\ pc \in {"answered", "sleep"}
          => elapsed <= Waited(waits + attempt + 1) + Slept(attempt)
    /\ pc = "sleep" => attempt < Attempts - 1 /\ delay <= Cap
    /\ pc \in {"returned", "raised"}
          => elapsed <= Waited(waits + attempt + 1) + Slept(Attempts - 1)

Ledger == TypeOK /\ Carried /\ Spent

-----------------------------------------------------------------------------

\* max(1, ...) leaves at least one attempt, whatever is configured.
LEMMA AttemptsPositive == Attempts \in Nat /\ Attempts >= 1
BY HttpParameters DEF Attempts

\* Nothing costs nothing, and one more wait or sleep costs one more.
LEMMA Costs ==
    /\ Waited(0) = 0 /\ Slept(0) = 0
    /\ \A n \in Nat : /\ Waited(n) \in Nat /\ Waited(n + 1) = Waited(n) + Timeout
                      /\ Slept(n) \in Nat /\ Slept(n + 1) = Slept(n) + Cap
<1>1. Timeout \in Nat /\ Cap \in Nat
    BY HttpParameters
<1> SUFFICES ASSUME NEW n \in Nat
             PROVE  /\ n * Timeout \in Nat /\ (n + 1) * Timeout = n * Timeout + Timeout
                    /\ n * Cap \in Nat /\ (n + 1) * Cap = n * Cap + Cap
    BY <1>1 DEF Waited, Slept
<1> QED BY <1>1

\* Fewer sleeps cost less.
LEMMA SleepsMonotone ==
    ASSUME NEW a \in Nat, NEW b \in Nat, a <= b
    PROVE  Slept(a) <= Slept(b)
<1>1. Cap \in Nat
    BY HttpParameters
<1>2. b * Cap = a * Cap + (b - a) * Cap
    BY <1>1
<1>3. a * Cap \in Nat /\ (b - a) * Cap \in Nat
    BY <1>1
<1> QED BY <1>2, <1>3 DEF Slept

\* What the costs are at any point of a call.
LEMMA CostsNow ==
    ASSUME TypeOK
    PROVE  /\ Waited(waits + attempt) \in Nat
           /\ Waited(waits + attempt + 1) = Waited(waits + attempt) + Timeout
           /\ Waited(waits + attempt + 2) = Waited(waits + attempt + 1) + Timeout
           /\ Slept(attempt) \in Nat
           /\ Slept(attempt + 1) = Slept(attempt) + Cap
           /\ Slept(attempt) <= Slept(Attempts - 1)
           /\ attempt < Attempts - 1 => Slept(attempt + 1) <= Slept(Attempts - 1)
           /\ Slept(Attempts - 1) \in Nat
<1> DEFINE k == waits + attempt
<1>1. /\ attempt \in Nat /\ k \in Nat /\ k + 1 \in Nat /\ k + 2 = (k + 1) + 1
      /\ Attempts - 1 \in Nat /\ attempt <= Attempts - 1
    BY AttemptsPositive, HttpParameters DEF TypeOK
<1>2. attempt < Attempts - 1 => attempt + 1 \in Nat /\ attempt + 1 <= Attempts - 1
    BY <1>1, AttemptsPositive
<1> HIDE DEF k
<1>3. /\ Waited(k) \in Nat /\ Waited(k + 1) = Waited(k) + Timeout
      /\ Waited(k + 2) = Waited(k + 1) + Timeout
    BY <1>1, Costs
<1>4. /\ Slept(attempt) \in Nat /\ Slept(attempt + 1) = Slept(attempt) + Cap
      /\ Slept(Attempts - 1) \in Nat
    BY <1>1, Costs
<1>5. /\ Slept(attempt) <= Slept(Attempts - 1)
      /\ attempt < Attempts - 1 => Slept(attempt + 1) <= Slept(Attempts - 1)
    BY <1>1, <1>2, SleepsMonotone
<1> QED BY <1>3, <1>4, <1>5 DEF k

LEMMA LedgerInit == Init => Ledger
<1> SUFFICES ASSUME Init PROVE Ledger
    OBVIOUS
<1>1. TypeOK
    <2>1. attempt \in 0..(Attempts - 1) /\ applied \in 0..Attempts
        BY AttemptsPositive DEF Init
    <2>2. delay \in Nat /\ elapsed \in Nat /\ waits \in 0..MaxWaits
        BY HttpParameters DEF Init
    <2>3. retryAfter \in RetryAfters \cup {Absent} /\ idempotent \in BOOLEAN
        BY Zenon DEF Init
    <2> QED BY <2>1, <2>2, <2>3 DEF Init, TypeOK, Answers
<1>2. Carried
    BY DEF Init, Carried
<1>3. Spent
    BY DEF Init, Spent
<1> QED BY <1>1, <1>2, <1>3 DEF Ledger

LEMMA LedgerNext == Ledger /\ [Next]_vars => Ledger'
<1> SUFFICES ASSUME Ledger, [Next]_vars PROVE Ledger'
    OBVIOUS
<1> USE AttemptsPositive, HttpParameters
<1> TypeOK
    BY DEF Ledger
<1>1. ASSUME NEW m \in Methods, NEW i \in BOOLEAN \cup {Absent}, Request(m, i)
      PROVE  Ledger'
    <2>1. idempotent' \in BOOLEAN
        <3>1. CASE i = Absent
            BY <1>1, <3>1 DEF Request
        <3>2. CASE i # Absent
            BY <1>1, <3>2 DEF Request
        <3> QED BY <3>1, <3>2
    <2>2. elapsed = 0 /\ attempt = 0 /\ waits = 0
        BY <1>1 DEF Request, Ledger, Spent
    <2>3. TypeOK'
        BY <1>1, <2>1 DEF Request, Ledger, TypeOK
    <2>4. Carried'
        BY <1>1, <2>2 DEF Request, Ledger, TypeOK, Carried
    <2>5. Spent'
        BY <1>1, <2>2, CostsNow DEF Request, Spent
    <2> QED BY <2>3, <2>4, <2>5 DEF Ledger
<1>2. ASSUME NEW a \in Answers, NEW took \in Durations, Send(a, took)
      PROVE  Ledger'
    <2>1. PICK n \in Effects(a) : applied' = applied + n
        BY <1>2 DEF Send
    <2>2. n \in {0, 1} /\ (a \in {"rejected", "throttled"} => n = 0)
        BY <2>1 DEF Effects, Answers
    <2>3. took \in 0..Timeout
        OBVIOUS
    <2>4. TypeOK'
        BY <1>2, <2>1, <2>2, <2>3 DEF Send, Ledger, TypeOK, Carried
    <2>5. Carried'
        BY <1>2, <2>1, <2>2 DEF Send, Ledger, TypeOK, Carried
    <2>6. Spent'
        <3>1. elapsed <= Waited(waits + attempt) + Slept(attempt) /\ elapsed \in Nat
            BY <1>2 DEF Send, Ledger, Spent, TypeOK
        <3>2. elapsed + took <= Waited(waits + attempt + 1) + Slept(attempt)
            BY <2>3, <3>1, CostsNow
        <3> QED BY <1>2, <3>2 DEF Send, Spent
    <2> QED BY <2>4, <2>5, <2>6 DEF Ledger
<1>3. CASE Retry
    <2>1. delay' \in 0..Cap
        <3>1. Delays \subseteq 0..Cap
            BY DEF Ledger, TypeOK, Delays, Backoffs
        <3> QED BY <1>3, <3>1 DEF Retry
    <2>2. ~idempotent => answer = "throttled"
        BY <1>3 DEF Retry, Retryable
    <2>3. attempt < Attempts - 1
        BY <1>3 DEF Retry, Last, Ledger, TypeOK
    <2>4. TypeOK'
        BY <1>3, <2>1 DEF Retry, Ledger, TypeOK
    <2>5. Carried'
        BY <1>3, <2>2 DEF Retry, Ledger, TypeOK, Carried
    <2>6. Spent'
        BY <1>3, <2>1, <2>3 DEF Retry, Ledger, Spent
    <2> QED BY <2>4, <2>5, <2>6 DEF Ledger
<1>4. CASE Finish
    <2>1. elapsed <= Waited(waits + attempt + 1) + Slept(attempt) /\ elapsed \in Nat
        BY <1>4 DEF Finish, Ledger, Spent, TypeOK
    <2>2. elapsed <= Waited(waits + attempt + 1) + Slept(Attempts - 1)
        BY <2>1, CostsNow
    <2>3. TypeOK'
        BY <1>4 DEF Finish, Ledger, TypeOK
    <2>4. Carried'
        BY <1>4 DEF Finish, Ledger, TypeOK, Carried
    <2>5. Spent'
        BY <1>4, <2>2 DEF Finish, Spent
    <2> QED BY <2>3, <2>4, <2>5 DEF Ledger
<1>5. CASE Sleep
    <2>1. /\ elapsed <= Waited(waits + attempt + 1) + Slept(attempt)
          /\ elapsed \in Nat /\ delay \in Nat /\ delay <= Cap
        BY <1>5 DEF Sleep, Ledger, Spent, TypeOK
    <2>2. elapsed + delay <= Waited(waits + attempt + 1) + Slept(attempt + 1)
        BY <2>1, CostsNow
    <2>3. TypeOK'
        BY <1>5 DEF Sleep, Ledger, TypeOK, Spent
    <2>4. Carried'
        BY <1>5 DEF Sleep, Ledger, TypeOK, Carried
    <2>5. Spent'
        <3>1. waits + (attempt + 1) = waits + attempt + 1
            BY DEF TypeOK
        <3> QED BY <1>5, <2>2, <3>1 DEF Sleep, Spent
    <2> QED BY <2>3, <2>4, <2>5 DEF Ledger
<1>6. ASSUME NEW n \in {0, 1}, NEW took \in Durations \cup {0}, Interrupted(n, took)
      PROVE  Ledger'
    <2>1. took \in 0..Timeout
        OBVIOUS
    <2>2. elapsed + took <= Waited(waits + attempt + 1) + Slept(Attempts - 1)
        <3>1. CASE pc = "send"
            <4>1. elapsed <= Waited(waits + attempt) + Slept(attempt) /\ elapsed \in Nat
                BY <3>1 DEF Ledger, Spent, TypeOK
            <4> QED BY <2>1, <4>1, CostsNow
        <3>2. CASE pc = "answered"
            <4>1. /\ elapsed <= Waited(waits + attempt + 1) + Slept(attempt)
                  /\ elapsed \in Nat /\ took = 0
                BY <1>6, <3>2 DEF Interrupted, Ledger, Spent, TypeOK
            <4> QED BY <4>1, CostsNow
        <3>3. CASE pc = "sleep"
            <4>1. /\ elapsed <= Waited(waits + attempt + 1) + Slept(attempt)
                  /\ elapsed \in Nat /\ delay \in Nat /\ took <= delay /\ delay <= Cap
                  /\ attempt < Attempts - 1
                BY <1>6, <3>3 DEF Interrupted, Ledger, Spent, TypeOK
            <4> QED BY <2>1, <4>1, CostsNow
        <3> QED BY <1>6, <3>1, <3>2, <3>3 DEF Interrupted
    <2>3. TypeOK'
        BY <1>6, <2>1 DEF Interrupted, Ledger, TypeOK, Carried, Answers
    <2>4. Carried'
        BY <1>6 DEF Interrupted, Ledger, TypeOK, Carried
    <2>5. Spent'
        BY <1>6, <2>2 DEF Interrupted, Spent
    <2> QED BY <2>3, <2>4, <2>5 DEF Ledger
<1>7. ASSUME NEW took \in Durations, Wait(took)
      PROVE  Ledger'
    <2>1. /\ took \in 0..Timeout
          /\ elapsed <= Waited(waits + attempt) + Slept(attempt) /\ elapsed \in Nat
        BY <1>7 DEF Wait, Ledger, Spent, TypeOK
    <2>2. elapsed + took <= Waited(waits + attempt + 1) + Slept(attempt)
        BY <2>1, CostsNow
    <2>3. TypeOK'
        BY <1>7, <2>1 DEF Wait, Ledger, TypeOK
    <2>4. Carried'
        BY <1>7 DEF Wait, Ledger, TypeOK, Carried
    <2>5. Spent'
        <3>1. (waits + 1) + attempt = waits + attempt + 1
            BY DEF TypeOK
        <3> QED BY <1>7, <2>2, <3>1 DEF Wait, Spent
    <2> QED BY <2>3, <2>4, <2>5 DEF Ledger
<1>8. CASE UNCHANGED vars
    BY <1>8 DEF vars, Ledger, TypeOK, Carried, Spent
<1> QED BY <1>1, <1>2, <1>3, <1>4, <1>5, <1>6, <1>7, <1>8 DEF Next

LEMMA LedgerAlways == Spec => []Ledger
BY LedgerInit, LedgerNext, PTL DEF Spec

-----------------------------------------------------------------------------

\* request never makes more attempts than configured, and at least one.
THEOREM HttpTypeCorrect == Spec => []TypeOK
<1>1. Ledger => TypeOK
    BY DEF Ledger
<1> QED BY <1>1, LedgerAlways, PTL

\* A call that is not idempotent (create_session, create_issue,
\* post_comment) is carried out at most once, however many attempts are
\* configured, and not at all if it ends in a refusal.
THEOREM NeverAppliedTwice == Spec => []AppliedAtMostOnce
<1>1. Ledger => AppliedAtMostOnce
    BY DEF Ledger, Carried, AppliedAtMostOnce
<1> QED BY <1>1, LedgerAlways, PTL

\* Whatever the service asks for in Retry-After, and however it answers, the
\* loop adds at most (Attempts - 1) * Cap to the waits it has for the service:
\* how long a creation lease must be is for the service to say, not the loop.
THEOREM CallEndsWithItsService == Spec => []HeldOnlyWhileServed
<1>1. Ledger => HeldOnlyWhileServed
    <2> SUFFICES ASSUME Ledger
                 PROVE  elapsed <= Waited(waits + attempt + 1) + Slept(Attempts - 1)
        BY DEF HeldOnlyWhileServed, Waited, Slept
    <2> TypeOK /\ elapsed \in Nat /\ Timeout \in Nat
        BY HttpParameters DEF Ledger, TypeOK
    <2>1. CASE pc = "ready"
        BY <2>1, CostsNow DEF Ledger, Spent
    <2>2. CASE pc = "send"
        BY <2>2, CostsNow DEF Ledger, Spent
    <2>3. CASE pc \in {"answered", "sleep"}
        BY <2>3, CostsNow DEF Ledger, Spent
    <2>4. CASE pc \in {"returned", "raised"}
        BY <2>4 DEF Ledger, Spent
    <2> QED BY <2>1, <2>2, <2>3, <2>4 DEF TypeOK
<1> QED BY <1>1, LedgerAlways, PTL

=============================================================================
