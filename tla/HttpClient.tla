----------------------------- MODULE HttpClient -----------------------------
(***************************************************************************)
(* One call of http_client.request, the loop every GitHub and Devin call   *)
(* goes through, and the remote service it talks to.  What matters is how  *)
(* often the service carries the request out, and how long the caller      *)
(* holds on: a claim's creation lease runs meanwhile.                      *)
(*                                                                         *)
(* Time is counted in ticks.  An httpx timeout bounds one wait: for a      *)
(* connection to one address, for the next bytes to be taken or to come.   *)
(* An attempt has as many waits as the service makes of it, and no         *)
(* deadline.  After every answer the loop sleeps or ends.                  *)
(***************************************************************************)
EXTENDS Integers

CONSTANTS
    MaxAttempts,    \* HTTP_MAX_ATTEMPTS, or max_attempts: any integer
    Base,           \* HTTP_BACKOFF_BASE_SECONDS
    Cap,            \* HTTP_BACKOFF_CAP_SECONDS
    Timeout,        \* the longest wait: an httpx timeout, or a name lookup
    Durations,      \* how long a wait may take
    MaxWaits,       \* bound on waits that leave an attempt unfinished
    RetryAfters,    \* values of a Retry-After header, in ticks
    Absent          \* no argument, no header

ASSUME HttpParameters ==
    /\ MaxAttempts \in Int
    /\ Base \in Nat /\ Cap \in Nat /\ Timeout \in Nat
    /\ Durations \subseteq 0..Timeout
    /\ MaxWaits \in Nat
    /\ RetryAfters \subseteq Nat
    /\ Absent \notin Nat /\ Absent \notin BOOLEAN

Attempts == IF MaxAttempts < 1 THEN 1 ELSE MaxAttempts

Methods == {"GET", "DELETE", "POST"}

IdempotentMethods == {"GET", "DELETE"}

\* "failing" stands for the statuses 500, 502, 503 and 504, "rejected" for
\* every other one that raise_for_status refuses.  "lost" is a timeout or a
\* transport error: no answer at all.
Answers == {"ok", "rejected", "throttled", "failing", "lost"}

VARIABLES
    pc,             \* "ready", "send", "answered", "sleep", "returned", "raised"
    idempotent,     \* may the request be sent again blindly
    attempt,        \* loop counter
    answer,         \* what the last attempt came back with
    retryAfter,     \* its Retry-After header
    delay,          \* length of the pending sleep
    applied,        \* times the service carried the request out
    waits,          \* waits that left their attempt unfinished
    elapsed         \* ticks since the call began

vars == <<pc, idempotent, attempt, answer, retryAfter, delay, applied, waits,
          elapsed>>

\* One attempt per loop index, and never one more than configured, whatever
\* the service answers.
TypeOK ==
    /\ pc \in {"ready", "send", "answered", "sleep", "returned", "raised"}
    /\ idempotent \in BOOLEAN
    /\ attempt \in 0..(Attempts - 1)
    /\ answer \in Answers
    /\ retryAfter \in RetryAfters \cup {Absent}
    /\ delay \in Nat
    /\ applied \in 0..Attempts
    /\ waits \in 0..MaxWaits
    /\ elapsed \in Nat

Init ==
    /\ pc = "ready"
    /\ idempotent = FALSE
    /\ attempt = 0
    /\ answer = "ok"
    /\ retryAfter = Absent
    /\ delay = 0
    /\ applied = 0
    /\ waits = 0
    /\ elapsed = 0

\* The argument wins over the method: create_session and its like pass none.
Request(method, argument) ==
    /\ pc = "ready"
    /\ pc' = "send"
    /\ idempotent' = IF argument = Absent THEN method \in IdempotentMethods
                                          ELSE argument
    /\ UNCHANGED <<attempt, answer, retryAfter, delay, applied, waits, elapsed>>

\* How often the service may have carried out a request it answered so.
Effects(a) ==
    CASE a = "ok" -> {1}
      [] a \in {"rejected", "throttled"} -> {0}
      [] OTHER -> {0, 1}

\* Some of the request is sent, or some of the answer comes.
Wait(took) ==
    /\ pc = "send"
    /\ waits < MaxWaits
    /\ waits' = waits + 1
    /\ elapsed' = elapsed + took
    /\ UNCHANGED <<pc, idempotent, attempt, answer, retryAfter, delay, applied>>

\* The last wait of an attempt.
Send(a, took) ==
    /\ pc = "send"
    /\ pc' = "answered"
    /\ answer' = a
    /\ \E n \in Effects(a) : applied' = applied + n
    /\ retryAfter' \in IF a \in {"throttled", "failing"}
                       THEN RetryAfters \cup {Absent} ELSE {Absent}
    /\ elapsed' = elapsed + took
    /\ UNCHANGED <<idempotent, attempt, delay, waits>>

\* Mutant: a server error is retried whatever the method.
RetryableServerErrors(a) ==
    a \in {"throttled", "failing"} \/ (a = "lost" /\ idempotent)

Retryable(a) ==
    \/ a = "throttled"
    \/ a \in {"failing", "lost"} /\ idempotent

\* Mutant: the loop runs once more than configured.
LastAfterwards == attempt = Attempts

Last == attempt = Attempts - 1

\* backoff_seconds draws from the whole range, up to the cap.
Backoffs == {d \in 0..Cap : d <= Base * 2^attempt}

\* Mutant: the service decides alone how long to wait.
DelaysUncapped ==
    IF retryAfter = Absent THEN Backoffs ELSE {retryAfter}

Delays ==
    IF retryAfter = Absent THEN Backoffs
    ELSE {IF retryAfter <= Cap THEN retryAfter ELSE Cap}

Retry ==
    /\ pc = "answered"
    /\ Retryable(answer) /\ ~Last
    /\ pc' = "sleep"
    /\ delay' \in Delays
    /\ UNCHANGED <<idempotent, attempt, answer, retryAfter, applied, waits, elapsed>>

\* raise_for_status, or the exception of the last attempt again.
Finish ==
    /\ pc = "answered"
    /\ ~Retryable(answer) \/ Last
    /\ pc' = IF answer = "ok" THEN "returned" ELSE "raised"
    /\ UNCHANGED <<idempotent, attempt, answer, retryAfter, delay, applied, waits,
                   elapsed>>

Sleep ==
    /\ pc = "sleep"
    /\ pc' = "send"
    /\ attempt' = attempt + 1
    /\ elapsed' = elapsed + delay
    /\ delay' = 0
    /\ UNCHANGED <<idempotent, answer, retryAfter, applied, waits>>

\* A Celery time limit ends the call wherever it is; a request that was on
\* the wire may have been carried out.
Interrupted(n, took) ==
    /\ \/ pc = "send"
       \/ pc = "answered" /\ n = 0 /\ took = 0
       \/ pc = "sleep" /\ n = 0 /\ took <= delay
    /\ pc' = "raised"
    /\ applied' = applied + n
    /\ answer' = IF n = 1 THEN "lost" ELSE answer
    /\ elapsed' = elapsed + took
    /\ UNCHANGED <<idempotent, attempt, retryAfter, delay, waits>>

Next ==
    \/ \E m \in Methods, i \in BOOLEAN \cup {Absent} : Request(m, i)
    \/ \E took \in Durations : Wait(took) \/ (\E a \in Answers : Send(a, took))
    \/ Retry
    \/ Finish
    \/ Sleep
    \/ \E n \in {0, 1}, took \in Durations \cup {0} : Interrupted(n, took)

Spec == Init /\ [][Next]_vars

-----------------------------------------------------------------------------

\* A request that is not idempotent (a session, an issue, a comment) is
\* carried out at most once per call, over any number of attempts, and its
\* loop never sends again once it has been; if the call ends in a refusal,
\* it was not carried out at all.
AppliedAtMostOnce ==
    ~idempotent =>
        /\ applied <= 1
        /\ pc = "sleep" => applied = 0
        /\ pc = "raised" /\ answer \in {"rejected", "throttled"} => applied = 0

\* Backoffs and Retry-After headers never hold the caller longer than the
\* cap allows the loop, however the answers come: whatever else a call takes,
\* the service has been at work on, one wait after the other.
HeldOnlyWhileServed ==
    elapsed <= (waits + attempt + 1) * Timeout + (Attempts - 1) * Cap

=============================================================================
