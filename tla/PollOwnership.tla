--------------------------- MODULE PollOwnership ---------------------------
(***************************************************************************)
(* What the statements of app/store.py promise about the ownership of an   *)
(* issue, without control points, queues or remote services.  An issue is  *)
(* open while it is being worked on; then a creator works under a lease    *)
(* without a token, or a poll chain works under a token.                   *)
(*                                                                         *)
(* Ownership changes hands in three ways only: a claim of an issue nobody  *)
(* works on, a token installed by a creator that is entitled to it (once), *)
(* and a token that takes over a lost lease.  A token that has lost the    *)
(* ownership never gets it back.  Whether the issue is open may be         *)
(* rewritten at any time: the upserts are keyed by the issue alone.        *)
(***************************************************************************)
CONSTANTS Tokens, Creators, NULL

VARIABLES
    open,           \* the issue is being worked on
    owner,          \* the token that owns the polling, or NULL
    lease,          \* "none", "live" or "expired"
    entitled,       \* creators whose claim was granted and not yet redeemed
    circulating,    \* tokens that still occur in a queue or a process
    held            \* those of them that a running process works under

tokens    == <<circulating, held>>
ownership == <<open, owner, lease, entitled, tokens>>

Lost     == lease # "live"
Fresh(t) == t # owner /\ t \notin circulating

Init ==
    /\ open = FALSE
    /\ owner = NULL
    /\ lease = "none"
    /\ entitled = {}
    /\ circulating = {}
    /\ held = {}

Claim(c) ==
    /\ ~open \/ (owner = NULL /\ Lost)
    /\ c \notin entitled
    /\ open' = TRUE
    /\ owner' = NULL
    /\ lease' = "live"
    /\ entitled' = entitled \cup {c}
    /\ UNCHANGED tokens

Own(t) ==
    /\ open /\ Fresh(t)
    /\ owner' = t
    /\ lease' = "live"
    /\ circulating' = circulating \cup {t}
    /\ held' = held \cup {t}
    /\ UNCHANGED open

Install(c, t) == c \in entitled /\ entitled' = entitled \ {c} /\ Own(t)

TakeOver(t) == Lost /\ Own(t) /\ UNCHANGED entitled

\* Only a process that works under the owning token renews or releases.
Renew(t) ==
    /\ owner = t /\ t \in held
    /\ lease' = "live"
    /\ UNCHANGED <<open, owner, entitled, tokens>>

\* The process ends with the same step, and with it the token, unless other
\* copies of it are about.
Release(t) ==
    /\ owner = t /\ t \in held
    /\ owner' = NULL
    /\ lease' = "none"
    /\ held' \in {held, held \ {t}}
    /\ circulating' \in {circulating, circulating \ {t}}
    /\ UNCHANGED <<open, entitled>>

\* A creator that failed drops the ownership whoever has it.
Drop(c) ==
    /\ c \in entitled
    /\ owner' = NULL
    /\ lease' = "none"
    /\ entitled' = entitled \ {c}
    /\ UNCHANGED <<open, tokens>>

Retire(c) ==
    /\ c \in entitled
    /\ entitled' = entitled \ {c}
    /\ UNCHANGED <<open, owner, lease, tokens>>

\* A queued poll is received; a process publishes, ends or dies.
Take(t) ==
    /\ t \in circulating
    /\ held' = held \cup {t}
    /\ UNCHANGED <<open, owner, lease, entitled, circulating>>

Leave(t) ==
    /\ held' = held \ {t}
    /\ circulating' \in {circulating, circulating \ {t}}
    /\ UNCHANGED <<open, owner, lease, entitled>>

Lapse ==
    /\ lease = "live" /\ lease' = "expired"
    /\ UNCHANGED <<open, owner, entitled, tokens>>

Rewrite ==
    /\ open' = ~open
    /\ UNCHANGED <<owner, lease, entitled, tokens>>

Next ==
    \/ \E c \in Creators :
        \/ Claim(c) \/ Drop(c) \/ Retire(c)
        \/ \E t \in Tokens : Install(c, t)
    \/ \E t \in Tokens : TakeOver(t) \/ Renew(t) \/ Release(t) \/ Take(t) \/ Leave(t)
    \/ Lapse
    \/ Rewrite

Spec == Init /\ [][Next]_ownership

=============================================================================
