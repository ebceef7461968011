---------------------------- MODULE RateLimitsProps ----------------------------
(***************************************************************************)
(* What the rate limiters promise.                                         *)
(***************************************************************************)
EXTENDS RateLimits

CallRecord ==
    [at : {"consuming", "returning", "cleaning"}, limiter : Limiter, subject : Subject,
     time : Nat, allowed : BOOLEAN]

Attempt == [at : 0..MaxTime, nth : Nat \ {0}]

\* Type invariant; a window's row also satisfies the table's CHECK constraints.
TypeOK ==
    /\ now \in 0..MaxTime
    /\ DOMAIN windows = Key
    /\ \A k \in Key : windows[k] # NoWindow =>
           /\ windows[k] \in Window
           /\ windows[k].startedAt < windows[k].expiresAt
           /\ windows[k].requestCount <= maxAttempts(k)
    /\ calls \in [Call -> CallRecord \cup {Idle}]
    /\ requestsUntilCleanup \in [Limiter -> -1..CLEANUP_PERIOD]
    /\ consumed \in [Key -> SUBSET Attempt]

\* How many attempts were allowed for a key in an interval of real time.
ConsumedIn(k, first, last) == Cardinality({a \in consumed[k] : a.at \in first..last})

\* The rate: no stretch of real time as long as a window, less the longest
\* delay, sees more than two windows' worth of attempts, whatever calls overlap,
\* come late, fail, or have their window cleaned up (auth-rate-limiter.ts: "a
\* conflict updates only when the stored window expired or still has capacity").
RateHolds ==
    \A k \in Key, t \in 0..MaxTime :
        ConsumedIn(k, t, t + WINDOW - MaxLate - 1) <= 2 * maxAttempts(k)

\* Nobody is refused for nothing: when an attempt is refused, as many as the
\* limit allows were consumed no longer ago than a window and the longest delay.
RefusedOnlyWhenFull ==
    [][\A c \in Call :
         LET k == KeyOf(calls[c]) IN
         /\ calls[c].at = "consuming"
         /\ calls'[c].at = "returning"
         /\ ~calls'[c].allowed
         => ConsumedIn(k, now - WINDOW - MaxLate + 1, now) >= maxAttempts(k)]_vars

\* Cleanup comes round: no request finds the countdown of a limiter over and goes
\* on without a cleanup that is under way (packages/db/README.md: "bounded
\* cleanup avoids unbounded stale-row accumulation").  After a cleanup that has
\* failed every request does, so a run refutes this.
CleanupComesRound ==
    \A l \in Limiter :
        \/ requestsUntilCleanup[l] >= 0
        \/ \E c \in Call : calls[c].at = "cleaning" /\ calls[c].limiter = l
================================================================================
