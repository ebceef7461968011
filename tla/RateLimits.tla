------------------------------ MODULE RateLimits ------------------------------
(***************************************************************************)
(* The fixed-window rate limiters (packages/db/src/auth-rate-limiter.ts)   *)
(* and the wrapper that cleans their table up now and then                 *)
(* (apps/web/src/server/auth-runtime.ts).  A request passes a global       *)
(* limiter and then one for its subject: a wallet, a user or a token.      *)
(*                                                                         *)
(* A request reads the clock once, when it arrives, and both limiters and  *)
(* the cleanup use that time, however late their statements run.  One      *)
(* statement is one step; the server may be stopped between two.           *)
(***************************************************************************)
EXTENDS Integers, FiniteSets

CONSTANTS
    Subject, Global,    \* the keys of the two limiters
    Call,               \* requests that can be under way at a time
    NoWindow,
    GLOBAL_MAX, SUBJECT_MAX, WINDOW,
    CLEANUP_PERIOD, CLEANUP_LIMIT,
    MaxLate,            \* the longest a request waits for its statements
    MaxTime             \* bound: the last time of the server's clock

ASSUME LimitAssumption ==
    {GLOBAL_MAX, SUBJECT_MAX, WINDOW, CLEANUP_PERIOD, CLEANUP_LIMIT} \subseteq Nat \ {0}

ASSUME BoundAssumption ==
    Global \notin Subject /\ {MaxLate, MaxTime} \subseteq Nat /\ MaxLate < WINDOW

Window == [startedAt : Nat, expiresAt : Nat, requestCount : Nat \ {0}]

ASSUME NoWindowAssumption == NoWindow \notin Window

VARIABLES
    now,                    \* the server's clock
    windows,                \* auth_rate_limits, by key
    calls,                  \* what each request is doing
    requestsUntilCleanup,   \* of each limiter, in the memory of the server
    consumed                \* history: by key, the attempts allowed and when

vars == <<now, windows, calls, requestsUntilCleanup, consumed>>

Key == Subject \cup {Global}
Limiter == {"global", "subject"}
maxAttempts(key) == IF key = Global THEN GLOBAL_MAX ELSE SUBJECT_MAX

Idle == [at |-> "idle"]

Init ==
    /\ now = 0
    /\ windows = [k \in Key |-> NoWindow]
    /\ calls = [c \in Call |-> Idle]
    /\ requestsUntilCleanup = [l \in Limiter |-> CLEANUP_PERIOD]
    /\ consumed = [k \in Key |-> {}]

Tick ==
    /\ now < MaxTime
    /\ \A c \in Call : calls[c].at # "idle" => now - calls[c].time < MaxLate
    /\ now' = now + 1
    /\ UNCHANGED <<windows, calls, requestsUntilCleanup, consumed>>

arrive(c, s) ==
    /\ calls[c].at = "idle"
    /\ calls' = [calls EXCEPT ![c] =
           [at |-> "consuming", limiter |-> "global", subject |-> s, time |-> now,
            allowed |-> FALSE]]
    /\ UNCHANGED <<now, windows, requestsUntilCleanup, consumed>>

KeyOf(call) == IF call.limiter = "global" THEN Global ELSE call.subject

Open(time) == [startedAt |-> time, expiresAt |-> time + WINDOW, requestCount |-> 1]

\* Mutant: a window that is full takes one more.
MHasRoom(k) == windows[k].requestCount <= maxAttempts(k)

HasRoom(k) == windows[k].requestCount < maxAttempts(k)

\* Mutant: the count of an expired window is kept.
MNextWindowKeepsCount(k, time) ==
    IF windows[k] = NoWindow THEN {Open(time)}
    ELSE IF windows[k].expiresAt <= time /\ HasRoom(k)
         THEN {[Open(time) EXCEPT !.requestCount = windows[k].requestCount + 1]}
    ELSE IF HasRoom(k) THEN {[windows[k] EXCEPT !.requestCount = @ + 1]} ELSE {}

\* The row the upsert leaves behind, if its WHERE clause lets it write one.
NextWindow(k, time) ==
    IF windows[k] = NoWindow \/ windows[k].expiresAt <= time THEN {Open(time)}
    ELSE IF HasRoom(k) THEN {[windows[k] EXCEPT !.requestCount = @ + 1]}
    ELSE {}

consume(c) ==
    LET k == KeyOf(calls[c])
        next == NextWindow(k, calls[c].time)
    IN  /\ calls[c].at = "consuming"
        /\ \/ \E window \in next :
                  /\ windows' = [windows EXCEPT ![k] = window]
                  /\ consumed' = [consumed EXCEPT ![k] =
                         @ \cup {[at |-> now, nth |-> Cardinality(@) + 1]}]
           \/ /\ next = {}
              /\ UNCHANGED <<windows, consumed>>
        /\ calls' = [calls EXCEPT ![c].at = "returning", ![c].allowed = next # {}]
        /\ UNCHANGED <<now, requestsUntilCleanup>>

\* A request that the global limiter lets pass goes on to that of its subject.
Proceed(c) ==
    IF calls[c].allowed /\ calls[c].limiter = "global"
    THEN [calls[c] EXCEPT !.at = "consuming", !.limiter = "subject", !.allowed = FALSE]
    ELSE Idle

\* Below zero every value of requestsUntilCleanup acts alike; -1 stands for them.
LessOne(n) == IF n < 0 THEN n ELSE n - 1

resume(c) ==
    LET l == calls[c].limiter
        left == LessOne(requestsUntilCleanup[l])
    IN  /\ calls[c].at = "returning"
        /\ requestsUntilCleanup' = [requestsUntilCleanup EXCEPT ![l] = left]
        /\ calls' = [calls EXCEPT ![c] =
               IF left = 0 THEN [@ EXCEPT !.at = "cleaning"] ELSE Proceed(c)]
        /\ UNCHANGED <<now, windows, consumed>>

\* Mutant: the cleanup deletes rows whatever their expiry.
MExpired(time) == {k \in Key : windows[k] # NoWindow}

Expired(time) == {k \in Key : windows[k] # NoWindow /\ windows[k].expiresAt <= time}

\* The oldest rows go first; those that a concurrent upsert holds are skipped.
\* The answer may be lost after the rows are gone.
deleteExpired(c) ==
    /\ calls[c].at = "cleaning"
    /\ \E deleted \in SUBSET Expired(calls[c].time) :
           /\ Cardinality(deleted) <= CLEANUP_LIMIT
           /\ windows' = [k \in Key |-> IF k \in deleted THEN NoWindow ELSE windows[k]]
    /\ \/ /\ requestsUntilCleanup' =
                 [requestsUntilCleanup EXCEPT ![calls[c].limiter] = CLEANUP_PERIOD]
          /\ calls' = [calls EXCEPT ![c] = Proceed(c)]
       \/ /\ calls' = [calls EXCEPT ![c] = Idle]
          /\ UNCHANGED requestsUntilCleanup
    /\ UNCHANGED <<now, consumed>>

\* A statement fails, or its answer is lost: the request ends with an error.
fail(c) ==
    /\ calls[c].at # "idle"
    /\ calls' = [calls EXCEPT ![c] = Idle]
    /\ UNCHANGED <<now, windows, requestsUntilCleanup, consumed>>

restart ==
    /\ calls' = [c \in Call |-> Idle]
    /\ requestsUntilCleanup' = [l \in Limiter |-> CLEANUP_PERIOD]
    /\ UNCHANGED <<now, windows, consumed>>

Step(c) ==
    \/ \E s \in Subject : arrive(c, s)
    \/ consume(c)
    \/ resume(c)
    \/ deleteExpired(c)
    \/ fail(c)

Next ==
    \/ Tick
    \/ \E c \in Call : Step(c)
    \/ restart

Spec == Init /\ [][Next]_vars
================================================================================
