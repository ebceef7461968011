----------------------------- MODULE WalletSessions -----------------------------
(***************************************************************************)
(* Signing in with a wallet and the browser sessions that result           *)
(* (apps/web/src/server/wallet-auth.ts over packages/db/src/               *)
(* auth-repository.ts).                                                    *)
(*                                                                         *)
(* A request is split wherever the code awaits the database: between two   *)
(* of its steps time passes, other requests run, and the server may be     *)
(* stopped.  Every time is read from the server's clock before the         *)
(* statement that uses it, so a statement may arrive with an old time.     *)
(* One database transaction, or one conditional UPDATE, is one step,       *)
(* except the transaction of findOrCreateVerifiedWallet: it reads          *)
(* committed rows twice, so what it read first may be stale.               *)
(***************************************************************************)
EXTENDS Integers

CONSTANTS
    Wallet,         \* pairs of chain and address
    Challenge,      \* ids of the challenges that come to be issued
    Login,          \* requests to verify a challenge
    Visit,          \* requests that carry a session's cookie
    NoUser, NoChallenge, NoSession,
    CHALLENGE_TTL, SESSION_ABSOLUTE_TTL, SESSION_IDLE_TTL,
    MaxTime         \* bound: the last time of the server's clock

ASSUME NullAssumption ==
    NoUser \notin Login /\ NoChallenge \notin Challenge /\ NoSession \notin Login

ASSUME TimeAssumption ==
    /\ {CHALLENGE_TTL, SESSION_ABSOLUTE_TTL, SESSION_IDLE_TTL} \subseteq Nat \ {0}
    /\ SESSION_IDLE_TTL <= SESSION_ABSOLUTE_TTL
    /\ MaxTime \in Nat

VARIABLES
    now,            \* the server's clock
    challenges,     \* wallet_auth_challenges, by id
    users,          \* users.id
    wallets,        \* wallets.user_id, by chain and address
    sessions,       \* browser_sessions; an id is the login that made the row
    logins,         \* what each request to verify has got so far
    visits          \* what each request with a cookie has got so far

vars == <<now, challenges, users, wallets, sessions, logins, visits>>

Null == -1          \* SQL NULL, in a column that holds a time

\* A login draws one candidate for users.id and one session id, both fresh.
User == Login

Time == Nat \cup {Null}

ChallengeRow ==
    [wallet : Wallet, issuedAt : Nat, expiresAt : Nat, consumedAt : Time]

SessionRow ==
    [user : User, wallet : Wallet, createdAt : Nat, absoluteExpiresAt : Nat,
     idleExpiresAt : Nat, lastSeenAt : Nat, revokedAt : Time]

ASSUME RowAssumption == NoChallenge \notin ChallengeRow /\ NoSession \notin SessionRow

Init ==
    /\ now = 0
    /\ challenges = [c \in Challenge |-> NoChallenge]
    /\ users = {}
    /\ wallets = [w \in Wallet |-> NoUser]
    /\ sessions = [s \in Login |-> NoSession]
    /\ logins = [l \in Login |->
           [at |-> "start", challenge |-> NoChallenge, consumedAt |-> Null, user |-> NoUser]]
    /\ visits = [v \in Visit |->
           [at |-> "start", session |-> NoSession, time |-> Null,
            kind |-> "session", closed |-> FALSE]]

Tick ==
    /\ now < MaxTime
    /\ now' = now + 1
    /\ UNCHANGED <<challenges, users, wallets, sessions, logins, visits>>

--------------------------------------------------------------------------------
(* Challenges and the verification of one.                                 *)

\* The row is inserted some time after its issuedAt was read.
createChallenge(c, w) ==
    /\ challenges[c] = NoChallenge
    /\ \E issuedAt \in 0..now :
           challenges' = [challenges EXCEPT ![c] =
               [wallet |-> w, issuedAt |-> issuedAt,
                expiresAt |-> issuedAt + CHALLENGE_TTL, consumedAt |-> Null]]
    /\ UNCHANGED <<now, users, wallets, sessions, logins, visits>>

Expired(row, time) == row.expiresAt <= time

findChallenge(l, c) ==
    /\ logins[l].at = "start"
    /\ challenges[c] # NoChallenge
    /\ ~Expired(challenges[c], now)
    /\ logins' = [logins EXCEPT ![l].at = "found", ![l].challenge = c]
    /\ UNCHANGED <<now, challenges, users, wallets, sessions, visits>>

\* verifyMessage has accepted the signature; consumedAt is read here.
acceptSignature(l) ==
    /\ logins[l].at = "found"
    /\ ~Expired(challenges[logins[l].challenge], now)
    /\ logins' = [logins EXCEPT ![l].at = "signed", ![l].consumedAt = now]
    /\ UNCHANGED <<now, challenges, users, wallets, sessions, visits>>

\* The challenge is unknown or expired, or the nonce or signature is wrong.
refuseLogin(l) ==
    /\ logins[l].at \in {"start", "found"}
    /\ logins' = [logins EXCEPT ![l].at = "refused"]
    /\ UNCHANGED <<now, challenges, users, wallets, sessions, visits>>

\* Mutant: a challenge that was consumed is consumed again.
MConsumable(row, time) == ~Expired(row, time)

Consumable(row, time) == row.consumedAt = Null /\ ~Expired(row, time)

consume(l) ==
    LET c == logins[l].challenge
        time == logins[l].consumedAt
    IN  /\ logins[l].at = "signed"
        /\ \/ /\ Consumable(challenges[c], time)
              /\ challenges' = [challenges EXCEPT ![c].consumedAt = time]
              /\ logins' = [logins EXCEPT ![l].at = "consumed"]
           \/ /\ ~Consumable(challenges[c], time)
              /\ logins' = [logins EXCEPT ![l].at = "refused"]
              /\ UNCHANGED challenges
        /\ UNCHANGED <<now, users, wallets, sessions, visits>>

--------------------------------------------------------------------------------
(* findOrCreateVerifiedWallet and the creation of the session.             *)

WalletOf(l) == challenges[logins[l].challenge].wallet

findWallet(l) ==
    /\ logins[l].at = "consumed"
    /\ logins' = [logins EXCEPT
           ![l].at = IF wallets[WalletOf(l)] = NoUser THEN "claiming" ELSE "resolved",
           ![l].user = wallets[WalletOf(l)]]
    /\ UNCHANGED <<now, challenges, users, wallets, sessions, visits>>

\* Mutant: the candidate that lost is left behind.
MUsersAfterClaim(l) == users \cup {l}

\* What the transaction leaves in users: a candidate whose wallet row lost to
\* that of another transaction is deleted again.
UsersAfterClaim(l) ==
    IF wallets[WalletOf(l)] = NoUser THEN users \cup {l} ELSE users \ {l}

\* INSERT ... ON CONFLICT DO NOTHING waits for a concurrent insert of the same
\* wallet, and the transaction then reads the row that won.
claimWallet(l) ==
    LET w == WalletOf(l)
        owner == IF wallets[w] = NoUser THEN l ELSE wallets[w]
    IN  /\ logins[l].at = "claiming"
        /\ users' = UsersAfterClaim(l)
        /\ wallets' = [wallets EXCEPT ![w] = owner]
        /\ logins' = [logins EXCEPT ![l].at = "resolved", ![l].user = owner]
        /\ UNCHANGED <<now, challenges, sessions, visits>>

NewSession(l) ==
    [user |-> logins[l].user, wallet |-> WalletOf(l),
     createdAt |-> logins[l].consumedAt,
     absoluteExpiresAt |-> logins[l].consumedAt + SESSION_ABSOLUTE_TTL,
     idleExpiresAt |-> logins[l].consumedAt + SESSION_IDLE_TTL,
     lastSeenAt |-> logins[l].consumedAt, revokedAt |-> Null]

\* The wallet must be the user's.  The answer may be lost after the commit: the
\* row then has no client.
createSession(l) ==
    LET bound == wallets[WalletOf(l)] = logins[l].user
    IN  /\ logins[l].at = "resolved"
        /\ sessions' = IF bound THEN [sessions EXCEPT ![l] = NewSession(l)] ELSE sessions
        /\ \E outcome \in (IF bound THEN {"answered", "lost"} ELSE {"conflict"}) :
               logins' = [logins EXCEPT ![l].at = outcome]
        /\ UNCHANGED <<now, challenges, users, wallets, visits>>

\* The server is stopped, or the statement fails, between two steps.
loseLogin(l) ==
    /\ logins[l].at \in {"found", "signed", "consumed", "claiming", "resolved"}
    /\ logins' = [logins EXCEPT ![l].at = "lost"]
    /\ UNCHANGED <<now, challenges, users, wallets, sessions, visits>>

--------------------------------------------------------------------------------
(* Requests that carry the cookie of a session.                            *)

\* A "forged" request is a logout without the session's CSRF token.
Kind == {"session", "logout", "forged"}

LogoutAnswered(s) ==
    \E v \in Visit :
        visits[v].session = s /\ visits[v].kind = "logout" /\ visits[v].at = "answered"

\* The request's time is read before its statement is sent.  "closed" records
\* that somebody had already been told that the session is revoked.
arrive(v, s, kind) ==
    /\ visits[v].at = "start"
    /\ sessions[s] # NoSession /\ logins[s].at = "answered"
    /\ visits' = [visits EXCEPT ![v] =
           [at |-> "accessing", session |-> s, time |-> now,
            kind |-> kind, closed |-> LogoutAnswered(s)]]
    /\ UNCHANGED <<now, challenges, users, wallets, sessions, logins>>

\* Mutants: a revoked session, and one that has gone idle, are still found.
MActiveRevoked(row, time) == row.absoluteExpiresAt > time /\ row.idleExpiresAt > time
MActiveIdle(row, time) == row.revokedAt = Null /\ row.absoluteExpiresAt > time

Active(row, time) ==
    /\ row.revokedAt = Null
    /\ row.absoluteExpiresAt > time
    /\ row.idleExpiresAt > time

Later(a, b) == IF a < b THEN b ELSE a
Earlier(a, b) == IF a < b THEN a ELSE b

\* Mutants: a late access takes the idle expiry back; it is not capped.
MAdvancedBack(row, time) == [row EXCEPT
    !.lastSeenAt = Later(@, time),
    !.idleExpiresAt = Earlier(row.absoluteExpiresAt, time + SESSION_IDLE_TTL)]
MAdvancedUncapped(row, time) == [row EXCEPT
    !.lastSeenAt = Later(@, time),
    !.idleExpiresAt = Later(@, time + SESSION_IDLE_TTL)]

Advanced(row, time) == [row EXCEPT
    !.lastSeenAt = Later(@, time),
    !.idleExpiresAt = Earlier(row.absoluteExpiresAt, Later(@, time + SESSION_IDLE_TTL))]

\* authenticate, or requireCsrf of a logout.
findAndAdvanceActiveSession(v) ==
    LET s == visits[v].session
        found == Active(sessions[s], visits[v].time) /\ visits[v].kind # "forged"
    IN  /\ visits[v].at = "accessing"
        /\ \/ /\ found
              /\ sessions' = [sessions EXCEPT ![s] = Advanced(@, visits[v].time)]
              /\ visits' = [visits EXCEPT
                     ![v].at = IF visits[v].kind = "logout" THEN "revoking" ELSE "answered"]
           \/ /\ ~found
              /\ visits' = [visits EXCEPT ![v].at = "refused"]
              /\ UNCHANGED sessions
        /\ UNCHANGED <<now, challenges, users, wallets, logins>>

\* The answer is the same when another logout has revoked the session before.
revoke(v) ==
    LET s == visits[v].session
    IN  /\ visits[v].at = "revoking"
        /\ \/ /\ sessions[s].revokedAt = Null
              /\ \E time \in visits[v].time .. now :
                     sessions' = [sessions EXCEPT ![s].revokedAt = time]
           \/ /\ sessions[s].revokedAt # Null
              /\ UNCHANGED sessions
        /\ visits' = [visits EXCEPT ![v].at = "answered"]
        /\ UNCHANGED <<now, challenges, users, wallets, logins>>

loseVisit(v) ==
    /\ visits[v].at \in {"accessing", "revoking"}
    /\ visits' = [visits EXCEPT ![v].at = "lost"]
    /\ UNCHANGED <<now, challenges, users, wallets, sessions, logins>>

--------------------------------------------------------------------------------
LoginStep(l) ==
    \/ \E c \in Challenge : findChallenge(l, c)
    \/ acceptSignature(l)
    \/ refuseLogin(l)
    \/ consume(l)
    \/ findWallet(l)
    \/ claimWallet(l)
    \/ createSession(l)
    \/ loseLogin(l)

VisitStep(v) ==
    \/ \E s \in Login, kind \in Kind : arrive(v, s, kind)
    \/ findAndAdvanceActiveSession(v)
    \/ revoke(v)
    \/ loseVisit(v)

Next ==
    \/ Tick
    \/ \E c \in Challenge, w \in Wallet : createChallenge(c, w)
    \/ \E l \in Login : LoginStep(l)
    \/ \E v \in Visit : VisitStep(v)

Spec == Init /\ [][Next]_vars
================================================================================
