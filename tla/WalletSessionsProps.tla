--------------------------- MODULE WalletSessionsProps ---------------------------
(***************************************************************************)
(* What signing in and sessions promise.                                   *)
(***************************************************************************)
EXTENDS WalletSessions

LoginStage ==
    {"start", "found", "signed", "consumed", "claiming", "resolved",
     "answered", "refused", "lost", "conflict"}

VisitStage == {"start", "accessing", "revoking", "answered", "refused", "lost"}

LoginRecord ==
    [at : LoginStage, challenge : Challenge \cup {NoChallenge},
     consumedAt : Time, user : User \cup {NoUser}]

VisitRecord ==
    [at : VisitStage, session : Login \cup {NoSession}, time : Time,
     kind : Kind, closed : BOOLEAN]

\* Type invariant.
TypeOK ==
    /\ now \in Nat
    /\ challenges \in [Challenge -> ChallengeRow \cup {NoChallenge}]
    /\ users \subseteq User
    /\ wallets \in [Wallet -> User \cup {NoUser}]
    /\ sessions \in [Login -> SessionRow \cup {NoSession}]
    /\ logins \in [Login -> LoginRecord]
    /\ visits \in [Visit -> VisitRecord]

Exists(s) == sessions[s] # NoSession

\* A challenge is good for one session: the session starts at the moment that
\* consumed the challenge, inside the challenge's lifetime, for the challenge's
\* wallet, whatever requests for the same challenge overlap or are cut off
\* (wallet-auth.ts: consume "succeeds exactly once").
OneSessionPerChallenge ==
    \A s \in Login : Exists(s) =>
        LET c == logins[s].challenge IN
        /\ challenges[c].wallet = sessions[s].wallet
        /\ challenges[c].consumedAt = sessions[s].createdAt
        /\ challenges[c].issuedAt <= sessions[s].createdAt
        /\ sessions[s].createdAt < challenges[c].expiresAt
        /\ \A r \in Login : Exists(r) /\ logins[r].challenge = c => r = s

\* The idle expiry is exactly one idle period after the latest access, capped by
\* the absolute expiry, in whatever order the accesses' statements arrive
\* (findAndAdvanceActiveSession).
IdleFollowsLastSeen ==
    \A s \in Login : Exists(s) =>
        sessions[s].idleExpiresAt =
            Earlier(sessions[s].absoluteExpiresAt,
                    sessions[s].lastSeenAt + SESSION_IDLE_TTL)

\* Two requests that verify the same wallet for the first time end with one
\* user, no candidate user is left behind, a session's user owns its wallet, and
\* no request fails on a binding that disappeared (findOrCreateVerifiedWallet).
OneUserPerWallet ==
    /\ \A u \in User : u \in users <=> \E w \in Wallet : wallets[w] = u
    /\ \A w1, w2 \in Wallet : wallets[w1] = wallets[w2] /\ wallets[w1] # NoUser => w1 = w2
    /\ \A s \in Login : Exists(s) => wallets[sessions[s].wallet] = sessions[s].user
    /\ \A l \in Login : logins[l].at # "conflict"

\* Once a logout has been answered, a request that arrives later with the same
\* cookie is refused, also when several logouts and accesses overlap.
LogoutIsFinal ==
    \A v \in Visit : visits[v].closed => visits[v].at \notin {"answered", "revoking"}

\* The CHECK constraint browser_sessions_lifetime: no access, however late, makes
\* a statement the database would refuse.
LifetimeCheckHolds ==
    \A s \in Login : Exists(s) =>
        LET row == sessions[s] IN
        /\ row.createdAt < row.idleExpiresAt
        /\ row.idleExpiresAt <= row.absoluteExpiresAt
        /\ row.createdAt <= row.lastSeenAt
        /\ row.lastSeenAt < row.absoluteExpiresAt
        /\ row.revokedAt # Null => row.createdAt <= row.revokedAt

\* The idle expiry has passed, and no access from before it is under way.
Dead(s) ==
    /\ Exists(s)
    /\ sessions[s].idleExpiresAt <= now
    /\ \A v \in Visit : visits[v].at = "accessing" /\ visits[v].session = s =>
           sessions[s].idleExpiresAt <= visits[v].time

\* A session that has gone idle is never revived: only an access that read its
\* clock before the expiry may still extend it (activeSessionPredicates).
IdleSessionStaysDead == [][\A s \in Login : Dead(s) => Dead(s)']_vars
================================================================================
