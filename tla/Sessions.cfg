CONSTANTS
    Wallet = {w1, w2}
    Challenge = {c1, c2}
    Login = {l1, l2}
    Visit = {v1, v2}
    NoUser = NoUser
    NoChallenge = NoChallenge
    NoSession = NoSession
    CHALLENGE_TTL = 2
    SESSION_ABSOLUTE_TTL = 3
    SESSION_IDLE_TTL = 2
    MaxTime = 4
SYMMETRY Symmetry
SPECIFICATION Spec
INVARIANTS
    OneSessionPerChallenge
    OneUserPerWallet
    IdleFollowsLastSeen
    LifetimeCheckHolds
    LogoutIsFinal
PROPERTIES
    IdleSessionStaysDead
CHECK_DEADLOCK FALSE
