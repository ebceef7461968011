-------------------------- MODULE WalletSessions_proofs --------------------------
(***************************************************************************)
(* What WalletSessionsProps states as invariants, proved for any number of *)
(* wallets, challenges and requests, any times to live and any time.       *)
(***************************************************************************)
EXTENDS WalletSessionsProps, TLAPS

\* The request owns its challenge: it has consumed it, or has become a session.
Holds(l) == logins[l].at \in {"consumed", "claiming", "resolved"} \/ Exists(l)

ChallengeOf(l) == challenges[logins[l].challenge]

Picked(l) == logins[l].challenge \in Challenge /\ ChallengeOf(l) # NoChallenge

\* The request's consumedAt lies in the lifetime of its challenge.
InLifetime(l) ==
    /\ logins[l].consumedAt \in Nat
    /\ ChallengeOf(l).issuedAt <= logins[l].consumedAt
    /\ logins[l].consumedAt < ChallengeOf(l).expiresAt

LoginOK(l) ==
    /\ logins[l].consumedAt <= now
    /\ logins[l].at \in {"found", "signed"} \/ Holds(l) => Picked(l)
    /\ logins[l].at = "signed" \/ Holds(l) => InLifetime(l)
    /\ Holds(l) => ChallengeOf(l).consumedAt = logins[l].consumedAt
    /\ Exists(l) => /\ logins[l].at \in {"answered", "lost"}
                    /\ sessions[l].createdAt = logins[l].consumedAt
                    /\ sessions[l].wallet = WalletOf(l)

LoginsOK ==
    /\ \A l \in Login : LoginOK(l)
    /\ \A c \in Challenge : challenges[c] # NoChallenge => challenges[c].issuedAt <= now

\* No two requests own one challenge.
OwnersDiffer ==
    \A l, r \in Login :
        Holds(l) /\ Holds(r) /\ logins[l].challenge = logins[r].challenge => l = r

\* A request that has not claimed a wallet owns none, and one that is about to
\* create its session has the user its wallet belongs to.
Unclaimed == {"start", "found", "signed", "consumed", "claiming"}

AccountOK(l) ==
    /\ logins[l].at \in Unclaimed => \A w \in Wallet : wallets[w] # l
    /\ logins[l].at = "resolved" =>
           logins[l].user \in User /\ wallets[WalletOf(l)] = logins[l].user

AccountsOK == OneUserPerWallet /\ \A l \in Login : AccountOK(l)

\* The session a request under way or answered is about.
VisitOK(v) ==
    LET s == visits[v].session IN
    /\ visits[v].at \in {"accessing", "revoking", "answered"} \/ visits[v].closed =>
           s \in Login /\ Exists(s)
    /\ visits[v].at \in {"accessing", "revoking"} =>
           /\ visits[v].time \in Nat
           /\ sessions[s].createdAt <= visits[v].time
           /\ visits[v].time <= now
    /\ (visits[v].at = "answered" /\ visits[v].kind = "logout") \/ visits[v].closed =>
           sessions[s].revokedAt # Null
    /\ visits[v].closed => visits[v].at \notin {"answered", "revoking"}

VisitsOK == \A v \in Visit : VisitOK(v)

\* The times of a session: those the properties are about, and that it was not
\* created in the future.
SessionOK(s) ==
    Exists(s) =>
        LET row == sessions[s] IN
        /\ row.createdAt <= now
        /\ row.absoluteExpiresAt = row.createdAt + SESSION_ABSOLUTE_TTL
        /\ row.idleExpiresAt = Earlier(row.absoluteExpiresAt, row.lastSeenAt + SESSION_IDLE_TTL)
        /\ row.createdAt <= row.lastSeenAt
        /\ row.lastSeenAt < row.absoluteExpiresAt
        /\ row.revokedAt # Null => row.createdAt <= row.revokedAt

SessionsOK == \A s \in Login : SessionOK(s)

IInv ==
    /\ TypeOK
    /\ LoginsOK
    /\ OwnersDiffer
    /\ AccountsOK
    /\ VisitsOK
    /\ SessionsOK

\* The invariant holds at the start.
LEMMA InitHolds == Init => IInv
<1> SUFFICES ASSUME Init PROVE IInv  OBVIOUS
<1>1. TypeOK
  BY NullAssumption DEF Init, TypeOK, Time, LoginStage, VisitStage, Kind, LoginRecord, VisitRecord
<1>2. \A l \in Login : ~Exists(l) /\ logins[l].at = "start"  BY DEF Init, Exists
<1>3. \A v \in Visit : visits[v].at = "start" /\ ~visits[v].closed  BY DEF Init
<1>4. LoginsOK  BY <1>2 DEF Init, LoginsOK, LoginOK, Holds, Null
<1>5. OwnersDiffer  BY <1>2 DEF OwnersDiffer, Holds
<1>6. AccountsOK
  BY <1>2, NullAssumption DEF Init, AccountsOK, AccountOK, OneUserPerWallet, User
<1>7. VisitsOK  BY <1>3 DEF VisitsOK, VisitOK
<1>8. SessionsOK  BY <1>2 DEF SessionsOK, SessionOK
<1> QED  BY <1>1, <1>4, <1>5, <1>6, <1>7, <1>8 DEF IInv

\* A request that has picked a challenge or owns one finds its row.
LEMMA PickedRow ==
    ASSUME TypeOK, LoginsOK, NEW l \in Login,
           logins[l].at \in {"found", "signed"} \/ Holds(l)
    PROVE  /\ logins[l].challenge \in Challenge
           /\ ChallengeOf(l) \in ChallengeRow
           /\ WalletOf(l) \in Wallet
<1>1. Picked(l)  BY DEF LoginsOK, LoginOK
<1>2. logins[l].challenge \in Challenge /\ ChallengeOf(l) \in ChallengeRow
  BY <1>1 DEF Picked, ChallengeOf, TypeOK
<1> QED  BY <1>2 DEF WalletOf, ChallengeOf, ChallengeRow

\* The steps of a login keep the types;
LEMMA LoginTypesKept ==
    ASSUME TypeOK, LoginsOK, AccountsOK, NEW l \in Login, LoginStep(l)
    PROVE  TypeOK'
<1>1. ASSUME NEW c \in Challenge, findChallenge(l, c) PROVE TypeOK'
  <2> DEFINE new == [logins[l] EXCEPT !.at = "found", !.challenge = c]
  <2>1. new \in LoginRecord  BY DEF TypeOK, LoginRecord, LoginStage
  <2>2. logins' = [logins EXCEPT ![l] = new]  BY <1>1 DEF findChallenge, TypeOK
  <2> QED  BY <1>1, <2>1, <2>2 DEF TypeOK, findChallenge
<1>2. ASSUME acceptSignature(l) PROVE TypeOK'
  <2> DEFINE new == [logins[l] EXCEPT !.at = "signed", !.consumedAt = now]
  <2>1. logins[l] \in LoginRecord /\ now \in Time  BY DEF TypeOK, Time
  <2>2. new \in LoginRecord  BY <2>1 DEF LoginRecord, LoginStage
  <2>3. logins' = [logins EXCEPT ![l] = new]  BY <1>2 DEF acceptSignature, TypeOK
  <2> QED  BY <1>2, <2>2, <2>3 DEF TypeOK, acceptSignature
<1>3. ASSUME refuseLogin(l) PROVE TypeOK'
  BY <1>3 DEF TypeOK, refuseLogin, LoginRecord, LoginStage
<1>4. ASSUME consume(l) PROVE TypeOK'
  <2>1. ChallengeOf(l) \in ChallengeRow  BY <1>4, PickedRow DEF consume
  <2>2. [ChallengeOf(l) EXCEPT !.consumedAt = logins[l].consumedAt] \in ChallengeRow
    BY <2>1 DEF ChallengeRow, TypeOK, LoginRecord
  <2>3. challenges' \in [Challenge -> ChallengeRow \cup {NoChallenge}]
    BY <1>4, <2>1, <2>2 DEF consume, ChallengeOf, TypeOK
  <2>4. logins' \in [Login -> LoginRecord]
    BY <1>4 DEF consume, TypeOK, LoginRecord, LoginStage
  <2> QED  BY <1>4, <2>3, <2>4 DEF TypeOK, consume
<1>5. ASSUME findWallet(l) PROVE TypeOK'
  <2>1. wallets[WalletOf(l)] \in User \cup {NoUser}
    BY <1>5, PickedRow DEF findWallet, Holds, TypeOK
  <2> DEFINE stage == IF wallets[WalletOf(l)] = NoUser THEN "claiming" ELSE "resolved"
             new == [logins[l] EXCEPT !.at = stage, !.user = wallets[WalletOf(l)]]
  <2>2. stage \in LoginStage  BY DEF LoginStage
  <2>3. new \in LoginRecord  BY <2>1, <2>2 DEF TypeOK, LoginRecord
  <2>4. logins' = [logins EXCEPT ![l] = new]  BY <1>5 DEF findWallet, TypeOK
  <2> QED  BY <1>5, <2>3, <2>4 DEF TypeOK, findWallet
<1>6. ASSUME claimWallet(l) PROVE TypeOK'
  <2> DEFINE owner == IF wallets[WalletOf(l)] = NoUser THEN l ELSE wallets[WalletOf(l)]
  <2>1. WalletOf(l) \in Wallet  BY <1>6, PickedRow DEF claimWallet, Holds
  <2>2. owner \in User  BY <2>1 DEF TypeOK, User
  <2>3. wallets' \in [Wallet -> User \cup {NoUser}]
    BY <1>6, <2>2 DEF claimWallet, TypeOK
  <2> DEFINE new == [logins[l] EXCEPT !.at = "resolved", !.user = owner]
  <2>4. logins' \in [Login -> LoginRecord]
    <3> HIDE DEF owner
    <3>1. new \in LoginRecord  BY <2>2 DEF TypeOK, LoginRecord, LoginStage
    <3>2. logins' = [logins EXCEPT ![l] = new]
      <4> USE DEF owner
      <4> QED  BY <1>6 DEF claimWallet, TypeOK
    <3> QED  BY <3>1, <3>2 DEF TypeOK
  <2>5. users' \subseteq User
    BY <1>6 DEF claimWallet, UsersAfterClaim, TypeOK, User
  <2> QED  BY <1>6, <2>3, <2>4, <2>5 DEF TypeOK, claimWallet
<1>7. ASSUME createSession(l) PROVE TypeOK'
  <2>1. WalletOf(l) \in Wallet  BY <1>7, PickedRow DEF createSession, Holds
  <2>2. logins[l].user \in User  BY <1>7 DEF createSession, AccountsOK, AccountOK
  <2>3. logins[l].consumedAt \in Nat
    BY <1>7 DEF createSession, LoginsOK, LoginOK, Holds, InLifetime
  <2>4. NewSession(l) \in SessionRow
    BY <2>1, <2>2, <2>3, TimeAssumption DEF NewSession, SessionRow, Time
  <2>5. sessions' \in [Login -> SessionRow \cup {NoSession}]
    BY <1>7, <2>4 DEF createSession, TypeOK
  <2>6. PICK outcome \in {"answered", "lost", "conflict"} :
            logins' = [logins EXCEPT ![l].at = outcome]
    BY <1>7 DEF createSession
  <2>7. logins' \in [Login -> LoginRecord]
    BY <2>6 DEF TypeOK, LoginRecord, LoginStage
  <2> QED  BY <1>7, <2>5, <2>7 DEF TypeOK, createSession
<1>8. ASSUME loseLogin(l) PROVE TypeOK'
  BY <1>8 DEF TypeOK, loseLogin, LoginRecord, LoginStage
<1> QED
  BY <1>1, <1>2, <1>3, <1>4, <1>5, <1>6, <1>7, <1>8 DEF LoginStep

\* so does the extension of a session,
LEMMA AdvancedRow ==
    ASSUME NEW row \in SessionRow, NEW time \in Nat
    PROVE  Advanced(row, time) \in SessionRow
<1>1. Later(row.lastSeenAt, time) \in Nat  BY DEF Later, SessionRow
<1>2. Earlier(row.absoluteExpiresAt, Later(row.idleExpiresAt, time + SESSION_IDLE_TTL)) \in Nat
  BY TimeAssumption DEF Earlier, Later, SessionRow
<1> QED  BY <1>1, <1>2 DEF Advanced, SessionRow

\* a request with a cookie,
LEMMA VisitTypesKept ==
    ASSUME TypeOK, VisitsOK, NEW v \in Visit, VisitStep(v)
    PROVE  TypeOK'
<1> DEFINE s == visits[v].session
<1>1. ASSUME NEW r \in Login, NEW kind \in Kind, arrive(v, r, kind) PROVE TypeOK'
  <2>1. LogoutAnswered(r) \in BOOLEAN  BY DEF LogoutAnswered
  <2>2. visits' \in [Visit -> VisitRecord]
    BY <1>1, <2>1 DEF arrive, TypeOK, VisitRecord, VisitStage, Time
  <2> QED  BY <1>1, <2>2 DEF TypeOK, arrive
<1>2. ASSUME findAndAdvanceActiveSession(v) PROVE TypeOK'
  <2>1. s \in Login /\ sessions[s] \in SessionRow /\ visits[v].time \in Nat
    BY <1>2 DEF findAndAdvanceActiveSession, VisitsOK, VisitOK, Exists, TypeOK
  <2>2. Advanced(sessions[s], visits[v].time) \in SessionRow  BY <2>1, AdvancedRow
  <2>3. sessions' \in [Login -> SessionRow \cup {NoSession}]
    BY <1>2, <2>1, <2>2 DEF findAndAdvanceActiveSession, TypeOK
  <2>4. visits' \in [Visit -> VisitRecord]
    BY <1>2 DEF findAndAdvanceActiveSession, TypeOK, VisitRecord, VisitStage
  <2> QED  BY <1>2, <2>3, <2>4 DEF TypeOK, findAndAdvanceActiveSession
<1>3. ASSUME revoke(v) PROVE TypeOK'
  <2>1. s \in Login /\ sessions[s] \in SessionRow /\ visits[v].time \in Nat
    BY <1>3 DEF revoke, VisitsOK, VisitOK, Exists, TypeOK
  <2>2. \A time \in visits[v].time .. now :
            [sessions[s] EXCEPT !.revokedAt = time] \in SessionRow
    BY <2>1 DEF SessionRow, Time, TypeOK
  <2>3. sessions' \in [Login -> SessionRow \cup {NoSession}]
    BY <1>3, <2>1, <2>2 DEF revoke, TypeOK
  <2>4. visits' \in [Visit -> VisitRecord]
    BY <1>3 DEF revoke, TypeOK, VisitRecord, VisitStage
  <2> QED  BY <1>3, <2>3, <2>4 DEF TypeOK, revoke
<1>4. ASSUME loseVisit(v) PROVE TypeOK'
  BY <1>4 DEF TypeOK, loseVisit, VisitRecord, VisitStage
<1> QED  BY <1>1, <1>2, <1>3, <1>4 DEF VisitStep

\* and every other step.
LEMMA TypesKept == TypeOK /\ LoginsOK /\ AccountsOK /\ VisitsOK /\ Next => TypeOK'
<1> SUFFICES ASSUME TypeOK, LoginsOK, AccountsOK, VisitsOK, Next PROVE TypeOK'  OBVIOUS
<1>1. CASE Tick  BY <1>1 DEF Tick, TypeOK
<1>2. ASSUME NEW c \in Challenge, NEW w \in Wallet, createChallenge(c, w) PROVE TypeOK'
  <2>1. \A issuedAt \in 0..now :
            [wallet |-> w, issuedAt |-> issuedAt, expiresAt |-> issuedAt + CHALLENGE_TTL,
             consumedAt |-> Null] \in ChallengeRow
    BY TimeAssumption DEF ChallengeRow, Time, TypeOK
  <2>2. challenges' \in [Challenge -> ChallengeRow \cup {NoChallenge}]
    BY <1>2, <2>1 DEF createChallenge, TypeOK
  <2> QED  BY <1>2, <2>2 DEF createChallenge, TypeOK
<1> QED  BY <1>1, <1>2, LoginTypesKept, VisitTypesKept DEF Next

--------------------------------------------------------------------------------
(* Requests to verify a challenge.                                         *)

\* No step changes what a challenge is, and none consumes it twice.
ChallengesKept ==
    \A c \in Challenge : challenges[c] # NoChallenge =>
        /\ challenges'[c] # NoChallenge
        /\ challenges'[c].wallet = challenges[c].wallet
        /\ challenges'[c].issuedAt = challenges[c].issuedAt
        /\ challenges'[c].expiresAt = challenges[c].expiresAt
        /\ challenges[c].consumedAt = Null \/ challenges'[c].consumedAt = challenges[c].consumedAt

\* The request and its session, if any, are as they were.
LoginKept(r) ==
    /\ logins'[r] = logins[r]
    /\ Exists(r)' => /\ Exists(r)
                     /\ sessions'[r].createdAt = sessions[r].createdAt
                     /\ sessions'[r].wallet = sessions[r].wallet

\* The conditional UPDATE consumes a challenge once, at the time it read.
LEMMA ConsumedChallenge ==
    ASSUME TypeOK, NEW l \in Login, consume(l), LoginsOK
    PROVE  /\ ChallengesKept
           /\ logins'[l].at = "consumed" =>
                  /\ ChallengeOf(l).consumedAt = Null
                  /\ ChallengeOf(l)'.consumedAt = logins[l].consumedAt
<1> DEFINE c == logins[l].challenge
           row == [challenges[c] EXCEPT !.consumedAt = logins[l].consumedAt]
<1>1. c \in Challenge /\ challenges[c] \in ChallengeRow
  BY PickedRow DEF consume, ChallengeOf
<1>2. CASE ~Consumable(challenges[c], logins[l].consumedAt)
  <2>1. challenges' = challenges /\ logins'[l].at = "refused"  BY <1>2 DEF consume, TypeOK, LoginRecord
  <2> QED  BY <2>1 DEF ChallengesKept
<1>3. CASE Consumable(challenges[c], logins[l].consumedAt)
  <2>1. row \in ChallengeRow
    BY <1>1 DEF ChallengeRow, TypeOK, LoginRecord
  <2>2. challenges' = [challenges EXCEPT ![c] = row]
    BY <1>1, <1>3 DEF consume, TypeOK
  <2>3. row # NoChallenge  BY <2>1, RowAssumption
  <2>4. /\ row.wallet = challenges[c].wallet /\ row.issuedAt = challenges[c].issuedAt
        /\ row.expiresAt = challenges[c].expiresAt
        /\ row.consumedAt = logins[l].consumedAt
    BY <1>1 DEF ChallengeRow
  <2>5. challenges[c].consumedAt = Null  BY <1>3 DEF Consumable
  <2>6. logins'[l].challenge = c  BY <1>3 DEF consume, TypeOK, LoginRecord
  <2>7. \A d \in Challenge : challenges'[d] = IF d = c THEN row ELSE challenges[d]
    BY <2>2 DEF TypeOK
  <2> HIDE DEF row
  <2>8. ChallengesKept  BY <2>3, <2>4, <2>5, <2>7 DEF ChallengesKept
  <2>9. ChallengeOf(l)'.consumedAt = logins[l].consumedAt
    BY <1>1, <2>4, <2>6, <2>7 DEF ChallengeOf
  <2> QED  BY <2>5, <2>8, <2>9 DEF ChallengeOf
<1> QED  BY <1>2, <1>3

\* A login that does not move stays consistent, because challenges are never given back.
LEMMA LoginFrame ==
    ASSUME TypeOK, NEW r \in Login, LoginOK(r), LoginKept(r), ChallengesKept,
           now' \in Nat, now <= now'
    PROVE  LoginOK(r)'
<1> DEFINE c == logins[r].challenge
<1>1. Holds(r)' => Holds(r)  BY DEF Holds, LoginKept
<1>2. logins[r].at \in {"found", "signed"} \/ Holds(r) =>
          /\ Picked(r) /\ Picked(r)'
          /\ challenges'[c].wallet = challenges[c].wallet
          /\ challenges'[c].issuedAt = challenges[c].issuedAt
          /\ challenges'[c].expiresAt = challenges[c].expiresAt
          /\ challenges[c].consumedAt = Null \/ challenges'[c].consumedAt = challenges[c].consumedAt
  BY DEF LoginOK, LoginKept, ChallengesKept, Picked, ChallengeOf
<1>3. Holds(r) => challenges'[c].consumedAt = challenges[c].consumedAt
  BY <1>2 DEF LoginOK, InLifetime, ChallengeOf, Null
<1>4. logins'[r].consumedAt <= now'
  <2>1. logins[r].consumedAt \in Int  BY DEF TypeOK, LoginRecord, Time, Null
  <2> QED  BY <2>1 DEF LoginOK, LoginKept, TypeOK
<1>5. logins'[r].at \in {"found", "signed"} \/ Holds(r)' => Picked(r)'
  BY <1>1, <1>2 DEF LoginKept
<1>6. logins'[r].at = "signed" \/ Holds(r)' => InLifetime(r)'
  BY <1>1, <1>2 DEF LoginKept, LoginOK, InLifetime, ChallengeOf
<1>7. Holds(r)' => ChallengeOf(r)'.consumedAt = logins'[r].consumedAt
  BY <1>1, <1>3 DEF LoginKept, LoginOK, ChallengeOf
<1>8. Exists(r)' => /\ logins'[r].at \in {"answered", "lost"}
                    /\ sessions'[r].createdAt = logins'[r].consumedAt
                    /\ sessions'[r].wallet = WalletOf(r)'
  <2>1. SUFFICES ASSUME Exists(r)' PROVE Exists(r) /\ Holds(r)
    BY <1>2 DEF LoginKept, LoginOK, WalletOf
  <2> QED  BY <2>1 DEF LoginKept, Holds
<1> QED  BY <1>4, <1>5, <1>6, <1>7, <1>8 DEF LoginOK
\* A step of one login leaves the others where they are,
LEMMA OthersKept ==
    ASSUME TypeOK, LoginsOK, NEW l \in Login, LoginStep(l)
    PROVE  /\ ChallengesKept
           /\ now' = now
           /\ \A r \in Login \ {l} : LoginKept(r)
<1>1. ASSUME NEW c \in Challenge, findChallenge(l, c)
      PROVE  challenges' = challenges /\ now' = now /\ \A r \in Login \ {l} : LoginKept(r)
  BY <1>1 DEF findChallenge, LoginKept, Exists, TypeOK
<1>2. ASSUME acceptSignature(l) \/ refuseLogin(l) \/ loseLogin(l)
      PROVE  challenges' = challenges /\ now' = now /\ \A r \in Login \ {l} : LoginKept(r)
  BY <1>2 DEF acceptSignature, refuseLogin, loseLogin, LoginKept, Exists, TypeOK
<1>3. ASSUME findWallet(l) \/ claimWallet(l)
      PROVE  challenges' = challenges /\ now' = now /\ \A r \in Login \ {l} : LoginKept(r)
  BY <1>3 DEF findWallet, claimWallet, LoginKept, Exists, TypeOK
<1>4. ASSUME createSession(l)
      PROVE  challenges' = challenges /\ now' = now /\ \A r \in Login \ {l} : LoginKept(r)
  <2>1. \A r \in Login \ {l} : sessions'[r] = sessions[r]
    BY <1>4 DEF createSession, TypeOK
  <2>2. \A r \in Login \ {l} : logins'[r] = logins[r]
    BY <1>4 DEF createSession, TypeOK
  <2> QED  BY <1>4, <2>1, <2>2 DEF createSession, LoginKept, Exists
<1>5. ASSUME consume(l)
      PROVE  ChallengesKept /\ now' = now /\ \A r \in Login \ {l} : LoginKept(r)
  <2>1. ChallengesKept  BY <1>5, ConsumedChallenge
  <2>2. \A r \in Login \ {l} : logins'[r] = logins[r] /\ sessions' = sessions
    BY <1>5 DEF consume, TypeOK
  <2> QED  BY <1>5, <2>1, <2>2 DEF consume, LoginKept, Exists
<1>6. challenges' = challenges => ChallengesKept  BY DEF ChallengesKept
<1> QED  BY <1>1, <1>2, <1>3, <1>4, <1>5, <1>6 DEF LoginStep

\* and leads its own on consistently.
LEMMA LoginAdvances ==
    ASSUME TypeOK, LoginsOK, NEW l \in Login, LoginStep(l)
    PROVE  LoginOK(l)'
<1>1. LoginOK(l) /\ logins[l] \in LoginRecord  BY DEF LoginsOK, TypeOK
<1>2. ~Exists(l) \/ logins[l].at \in {"answered", "lost"}  BY <1>1 DEF LoginOK
<1>3. ASSUME NEW c \in Challenge, findChallenge(l, c) PROVE LoginOK(l)'
  <2>1. logins'[l].at = "found" /\ logins'[l].challenge = c
        /\ logins'[l].consumedAt = logins[l].consumedAt
    BY <1>1, <1>3 DEF findChallenge, TypeOK, LoginRecord
  <2>2. ~Holds(l)'  BY <1>2, <1>3, <2>1 DEF findChallenge, Holds, Exists
  <2> QED
    BY <1>1, <1>3, <2>1, <2>2 DEF findChallenge, LoginOK, Holds, Picked, ChallengeOf
<1>4. ASSUME acceptSignature(l) PROVE LoginOK(l)'
  <2>1. logins'[l].at = "signed" /\ logins'[l].challenge = logins[l].challenge
        /\ logins'[l].consumedAt = now
    BY <1>1, <1>4 DEF acceptSignature, TypeOK, LoginRecord
  <2>2. ~Holds(l)'  BY <1>2, <1>4, <2>1 DEF acceptSignature, Holds, Exists
  <2>3. Picked(l) /\ ChallengeOf(l) \in ChallengeRow
    BY <1>1, <1>4, PickedRow DEF acceptSignature, LoginOK
  <2>4. ChallengeOf(l).issuedAt <= now /\ now < ChallengeOf(l).expiresAt
    BY <1>4, <2>3 DEF acceptSignature, Expired, LoginsOK, Picked, ChallengeOf, ChallengeRow, TypeOK
  <2> QED
    BY <1>4, <2>1, <2>2, <2>3, <2>4
    DEF acceptSignature, LoginOK, Holds, Picked, InLifetime, ChallengeOf, TypeOK
<1>5. ASSUME refuseLogin(l) PROVE LoginOK(l)'
  <2>1. logins'[l].at = "refused" /\ logins'[l].consumedAt = logins[l].consumedAt
    BY <1>1, <1>5 DEF refuseLogin, TypeOK, LoginRecord
  <2>2. ~Holds(l)'  BY <1>2, <1>5, <2>1 DEF refuseLogin, Holds, Exists
  <2> QED  BY <1>1, <1>5, <2>1, <2>2 DEF refuseLogin, LoginOK, Holds
<1>6. ASSUME consume(l) PROVE LoginOK(l)'
  <2>1. logins'[l].at \in {"consumed", "refused"}
        /\ logins'[l].challenge = logins[l].challenge
        /\ logins'[l].consumedAt = logins[l].consumedAt
    BY <1>1, <1>6 DEF consume, TypeOK, LoginRecord
  <2>2. ~Exists(l)'  BY <1>2, <1>6 DEF consume, Exists
  <2>3. Picked(l) /\ InLifetime(l)  BY <1>1, <1>6 DEF consume, LoginOK
  <2>4. ChallengesKept  BY <1>6, ConsumedChallenge
  <2>5. Picked(l)' /\ InLifetime(l)'
    BY <2>1, <2>3, <2>4 DEF ChallengesKept, Picked, InLifetime, ChallengeOf
  <2>6. Holds(l)' => logins'[l].at = "consumed"  BY <2>1, <2>2 DEF Holds
  <2>7. Holds(l)' => ChallengeOf(l)'.consumedAt = logins'[l].consumedAt
    BY <1>6, <2>1, <2>6, ConsumedChallenge
  <2> QED  BY <1>1, <1>6, <2>1, <2>2, <2>5, <2>7 DEF consume, LoginOK
<1>7. ASSUME findWallet(l) \/ claimWallet(l) PROVE LoginOK(l)'
  <2>1. logins'[l].at \in {"claiming", "resolved"}
        /\ logins'[l].challenge = logins[l].challenge
        /\ logins'[l].consumedAt = logins[l].consumedAt
    BY <1>1, <1>7 DEF findWallet, claimWallet, TypeOK, LoginRecord
  <2>2. Holds(l) /\ ~Exists(l)'
    BY <1>2, <1>7 DEF findWallet, claimWallet, Exists, Holds
  <2>3. challenges' = challenges /\ now' = now  BY <1>7 DEF findWallet, claimWallet
  <2> QED  BY <1>1, <2>1, <2>2, <2>3 DEF LoginOK, Picked, InLifetime, ChallengeOf
<1>8. ASSUME createSession(l) PROVE LoginOK(l)'
  <2>1. PICK outcome \in {"answered", "lost", "conflict"} :
            /\ logins' = [logins EXCEPT ![l].at = outcome]
            /\ outcome = "conflict" <=> wallets[WalletOf(l)] # logins[l].user
    BY <1>8 DEF createSession
  <2>2. logins'[l].at = outcome
        /\ logins'[l].challenge = logins[l].challenge
        /\ logins'[l].consumedAt = logins[l].consumedAt
    BY <1>1, <2>1 DEF TypeOK, LoginRecord
  <2>3. Holds(l) /\ challenges' = challenges /\ now' = now
    BY <1>8 DEF createSession, Holds
  <2>4. Exists(l)' => /\ outcome # "conflict"
                      /\ sessions'[l] = NewSession(l)
    BY <1>2, <1>8, <2>1 DEF createSession, Exists, TypeOK
  <2>5. Exists(l)' => /\ sessions'[l].createdAt = logins'[l].consumedAt
                      /\ sessions'[l].wallet = WalletOf(l)'
    BY <2>2, <2>3, <2>4 DEF NewSession, WalletOf
  <2> QED
    BY <1>1, <2>2, <2>3, <2>4, <2>5 DEF LoginOK, Picked, InLifetime, ChallengeOf
<1>9. ASSUME loseLogin(l) PROVE LoginOK(l)'
  <2>1. logins'[l].at = "lost" /\ logins'[l].consumedAt = logins[l].consumedAt
    BY <1>1, <1>9 DEF loseLogin, TypeOK, LoginRecord
  <2>2. ~Exists(l)'  BY <1>2, <1>9 DEF loseLogin, Exists
  <2> QED  BY <1>1, <1>9, <2>1, <2>2 DEF loseLogin, LoginOK, Holds
<1> QED  BY <1>3, <1>4, <1>5, <1>6, <1>7, <1>8, <1>9 DEF LoginStep
--------------------------------------------------------------------------------
(* Requests with a cookie.                                                 *)

\* The session a request is about to use.
LEMMA VisitedRow ==
    ASSUME TypeOK, VisitsOK, NEW v \in Visit, visits[v].at \in {"accessing", "revoking"}
    PROVE  /\ visits[v].session \in Login
           /\ sessions[visits[v].session] \in SessionRow
           /\ sessions[visits[v].session] # NoSession
           /\ visits[v].time \in Nat
BY DEF VisitsOK, VisitOK, Exists, TypeOK

\* What the extension of a session changes, and the bounds it keeps.
LEMMA AdvancedFields ==
    ASSUME NEW row \in SessionRow, NEW time \in Nat
    PROVE  LET new == Advanced(row, time) IN
           /\ new \in SessionRow /\ new # NoSession
           /\ new.user = row.user /\ new.wallet = row.wallet
           /\ new.createdAt = row.createdAt /\ new.revokedAt = row.revokedAt
           /\ new.absoluteExpiresAt = row.absoluteExpiresAt
           /\ new.lastSeenAt = Later(row.lastSeenAt, time)
           /\ new.idleExpiresAt = Earlier(row.absoluteExpiresAt,
                                         Later(row.idleExpiresAt, time + SESSION_IDLE_TTL))
<1>1. Advanced(row, time) \in SessionRow  BY AdvancedRow
<1>2. Advanced(row, time) # NoSession  BY <1>1, RowAssumption
<1> QED  BY <1>1, <1>2 DEF Advanced, SessionRow

\* Where the session was found active, and what became of it.
LEMMA FoundSession ==
    ASSUME TypeOK, VisitsOK, NEW v \in Visit, findAndAdvanceActiveSession(v)
    PROVE  LET s == visits[v].session IN
           \/ /\ Active(sessions[s], visits[v].time)
              /\ sessions' = [sessions EXCEPT ![s] = Advanced(sessions[s], visits[v].time)]
              /\ visits'[v].at = IF visits[v].kind = "logout" THEN "revoking" ELSE "answered"
           \/ /\ sessions' = sessions
              /\ visits'[v].at = "refused"
BY DEF findAndAdvanceActiveSession, TypeOK, VisitRecord

\* A request with a cookie changes no session but its own, and of that only
\* the times.
SessionKept(s) ==
    /\ Exists(s)' <=> Exists(s)
    /\ Exists(s) => /\ sessions'[s].user = sessions[s].user
                    /\ sessions'[s].wallet = sessions[s].wallet
                    /\ sessions'[s].createdAt = sessions[s].createdAt
                    /\ sessions'[s].absoluteExpiresAt = sessions[s].absoluteExpiresAt
                    /\ sessions[s].revokedAt = Null \/ sessions'[s].revokedAt = sessions[s].revokedAt

\* A login keeps its facts while its session's row keeps owner and lifetime.
LEMMA KeptWithSession ==
    ASSUME NEW r \in Login, SessionKept(r), logins' = logins
    PROVE  LoginKept(r)
BY DEF SessionKept, LoginKept

\* A request with a cookie changes neither owner nor lifetime of a session.
LEMMA SessionsKept ==
    ASSUME TypeOK, VisitsOK, NEW v \in Visit, VisitStep(v)
    PROVE  /\ \A s \in Login : SessionKept(s)
           /\ UNCHANGED <<now, challenges, users, wallets, logins>>
<1> DEFINE s == visits[v].session
<1>1. UNCHANGED <<now, challenges, users, wallets, logins>>
  BY DEF VisitStep, arrive, findAndAdvanceActiveSession, revoke, loseVisit
<1>2. sessions' = sessions => \A r \in Login : SessionKept(r)  BY DEF SessionKept, Exists
<1>3. CASE findAndAdvanceActiveSession(v)
  <2>1. s \in Login /\ sessions[s] \in SessionRow /\ visits[v].time \in Nat
    BY <1>3, VisitedRow DEF findAndAdvanceActiveSession
  <2> DEFINE new == Advanced(sessions[s], visits[v].time)
  <2>2. CASE sessions' = [sessions EXCEPT ![s] = new]
    <3>1. \A r \in Login : sessions'[r] = IF r = s THEN new ELSE sessions[r]
      BY <2>2 DEF TypeOK
    <3>2. new # NoSession /\ sessions[s] # NoSession  BY <1>3, <2>1, AdvancedFields, VisitedRow DEF findAndAdvanceActiveSession
    <3>3. new.user = sessions[s].user /\ new.wallet = sessions[s].wallet
          /\ new.createdAt = sessions[s].createdAt /\ new.revokedAt = sessions[s].revokedAt
          /\ new.absoluteExpiresAt = sessions[s].absoluteExpiresAt
      BY <2>1, AdvancedFields
    <3> HIDE DEF new
    <3> QED  BY <1>1, <3>1, <3>2, <3>3 DEF SessionKept, Exists
  <2> QED  BY <1>1, <1>2, <1>3, <2>2, FoundSession
<1>4. CASE revoke(v)
  <2>1. s \in Login /\ sessions[s] \in SessionRow /\ visits[v].time \in Nat
        /\ sessions[s] # NoSession
    BY <1>4, VisitedRow DEF revoke
  <2>2. ASSUME NEW time \in visits[v].time .. now, sessions[s].revokedAt = Null,
               sessions' = [sessions EXCEPT ![s].revokedAt = time]
        PROVE  \A r \in Login : SessionKept(r)
    <3> DEFINE new == [sessions[s] EXCEPT !.revokedAt = time]
    <3>1. \A r \in Login : sessions'[r] = IF r = s THEN new ELSE sessions[r]
      BY <2>2 DEF TypeOK
    <3>2. new \in SessionRow  BY <2>1 DEF SessionRow, Time, TypeOK
    <3>3. new # NoSession  BY <3>2, RowAssumption
    <3>4. new.user = sessions[s].user /\ new.wallet = sessions[s].wallet
          /\ new.createdAt = sessions[s].createdAt
          /\ new.absoluteExpiresAt = sessions[s].absoluteExpiresAt
      BY <2>1 DEF SessionRow
    <3> HIDE DEF new
    <3> QED  BY <2>1, <2>2, <3>1, <3>3, <3>4 DEF SessionKept, Exists
  <2> QED  BY <1>1, <1>2, <1>4, <2>2 DEF revoke
<1> QED  BY <1>1, <1>2, <1>3, <1>4 DEF VisitStep, arrive, loseVisit

--------------------------------------------------------------------------------
(* The parts of the invariant, kept by every step.                         *)

\* Every step keeps what is known of logins,
LEMMA LoginsKept == TypeOK /\ LoginsOK /\ VisitsOK /\ TypeOK' /\ Next => LoginsOK'
<1> SUFFICES ASSUME TypeOK, LoginsOK, VisitsOK, TypeOK', Next PROVE LoginsOK'  OBVIOUS
<1>1. now \in Nat /\ now' \in Nat  BY DEF TypeOK
<1>2. CASE Tick
  <2>1. ChallengesKept /\ now <= now'  BY <1>1, <1>2 DEF Tick, ChallengesKept
  <2>2. \A r \in Login : LoginKept(r)  BY <1>2 DEF Tick, LoginKept, Exists
  <2>3. \A r \in Login : LoginOK(r)'  BY <1>1, <2>1, <2>2, LoginFrame DEF LoginsOK
  <2>4. \A c \in Challenge : challenges[c] # NoChallenge => challenges[c].issuedAt <= now'
    BY <1>1, <2>1 DEF LoginsOK, TypeOK, ChallengeRow
  <2> QED  BY <1>2, <2>3, <2>4 DEF LoginsOK, Tick
<1>3. ASSUME NEW c \in Challenge, NEW w \in Wallet, createChallenge(c, w) PROVE LoginsOK'
  <2>1. PICK issuedAt \in 0..now :
            challenges' = [challenges EXCEPT ![c] =
               [wallet |-> w, issuedAt |-> issuedAt,
                expiresAt |-> issuedAt + CHALLENGE_TTL, consumedAt |-> Null]]
    BY <1>3 DEF createChallenge
  <2>2. challenges[c] = NoChallenge  BY <1>3 DEF createChallenge
  <2>3. ChallengesKept /\ now' = now  BY <1>3, <2>1, <2>2 DEF createChallenge, ChallengesKept, TypeOK
  <2>4. \A r \in Login : LoginKept(r)  BY <1>3 DEF createChallenge, LoginKept, Exists
  <2>5. \A r \in Login : LoginOK(r)'  BY <1>1, <2>3, <2>4, LoginFrame DEF LoginsOK
  <2>6. \A d \in Challenge : challenges'[d] # NoChallenge => challenges'[d].issuedAt <= now
    BY <1>1, <2>1, <2>2 DEF LoginsOK, TypeOK
  <2> QED  BY <2>3, <2>5, <2>6 DEF LoginsOK
<1>4. ASSUME NEW l \in Login, LoginStep(l) PROVE LoginsOK'
  <2>1. ChallengesKept /\ now' = now /\ \A r \in Login \ {l} : LoginKept(r)
    BY <1>4, OthersKept
  <2>2. \A r \in Login : LoginOK(r)'
    BY <1>1, <1>4, <2>1, LoginFrame, LoginAdvances DEF LoginsOK
  <2>3. \A c \in Challenge : challenges'[c] # NoChallenge => challenges[c] # NoChallenge
    <3>1. CASE consume(l)
      <4>1. logins[l].challenge \in Challenge /\ challenges[logins[l].challenge] # NoChallenge
        BY <3>1 DEF consume, LoginsOK, LoginOK, Picked, ChallengeOf
      <4>2. \A c \in Challenge \ {logins[l].challenge} : challenges'[c] = challenges[c]
        BY <3>1 DEF consume, TypeOK
      <4> QED  BY <4>1, <4>2
    <3>2. CASE ~consume(l)
      BY <1>4, <3>2 DEF LoginStep, findChallenge, acceptSignature, refuseLogin, findWallet,
                        claimWallet, createSession, loseLogin
    <3> QED  BY <3>1, <3>2
  <2> QED  BY <2>1, <2>2, <2>3 DEF LoginsOK, ChallengesKept
<1>5. ASSUME NEW v \in Visit, VisitStep(v) PROVE LoginsOK'
  <2>1. (\A r \in Login : SessionKept(r)) /\ UNCHANGED <<now, challenges, logins>>
    BY <1>5, SessionsKept
  <2>2. ChallengesKept  BY <2>1 DEF ChallengesKept
  <2>4. \A r \in Login : LoginKept(r)  BY <2>1, KeptWithSession
  <2>3. \A r \in Login : LoginOK(r)'  BY <1>1, <2>1, <2>2, <2>4, LoginFrame DEF LoginsOK
  <2> QED  BY <2>1, <2>3 DEF LoginsOK
<1> QED  BY <1>2, <1>3, <1>4, <1>5 DEF Next
\* A request comes to own a challenge by consuming it, and then nobody had.
LEMMA NewOwner ==
    ASSUME TypeOK, LoginsOK, NEW l \in Login, NEW r \in Login, LoginStep(l),
           Holds(l)', Holds(r), r # l
    PROVE  logins'[l].challenge # logins'[r].challenge \/ Holds(l)
<1>1. logins[l] \in LoginRecord  BY DEF TypeOK
<1>2. SUFFICES ASSUME ~Holds(l), logins'[l].challenge = logins'[r].challenge PROVE FALSE
  OBVIOUS
<1>3. ~Exists(l) /\ logins[l].at \notin {"consumed", "claiming", "resolved"}
  BY <1>2 DEF Holds
<1>4. consume(l)
  <2>1. ASSUME NEW c \in Challenge, findChallenge(l, c) PROVE FALSE
    BY <1>1, <1>3, <2>1 DEF findChallenge, Holds, Exists, TypeOK
  <2>2. ASSUME acceptSignature(l) \/ refuseLogin(l) \/ loseLogin(l) PROVE FALSE
    <3>1. logins'[l].at \in {"signed", "refused", "lost"} /\ sessions' = sessions
      BY <1>1, <2>2 DEF acceptSignature, refuseLogin, loseLogin, TypeOK, LoginRecord
    <3> QED  BY <1>3, <3>1 DEF Holds, Exists
  <2> QED
    BY <1>3, <2>1, <2>2 DEF LoginStep, findWallet, claimWallet, createSession
<1>5. logins'[l].challenge = logins[l].challenge /\ logins'[l].at = "consumed"
  BY <1>1, <1>3, <1>4 DEF consume, Holds, Exists, TypeOK, LoginRecord
<1>6. logins'[r] = logins[r]  BY <1>4 DEF consume, TypeOK
<1>7. ChallengeOf(l).consumedAt = Null  BY <1>4, <1>5, ConsumedChallenge
<1>8. ChallengeOf(r).consumedAt \in Nat  BY DEF LoginsOK, LoginOK, InLifetime
<1>9. ChallengeOf(l) = ChallengeOf(r)  BY <1>2, <1>5, <1>6 DEF ChallengeOf
<1> QED  BY <1>7, <1>8, <1>9 DEF Null

\* and of whom their sessions belong to.
LEMMA OwnersKept == TypeOK /\ LoginsOK /\ VisitsOK /\ OwnersDiffer /\ Next => OwnersDiffer'
<1> SUFFICES ASSUME TypeOK, LoginsOK, VisitsOK, OwnersDiffer, Next PROVE OwnersDiffer'
  OBVIOUS
<1>1. (\A r \in Login : LoginKept(r)) => OwnersDiffer'
  BY DEF LoginKept, OwnersDiffer, Holds
<1>2. CASE Tick  BY <1>1, <1>2 DEF Tick, LoginKept, Exists
<1>3. ASSUME NEW c \in Challenge, NEW w \in Wallet, createChallenge(c, w) PROVE OwnersDiffer'
  BY <1>1, <1>3 DEF createChallenge, LoginKept, Exists
<1>4. ASSUME NEW l \in Login, LoginStep(l) PROVE OwnersDiffer'
  <2>1. \A r \in Login \ {l} : LoginKept(r)  BY <1>4, OthersKept
  <2>2. \A r \in Login \ {l} : Holds(r)' => Holds(r) /\ logins'[r] = logins[r]
    BY <2>1 DEF LoginKept, Holds
  <2>3. Holds(l) => logins'[l].challenge = logins[l].challenge
    BY <1>4 DEF LoginStep, findChallenge, acceptSignature, refuseLogin, consume, findWallet,
        claimWallet, createSession, loseLogin, Holds, LoginsOK, LoginOK, TypeOK, LoginRecord
  <2>4. \A r \in Login \ {l} :
            Holds(l)' /\ Holds(r) => logins'[l].challenge # logins'[r].challenge
    <3> SUFFICES ASSUME NEW r \in Login \ {l}, Holds(l)', Holds(r),
                        logins'[l].challenge = logins'[r].challenge
                 PROVE  FALSE
      OBVIOUS
    <3>1. Holds(l)  BY <1>4, NewOwner
    <3>2. logins'[r] = logins[r]  BY <2>1 DEF LoginKept
    <3> QED  BY <2>3, <3>1, <3>2 DEF OwnersDiffer
  <2> QED  BY <2>2, <2>4 DEF OwnersDiffer
<1>5. ASSUME NEW v \in Visit, VisitStep(v) PROVE OwnersDiffer'
  <2>1. (\A r \in Login : SessionKept(r)) /\ logins' = logins  BY <1>5, SessionsKept
  <2>2. \A r \in Login : LoginKept(r)  BY <2>1, KeptWithSession
  <2> QED  BY <1>1, <2>2
<1> QED  BY <1>2, <1>3, <1>4, <1>5 DEF Next
\* A login that claims nothing and creates no session.
LEMMA AccountsFrame ==
    ASSUME TypeOK, LoginsOK, AccountsOK, NEW l \in Login, LoginStep(l),
           users' = users, wallets' = wallets, sessions' = sessions,
           logins'[l].at # "conflict", AccountOK(l)'
    PROVE  AccountsOK'
<1>1. ChallengesKept /\ \A r \in Login \ {l} : LoginKept(r)  BY OthersKept
<1>2. \A r \in Login \ {l} : logins'[r] = logins[r]  BY <1>1 DEF LoginKept
<1>3. OneUserPerWallet'
  BY <1>2 DEF OneUserPerWallet, AccountsOK, Exists
<1>4. ASSUME NEW r \in Login \ {l} PROVE AccountOK(r)'
  <2>1. CASE logins[r].at = "resolved"
    <3>1. Picked(r)  BY <2>1 DEF LoginsOK, LoginOK, Holds
    <3>2. WalletOf(r)' = WalletOf(r)
      BY <1>1, <1>2, <3>1 DEF WalletOf, Picked, ChallengeOf, ChallengesKept
    <3> QED  BY <1>2, <2>1, <3>2 DEF AccountsOK, AccountOK, Unclaimed
  <2>2. CASE logins[r].at # "resolved"  BY <1>2, <2>2 DEF AccountsOK, AccountOK
  <2> QED  BY <2>1, <2>2
<1> QED  BY <1>3, <1>4 DEF AccountsOK

\* The INSERT into wallet accounts gives a wallet to one user.
LEMMA ClaimKeepsAccounts ==
    ASSUME TypeOK, LoginsOK, AccountsOK, NEW l \in Login, claimWallet(l)
    PROVE  AccountsOK'
<1> DEFINE w == WalletOf(l)
<1>1. w \in Wallet  BY PickedRow DEF claimWallet, Holds
<1>2. /\ \A v \in Wallet : wallets[v] # l
      /\ l \notin users
  BY DEF claimWallet, AccountsOK, AccountOK, Unclaimed, OneUserPerWallet, User
<1>3. challenges' = challenges /\ sessions' = sessions  BY DEF claimWallet
<1>4. /\ logins'[l].at = "resolved"
      /\ logins'[l].challenge = logins[l].challenge
      /\ \A r \in Login \ {l} : logins'[r] = logins[r]
  BY DEF claimWallet, TypeOK, LoginRecord
<1>5. /\ logins'[l].user \in User
      /\ wallets' = [wallets EXCEPT ![w] = logins'[l].user]
      /\ wallets[w] # NoUser => logins'[l].user = wallets[w]
      /\ wallets[w] = NoUser => logins'[l].user = l
  <2> DEFINE owner == IF wallets[w] = NoUser THEN l ELSE wallets[w]
  <2>1. owner \in User  BY <1>1 DEF TypeOK, User
  <2>2. logins'[l].user = owner  BY DEF claimWallet, TypeOK, LoginRecord
  <2>3. wallets' = [wallets EXCEPT ![w] = owner]  BY DEF claimWallet
  <2> QED  BY <2>1, <2>2, <2>3
<1>6. \A v \in Wallet : wallets'[v] = IF v = w THEN logins'[l].user ELSE wallets[v]
  BY <1>5 DEF TypeOK
<1>7. \A v \in Wallet : wallets[v] # NoUser => wallets'[v] = wallets[v]  BY <1>5, <1>6
<1>8. \A u \in User : u \in users' <=> \E v \in Wallet : wallets'[v] = u
  <2>1. CASE wallets[w] = NoUser
    <3>1. users' = users \cup {l}  BY <2>1 DEF claimWallet, UsersAfterClaim
    <3>2. \A u \in User : (\E v \in Wallet : wallets'[v] = u)
              <=> u = l \/ \E v \in Wallet : wallets[v] = u
      BY <1>1, <1>5, <1>6, <2>1, NullAssumption DEF User
    <3> QED  BY <3>1, <3>2 DEF AccountsOK, OneUserPerWallet
  <2>2. CASE wallets[w] # NoUser
    <3>1. users' = users  BY <1>2, <2>2 DEF claimWallet, UsersAfterClaim
    <3>2. \A v \in Wallet : wallets'[v] = wallets[v]  BY <1>5, <1>6, <2>2
    <3> QED  BY <3>1, <3>2 DEF AccountsOK, OneUserPerWallet
  <2> QED  BY <2>1, <2>2
<1>9. \A v1, v2 \in Wallet : wallets'[v1] = wallets'[v2] /\ wallets'[v1] # NoUser => v1 = v2
  BY <1>2, <1>5, <1>6 DEF AccountsOK, OneUserPerWallet
<1>10. \A s \in Login : Exists(s)' => wallets'[sessions'[s].wallet] = sessions'[s].user
  <2> SUFFICES ASSUME NEW s \in Login, Exists(s) PROVE wallets'[sessions[s].wallet] = sessions[s].user
    BY <1>3 DEF Exists
  <2>1. sessions[s] \in SessionRow  BY DEF Exists, TypeOK
  <2>2. sessions[s].wallet \in Wallet /\ sessions[s].user # NoUser
    BY <2>1, NullAssumption DEF SessionRow, User
  <2> QED  BY <1>7, <2>2 DEF AccountsOK, OneUserPerWallet
<1>11. \A r \in Login : logins'[r].at # "conflict"
  BY <1>4 DEF AccountsOK, OneUserPerWallet
<1>12. ASSUME NEW r \in Login \ {l} PROVE AccountOK(r)'
  <2>1. CASE logins[r].at = "resolved"
    <3>1. WalletOf(r) \in Wallet  BY <2>1, PickedRow DEF Holds
    <3>2. WalletOf(r)' = WalletOf(r)  BY <1>3, <1>4 DEF WalletOf
    <3>3. logins[r].user \in User /\ wallets[WalletOf(r)] = logins[r].user
      BY <2>1 DEF AccountsOK, AccountOK
    <3> QED  BY <1>4, <1>7, <2>1, <3>1, <3>2, <3>3, NullAssumption DEF AccountOK, User, Unclaimed
  <2>2. CASE logins[r].at # "resolved"
    BY <1>4, <1>5, <1>6, <2>2 DEF AccountsOK, AccountOK
  <2> QED  BY <2>1, <2>2
<1>13. AccountOK(l)'
  BY <1>1, <1>3, <1>4, <1>5, <1>6 DEF AccountOK, Unclaimed, WalletOf
<1> QED
  BY <1>8, <1>9, <1>10, <1>11, <1>12, <1>13 DEF AccountsOK, OneUserPerWallet

\* Users and wallets stay consistent in every step of a login,
LEMMA LoginKeepsAccounts ==
    ASSUME TypeOK, LoginsOK, AccountsOK, NEW l \in Login, LoginStep(l)
    PROVE  AccountsOK'
<1>1. logins[l] \in LoginRecord /\ AccountOK(l)  BY DEF TypeOK, AccountsOK
<1>2. ASSUME NEW c \in Challenge, findChallenge(l, c) PROVE AccountsOK'
  <2>1. logins'[l].at = "found"  BY <1>1, <1>2 DEF findChallenge, TypeOK, LoginRecord
  <2>2. AccountOK(l)'  BY <1>1, <1>2, <2>1 DEF findChallenge, AccountOK, Unclaimed
  <2> QED  BY <1>2, <2>1, <2>2, AccountsFrame DEF findChallenge
<1>3. ASSUME acceptSignature(l) PROVE AccountsOK'
  <2>1. logins'[l].at = "signed"  BY <1>1, <1>3 DEF acceptSignature, TypeOK, LoginRecord
  <2>2. AccountOK(l)'  BY <1>1, <1>3, <2>1 DEF acceptSignature, AccountOK, Unclaimed
  <2> QED  BY <1>3, <2>1, <2>2, AccountsFrame DEF acceptSignature
<1>4. ASSUME refuseLogin(l) \/ loseLogin(l) PROVE AccountsOK'
  <2>1. logins'[l].at \in {"refused", "lost"}
    BY <1>1, <1>4 DEF refuseLogin, loseLogin, TypeOK, LoginRecord
  <2>2. AccountOK(l)'  BY <2>1 DEF AccountOK, Unclaimed
  <2> QED  BY <1>4, <2>1, <2>2, AccountsFrame DEF refuseLogin, loseLogin
<1>5. ASSUME consume(l) PROVE AccountsOK'
  <2>1. logins'[l].at \in {"consumed", "refused"}  BY <1>1, <1>5 DEF consume, TypeOK, LoginRecord
  <2>2. AccountOK(l)'  BY <1>1, <1>5, <2>1 DEF consume, AccountOK, Unclaimed
  <2> QED  BY <1>5, <2>1, <2>2, AccountsFrame DEF consume
<1>6. ASSUME findWallet(l) PROVE AccountsOK'
  <2>1. /\ logins'[l].at = IF wallets[WalletOf(l)] = NoUser THEN "claiming" ELSE "resolved"
        /\ logins'[l].user = wallets[WalletOf(l)]
        /\ logins'[l].challenge = logins[l].challenge
    BY <1>1, <1>6 DEF findWallet, TypeOK, LoginRecord
  <2>2. wallets[WalletOf(l)] \in User \cup {NoUser}
    BY <1>6, PickedRow DEF findWallet, Holds, TypeOK
  <2>3. WalletOf(l)' = WalletOf(l)  BY <1>6, <2>1 DEF findWallet, WalletOf
  <2>4. AccountOK(l)'
    BY <1>1, <1>6, <2>1, <2>2, <2>3 DEF findWallet, AccountOK, Unclaimed
  <2>5. logins'[l].at # "conflict"  BY <2>1
  <2>6. users' = users /\ wallets' = wallets /\ sessions' = sessions  BY <1>6 DEF findWallet
  <2> QED  BY <2>4, <2>5, <2>6, AccountsFrame
<1>7. ASSUME createSession(l) PROVE AccountsOK'
  <2>1. wallets[WalletOf(l)] = logins[l].user  BY <1>1, <1>7 DEF createSession, AccountOK
  <2>2. PICK outcome \in {"answered", "lost"} : logins' = [logins EXCEPT ![l].at = outcome]
    BY <1>7, <2>1 DEF createSession
  <2>3. logins'[l].at = outcome /\ \A r \in Login \ {l} : logins'[r] = logins[r]
    BY <1>1, <2>2 DEF TypeOK, LoginRecord
  <2>4. sessions' = [sessions EXCEPT ![l] = NewSession(l)]  BY <1>7, <2>1 DEF createSession
  <2>5. NewSession(l).wallet = WalletOf(l) /\ NewSession(l).user = logins[l].user
    BY DEF NewSession
  <2>6. UNCHANGED <<challenges, users, wallets>>  BY <1>7 DEF createSession
  <2>7. \A s \in Login : sessions'[s] = IF s = l THEN NewSession(l) ELSE sessions[s]
    BY <2>4 DEF TypeOK
  <2>8. \A s \in Login : Exists(s)' => wallets'[sessions'[s].wallet] = sessions'[s].user
    BY <2>1, <2>5, <2>6, <2>7 DEF Exists, AccountsOK, OneUserPerWallet
  <2>9. OneUserPerWallet'
    BY <2>3, <2>6, <2>8 DEF AccountsOK, OneUserPerWallet
  <2>10. ASSUME NEW r \in Login PROVE AccountOK(r)'
    BY <2>3, <2>6 DEF AccountsOK, AccountOK, Unclaimed, WalletOf
  <2> QED  BY <2>9, <2>10 DEF AccountsOK
<1> QED
  BY <1>2, <1>3, <1>4, <1>5, <1>6, <1>7, ClaimKeepsAccounts DEF LoginStep

\* and in every other step.
LEMMA AccountsKept == TypeOK /\ LoginsOK /\ VisitsOK /\ AccountsOK /\ Next => AccountsOK'
<1> SUFFICES ASSUME TypeOK, LoginsOK, VisitsOK, AccountsOK, Next PROVE AccountsOK'
  OBVIOUS
<1>1. CASE Tick
  BY <1>1 DEF Tick, AccountsOK, AccountOK, OneUserPerWallet, Exists, WalletOf
<1>2. ASSUME NEW c \in Challenge, NEW w \in Wallet, createChallenge(c, w) PROVE AccountsOK'
  <2>1. UNCHANGED <<users, wallets, sessions, logins>>  BY <1>2 DEF createChallenge
  <2>2. OneUserPerWallet'  BY <2>1 DEF AccountsOK, OneUserPerWallet, Exists
  <2>3. ASSUME NEW r \in Login, logins[r].at = "resolved" PROVE WalletOf(r)' = WalletOf(r)
    <3>1. Picked(r)  BY <2>3 DEF LoginsOK, LoginOK, Holds
    <3>2. logins[r].challenge # c  BY <1>2, <3>1 DEF createChallenge, Picked, ChallengeOf
    <3>3. challenges'[logins[r].challenge] = challenges[logins[r].challenge]
      BY <1>2, <3>1, <3>2 DEF createChallenge, Picked, TypeOK
    <3> QED  BY <2>1, <3>3 DEF WalletOf
  <2>4. ASSUME NEW r \in Login PROVE AccountOK(r)'
    BY <2>1, <2>3 DEF AccountsOK, AccountOK
  <2> QED  BY <2>2, <2>4 DEF AccountsOK
<1>3. ASSUME NEW v \in Visit, VisitStep(v) PROVE AccountsOK'
  <2>1. (\A s \in Login : SessionKept(s)) /\ UNCHANGED <<challenges, users, wallets, logins>>
    BY <1>3, SessionsKept
  <2>2. \A s \in Login : Exists(s)' => /\ Exists(s)
                                      /\ sessions'[s].user = sessions[s].user
                                      /\ sessions'[s].wallet = sessions[s].wallet
    BY <2>1 DEF SessionKept
  <2>3. OneUserPerWallet'  BY <2>1, <2>2 DEF AccountsOK, OneUserPerWallet
  <2>4. ASSUME NEW r \in Login PROVE AccountOK(r)'
    BY <2>1 DEF AccountsOK, AccountOK, WalletOf
  <2> QED  BY <2>3, <2>4 DEF AccountsOK
<1> QED  BY <1>1, <1>2, <1>3, LoginKeepsAccounts DEF Next
\* A request whose own record did not change, when sessions are only advanced,
\* revoked or added.
LEMMA VisitFrame ==
    ASSUME TypeOK, NEW v \in Visit, VisitOK(v), visits'[v] = visits[v],
           now' \in Nat, now <= now',
           \A s \in Login : Exists(s) =>
               /\ Exists(s)'
               /\ sessions'[s].createdAt = sessions[s].createdAt
               /\ sessions[s].revokedAt = Null \/ sessions'[s].revokedAt = sessions[s].revokedAt
    PROVE  VisitOK(v)'
<1> DEFINE s == visits[v].session
<1>1. visits[v].at \in {"accessing", "revoking", "answered"} \/ visits[v].closed =>
          /\ s \in Login /\ Exists(s)'
          /\ sessions'[s].createdAt = sessions[s].createdAt
          /\ sessions[s].revokedAt # Null => sessions'[s].revokedAt # Null
  BY DEF VisitOK
<1>2. visits[v].at \in {"accessing", "revoking"} => visits[v].time <= now'
  BY DEF VisitOK, TypeOK
<1> QED  BY <1>1, <1>2 DEF VisitOK

\* Every step keeps what is known of requests with a cookie,
LEMMA VisitsKept ==
    TypeOK /\ LoginsOK /\ VisitsOK /\ SessionsOK /\ TypeOK' /\ Next => VisitsOK'
<1> SUFFICES ASSUME TypeOK, LoginsOK, VisitsOK, SessionsOK, TypeOK', Next PROVE VisitsOK'
  OBVIOUS
<1>1. now \in Nat /\ now' \in Nat  BY DEF TypeOK
<1>2. sessions' = sessions => \A s \in Login : Exists(s) =>
          /\ Exists(s)'
          /\ sessions'[s].createdAt = sessions[s].createdAt
          /\ sessions[s].revokedAt = Null \/ sessions'[s].revokedAt = sessions[s].revokedAt
  BY DEF Exists
<1>3. CASE Tick
  <2>1. visits' = visits /\ sessions' = sessions /\ now <= now'  BY <1>1, <1>3 DEF Tick
  <2> QED  BY <1>1, <1>2, <2>1, VisitFrame DEF VisitsOK
<1>4. ASSUME NEW c \in Challenge, NEW w \in Wallet, createChallenge(c, w) PROVE VisitsOK'
  <2>1. visits' = visits /\ sessions' = sessions /\ now <= now'
    BY <1>1, <1>4 DEF createChallenge
  <2> QED  BY <1>1, <1>2, <2>1, VisitFrame DEF VisitsOK
<1>5. ASSUME NEW l \in Login, LoginStep(l) PROVE VisitsOK'
  <2>1. visits' = visits /\ now' = now
    BY <1>5 DEF LoginStep, findChallenge, acceptSignature, refuseLogin, consume, findWallet,
                claimWallet, createSession, loseLogin
  <2>2. \A s \in Login : Exists(s) => sessions'[s] = sessions[s]
    <3>1. CASE createSession(l)
      <4>1. ~Exists(l)  BY <3>1 DEF createSession, LoginsOK, LoginOK
      <4> QED  BY <3>1, <4>1 DEF createSession, TypeOK
    <3>2. CASE ~createSession(l)
      BY <1>5, <3>2 DEF LoginStep, findChallenge, acceptSignature, refuseLogin, consume,
                        findWallet, claimWallet, loseLogin
    <3> QED  BY <3>1, <3>2
  <2> QED  BY <1>1, <2>1, <2>2, VisitFrame DEF VisitsOK, Exists
<1>6. ASSUME NEW v \in Visit, VisitStep(v) PROVE VisitsOK'
  <2>1. now' = now /\ \A s \in Login : SessionKept(s)  BY <1>6, SessionsKept
  <2>2. \A r \in Visit \ {v} : visits'[r] = visits[r]
    BY <1>6 DEF VisitStep, arrive, findAndAdvanceActiveSession, revoke, loseVisit, TypeOK
  <2>3. \A r \in Visit \ {v} : VisitOK(r)'
    BY <1>1, <2>1, <2>2, VisitFrame DEF VisitsOK, SessionKept
  <2>4. visits[v] \in VisitRecord /\ VisitOK(v)  BY DEF VisitsOK, TypeOK
  <2>5. ASSUME NEW s \in Login, NEW kind \in Kind, arrive(v, s, kind) PROVE VisitOK(v)'
    <3>1. visits'[v] = [at |-> "accessing", session |-> s, time |-> now,
                        kind |-> kind, closed |-> LogoutAnswered(s)]
      BY <2>5 DEF arrive, TypeOK
    <3>2. Exists(s) /\ sessions' = sessions  BY <2>5 DEF arrive, Exists
    <3>3. sessions[s].createdAt <= now  BY <3>2 DEF SessionsOK, SessionOK
    <3>4. LogoutAnswered(s) => sessions[s].revokedAt # Null
      BY DEF LogoutAnswered, VisitsOK, VisitOK
    <3> QED  BY <1>1, <2>1, <3>1, <3>2, <3>3, <3>4 DEF VisitOK, Exists
  <2>6. ASSUME findAndAdvanceActiveSession(v) PROVE VisitOK(v)'
    <3> DEFINE s == visits[v].session
    <3>1. s \in Login /\ visits[v].at = "accessing"
      BY <2>6, VisitedRow DEF findAndAdvanceActiveSession
    <3>2. /\ visits'[v].session = s /\ visits'[v].time = visits[v].time
          /\ visits'[v].kind = visits[v].kind /\ visits'[v].closed = visits[v].closed
      BY <2>4, <2>6 DEF findAndAdvanceActiveSession, TypeOK, VisitRecord
    <3>3. SessionKept(s)  BY <2>1, <3>1
    <3>4. CASE visits'[v].at = "refused"
      BY <2>4, <3>1, <3>2, <3>3, <3>4 DEF VisitOK, SessionKept
    <3>5. CASE visits'[v].at = IF visits[v].kind = "logout" THEN "revoking" ELSE "answered"
      <4>1. CASE visits'[v].at = "refused"  BY <3>4, <4>1
      <4>2. CASE sessions[s].revokedAt = Null
        <5>1. ~visits[v].closed  BY <2>4, <4>2 DEF VisitOK
        <5> QED  BY <2>1, <2>4, <3>1, <3>2, <3>3, <3>5, <5>1 DEF VisitOK, SessionKept
      <4>3. CASE sessions[s].revokedAt # Null
        BY <2>6, <3>5, <4>3, FoundSession DEF Active
      <4> QED  BY <4>2, <4>3
    <3> QED  BY <2>6, <3>4, <3>5, FoundSession
  <2>7. ASSUME revoke(v) PROVE VisitOK(v)'
    <3> DEFINE s == visits[v].session
    <3>1. /\ s \in Login /\ sessions[s] \in SessionRow /\ visits[v].time \in Nat
      BY <2>7, VisitedRow DEF revoke
    <3>2. /\ visits'[v].at = "answered" /\ visits'[v].session = s
          /\ visits'[v].kind = visits[v].kind /\ visits'[v].closed = visits[v].closed
      BY <2>4, <2>7 DEF revoke, TypeOK, VisitRecord
    <3>3. ~visits[v].closed  BY <2>4, <2>7 DEF revoke, VisitOK
    <3>4. sessions'[s].revokedAt # Null
      <4>1. CASE sessions[s].revokedAt # Null  BY <2>7, <4>1 DEF revoke
      <4>2. CASE sessions[s].revokedAt = Null
        <5>1. PICK time \in visits[v].time .. now :
                  sessions' = [sessions EXCEPT ![s].revokedAt = time]
          BY <2>7, <4>2 DEF revoke
        <5>2. sessions'[s].revokedAt = time  BY <3>1, <5>1 DEF TypeOK, SessionRow
        <5>3. time \in Nat  BY <1>1, <3>1
        <5> QED  BY <5>2, <5>3 DEF Null
      <4> QED  BY <4>1, <4>2
    <3>5. Exists(s)'
      BY <2>1, <2>4, <2>7, <3>1 DEF revoke, VisitOK, SessionKept
    <3> QED  BY <3>1, <3>2, <3>3, <3>4, <3>5 DEF VisitOK
  <2>8. ASSUME loseVisit(v) PROVE VisitOK(v)'
    <3>1. /\ visits'[v].at = "lost" /\ visits'[v].session = visits[v].session
          /\ visits'[v].closed = visits[v].closed /\ sessions' = sessions
      BY <2>4, <2>8 DEF loseVisit, TypeOK, VisitRecord
    <3> QED  BY <2>4, <3>1 DEF VisitOK, Exists
  <2>9. VisitOK(v)'  BY <1>6, <2>5, <2>6, <2>7, <2>8 DEF VisitStep
  <2> QED  BY <2>3, <2>9 DEF VisitsOK
<1> QED  BY <1>3, <1>4, <1>5, <1>6 DEF Next
\* The heart of IdleFollowsLastSeen: least and greatest commute with the idle period.
LEMMA AdvancedTimes ==
    ASSUME NEW absolute \in Nat, NEW seen \in Nat, NEW idle \in Nat, NEW time \in Nat,
           idle = Earlier(absolute, seen + SESSION_IDLE_TTL)
    PROVE  Earlier(absolute, Later(idle, time + SESSION_IDLE_TTL))
               = Earlier(absolute, Later(seen, time) + SESSION_IDLE_TTL)
BY TimeAssumption DEF Earlier, Later

\* and the order of the times of a session.
LEMMA TimesKept ==
    TypeOK /\ LoginsOK /\ VisitsOK /\ SessionsOK /\ TypeOK' /\ Next => SessionsOK'
<1> SUFFICES ASSUME TypeOK, LoginsOK, VisitsOK, SessionsOK, TypeOK', Next PROVE SessionsOK'
  OBVIOUS
<1>1. now \in Nat /\ now' \in Nat  BY DEF TypeOK
<1>2. ASSUME NEW s \in Login, sessions'[s] = sessions[s], now <= now' PROVE SessionOK(s)'
  <2>1. Exists(s) => sessions[s].createdAt \in Nat  BY DEF Exists, TypeOK, SessionRow
  <2> QED  BY <1>1, <1>2, <2>1 DEF SessionsOK, SessionOK, Exists
<1>3. CASE Tick
  <2>1. sessions' = sessions /\ now <= now'  BY <1>1, <1>3 DEF Tick
  <2> QED  BY <1>2, <2>1 DEF SessionsOK
<1>4. ASSUME NEW c \in Challenge, NEW w \in Wallet, createChallenge(c, w) PROVE SessionsOK'
  <2>1. sessions' = sessions /\ now <= now'  BY <1>1, <1>4 DEF createChallenge
  <2> QED  BY <1>2, <2>1 DEF SessionsOK
<1>5. ASSUME NEW l \in Login, LoginStep(l) PROVE SessionsOK'
  <2>1. now <= now'  BY <1>1, <1>5, OthersKept
  <2>2. CASE createSession(l)
    <3>1. \A s \in Login \ {l} : sessions'[s] = sessions[s]  BY <2>2 DEF createSession, TypeOK
    <3>2. sessions'[l] = NewSession(l) \/ sessions'[l] = sessions[l]
      BY <2>2 DEF createSession, TypeOK
    <3>3. ASSUME sessions'[l] = NewSession(l) PROVE SessionOK(l)'
      <4>1. logins[l].consumedAt \in Nat /\ logins[l].consumedAt <= now
        BY <2>2 DEF createSession, LoginsOK, LoginOK, Holds, InLifetime
      <4>2. /\ NewSession(l).createdAt = logins[l].consumedAt
            /\ NewSession(l).lastSeenAt = logins[l].consumedAt
            /\ NewSession(l).absoluteExpiresAt = logins[l].consumedAt + SESSION_ABSOLUTE_TTL
            /\ NewSession(l).idleExpiresAt = logins[l].consumedAt + SESSION_IDLE_TTL
            /\ NewSession(l).revokedAt = Null
        BY DEF NewSession
      <4> HIDE DEF NewSession
      <4> QED  BY <1>1, <2>1, <3>3, <4>1, <4>2, TimeAssumption DEF SessionOK, Earlier
    <3> QED  BY <1>2, <2>1, <3>1, <3>2, <3>3 DEF SessionsOK
  <2>3. CASE ~createSession(l)
    <3>1. sessions' = sessions
      BY <1>5, <2>3 DEF LoginStep, findChallenge, acceptSignature, refuseLogin, consume,
                        findWallet, claimWallet, loseLogin
    <3> QED  BY <1>2, <2>1, <3>1 DEF SessionsOK
  <2> QED  BY <2>2, <2>3
<1>6. ASSUME NEW v \in Visit, VisitStep(v) PROVE SessionsOK'
  <2>1. now' = now  BY <1>6, SessionsKept
  <2>2. sessions' = sessions => SessionsOK'  BY <1>1, <1>2, <2>1 DEF SessionsOK
  <2>3. CASE findAndAdvanceActiveSession(v)
    <3>0. PICK s \in Login : s = visits[v].session
      BY <2>3, VisitedRow DEF findAndAdvanceActiveSession
    <3> DEFINE time == visits[v].time
               row == sessions[s]
               new == Advanced(row, time)
    <3>1. row \in SessionRow /\ row # NoSession /\ time \in Nat
      BY <2>3, <3>0, VisitedRow DEF findAndAdvanceActiveSession
    <3>2. CASE Active(row, time) /\ sessions' = [sessions EXCEPT ![s] = new]
      <4>1. \A r \in Login : sessions'[r] = IF r = s THEN new ELSE sessions[r]
        BY <3>2 DEF TypeOK
      <4>2. /\ row.createdAt \in Nat /\ row.absoluteExpiresAt \in Nat
            /\ row.idleExpiresAt \in Nat /\ row.lastSeenAt \in Nat
        BY <3>1 DEF SessionRow
      <4>3. /\ new.createdAt = row.createdAt /\ new.revokedAt = row.revokedAt
            /\ new.absoluteExpiresAt = row.absoluteExpiresAt
            /\ new.lastSeenAt = Later(row.lastSeenAt, time)
            /\ new.idleExpiresAt = Earlier(row.absoluteExpiresAt,
                                          Later(row.idleExpiresAt, time + SESSION_IDLE_TTL))
        BY <3>1, AdvancedFields
      <4>4. SessionOK(s) /\ Exists(s)  BY <3>1 DEF SessionsOK, Exists
      <4>5. new.idleExpiresAt = Earlier(new.absoluteExpiresAt, new.lastSeenAt + SESSION_IDLE_TTL)
        BY <4>2, <4>3, <4>4, <3>1, AdvancedTimes DEF SessionOK
      <4>6. new.createdAt <= new.lastSeenAt /\ new.lastSeenAt < new.absoluteExpiresAt
        BY <3>1, <3>2, <4>2, <4>3, <4>4 DEF SessionOK, Later, Active
      <4>7. sessions'[s] = new  BY <3>1, <4>1
      <4> HIDE DEF new
      <4>8. SessionOK(s)'
        BY <2>1, <4>3, <4>4, <4>5, <4>6, <4>7 DEF SessionOK
      <4>9. \A r \in Login \ {s} : SessionOK(r)'  BY <1>1, <1>2, <2>1, <4>1
      <4> QED  BY <4>8, <4>9 DEF SessionsOK
    <3> QED  BY <2>2, <2>3, <3>0, <3>2, FoundSession
  <2>4. CASE revoke(v)
    <3>0. PICK s \in Login : s = visits[v].session  BY <2>4, VisitedRow DEF revoke
    <3>1. /\ sessions[s] \in SessionRow /\ sessions[s] # NoSession
          /\ visits[v].time \in Nat
      BY <2>4, <3>0, VisitedRow DEF revoke
    <3>2. CASE sessions' = sessions  BY <2>2, <3>2
    <3>3. ASSUME NEW time \in visits[v].time .. now,
                 sessions' = [sessions EXCEPT ![s].revokedAt = time]
          PROVE  SessionsOK'
      <4> DEFINE new == [sessions[s] EXCEPT !.revokedAt = time]
      <4>1. \A r \in Login : sessions'[r] = IF r = s THEN new ELSE sessions[r]
        BY <3>3 DEF TypeOK
      <4>2. /\ new.createdAt = sessions[s].createdAt /\ new.revokedAt = time
            /\ new.absoluteExpiresAt = sessions[s].absoluteExpiresAt
            /\ new.lastSeenAt = sessions[s].lastSeenAt
            /\ new.idleExpiresAt = sessions[s].idleExpiresAt
        BY <3>1 DEF SessionRow
      <4>3. sessions[s].createdAt <= visits[v].time
        BY <2>4, <3>0 DEF revoke, VisitsOK, VisitOK
      <4>4. sessions[s].createdAt <= time
        BY <1>1, <3>1, <4>3 DEF SessionRow
      <4>5. SessionOK(s) /\ Exists(s) /\ sessions'[s] = new
        BY <3>1, <4>1 DEF SessionsOK, Exists
      <4> HIDE DEF new
      <4>6. SessionOK(s)'  BY <2>1, <4>2, <4>4, <4>5 DEF SessionOK
      <4>7. \A r \in Login \ {s} : SessionOK(r)'  BY <1>1, <1>2, <2>1, <4>1
      <4> QED  BY <4>6, <4>7 DEF SessionsOK
    <3> QED  BY <2>4, <3>0, <3>2, <3>3 DEF revoke
  <2> QED  BY <1>6, <2>2, <2>3, <2>4 DEF VisitStep, arrive, loseVisit
<1> QED  BY <1>3, <1>4, <1>5, <1>6 DEF Next

--------------------------------------------------------------------------------
\* The invariant holds in every reachable state.
LEMMA InvariantHolds == Spec => []IInv
<1>1. IInv /\ UNCHANGED vars => IInv'
  BY DEF vars, IInv, TypeOK, LoginsOK, LoginOK, Holds, Picked, InLifetime, ChallengeOf,
         WalletOf, OwnersDiffer, AccountsOK, AccountOK, OneUserPerWallet, VisitsOK, VisitOK,
         SessionsOK, SessionOK, Exists
<1>2. IInv /\ Next => IInv'
  BY TypesKept, LoginsKept, OwnersKept, AccountsKept, VisitsKept, TimesKept DEF IInv
<1> QED  BY <1>1, <1>2, InitHolds, PTL DEF Spec

\* Every variable keeps its type.
THEOREM TypeCorrect == Spec => []TypeOK
<1>1. IInv => TypeOK  BY DEF IInv
<1> QED  BY <1>1, InvariantHolds, PTL

\* Whatever requests for one challenge overlap, and wherever the server is
\* stopped, a challenge makes at most one session, of its own wallet and inside
\* its own lifetime (WalletAuthService.verifyChallenge).
THEOREM OneSessionPerChallengeHolds == Spec => []OneSessionPerChallenge
<1>1. IInv => OneSessionPerChallenge
  <2> SUFFICES ASSUME IInv, NEW s \in Login, Exists(s)
               PROVE  LET c == logins[s].challenge IN
                      /\ challenges[c].wallet = sessions[s].wallet
                      /\ challenges[c].consumedAt = sessions[s].createdAt
                      /\ challenges[c].issuedAt <= sessions[s].createdAt
                      /\ sessions[s].createdAt < challenges[c].expiresAt
                      /\ \A r \in Login : Exists(r) /\ logins[r].challenge = c => r = s
    BY DEF OneSessionPerChallenge
  <2>1. LoginOK(s) /\ Holds(s)  BY DEF IInv, LoginsOK, Holds
  <2>2. \A r \in Login : Exists(r) /\ logins[r].challenge = logins[s].challenge => r = s
    BY DEF IInv, OwnersDiffer, Holds
  <2> QED  BY <2>1, <2>2 DEF LoginOK, InLifetime, ChallengeOf, WalletOf
<1> QED  BY <1>1, InvariantHolds, PTL

\* Concurrent first logins of one wallet end with one user, and leave no other
\* (DrizzleWalletAccountResolver.findOrCreateVerifiedWallet).
THEOREM OneUserPerWalletHolds == Spec => []OneUserPerWallet
<1>1. IInv => OneUserPerWallet  BY DEF IInv, AccountsOK
<1> QED  BY <1>1, InvariantHolds, PTL

\* The idle expiry follows the latest access in whatever order the statements of
\* overlapping requests arrive (findAndAdvanceActiveSession).
THEOREM IdleFollowsLastSeenHolds == Spec => []IdleFollowsLastSeen
<1>1. IInv => IdleFollowsLastSeen
  BY DEF IInv, SessionsOK, SessionOK, IdleFollowsLastSeen
<1> QED  BY <1>1, InvariantHolds, PTL

\* No statement on a session is refused by browser_sessions_lifetime.
THEOREM LifetimeCheckHoldsAlways == Spec => []LifetimeCheckHolds
<1>1. IInv => LifetimeCheckHolds
  <2> SUFFICES ASSUME IInv, NEW s \in Login, Exists(s)
               PROVE  LET row == sessions[s] IN
                      /\ row.createdAt < row.idleExpiresAt
                      /\ row.idleExpiresAt <= row.absoluteExpiresAt
                      /\ row.createdAt <= row.lastSeenAt
                      /\ row.lastSeenAt < row.absoluteExpiresAt
                      /\ row.revokedAt # Null => row.createdAt <= row.revokedAt
    BY DEF LifetimeCheckHolds
  <2>1. SessionOK(s)  BY DEF IInv, SessionsOK
  <2>2. sessions[s] \in SessionRow  BY DEF IInv, TypeOK, Exists
  <2>3. /\ sessions[s].createdAt \in Nat /\ sessions[s].absoluteExpiresAt \in Nat
        /\ sessions[s].idleExpiresAt \in Nat /\ sessions[s].lastSeenAt \in Nat
    BY <2>2 DEF SessionRow
  <2> QED  BY <2>1, <2>3, TimeAssumption DEF SessionOK, Earlier
<1> QED  BY <1>1, InvariantHolds, PTL

\* After an answered logout no later request with the cookie is let in.
THEOREM LogoutIsFinalHolds == Spec => []LogoutIsFinal
<1>1. IInv => LogoutIsFinal  BY DEF IInv, VisitsOK, VisitOK, LogoutIsFinal
<1> QED  BY <1>1, InvariantHolds, PTL
\* A session found idle stays out of reach: the statement of every access under
\* way carries a time past its idle expiry (activeSessionPredicates).
LEMMA DeadStep ==
    ASSUME IInv, [Next]_vars, NEW s \in Login, Dead(s)
    PROVE  Dead(s)'
<1>1. TypeOK /\ LoginsOK /\ VisitsOK /\ now \in Nat  BY DEF IInv, TypeOK
<1>2. Exists(s) /\ sessions[s] \in SessionRow /\ sessions[s].idleExpiresAt \in Nat
  BY <1>1 DEF Dead, Exists, TypeOK, SessionRow
<1>3. ASSUME sessions'[s] = sessions[s], visits' = visits, now' \in Nat, now <= now'
      PROVE  Dead(s)'
  BY <1>1, <1>2, <1>3 DEF Dead, Exists
<1>4. CASE UNCHANGED vars  BY <1>1, <1>3, <1>4 DEF vars
<1>5. CASE Tick  BY <1>1, <1>3, <1>5 DEF Tick
<1>6. ASSUME NEW c \in Challenge, NEW w \in Wallet, createChallenge(c, w) PROVE Dead(s)'
  BY <1>1, <1>3, <1>6 DEF createChallenge
<1>7. ASSUME NEW l \in Login, LoginStep(l) PROVE Dead(s)'
  <2>1. visits' = visits /\ now' = now
    BY <1>7 DEF LoginStep, findChallenge, acceptSignature, refuseLogin, consume, findWallet,
                claimWallet, createSession, loseLogin
  <2>2. CASE createSession(l)
    <3>1. s # l  BY <1>1, <1>2, <2>2 DEF createSession, LoginsOK, LoginOK
    <3>2. sessions'[s] = sessions[s]  BY <1>1, <2>2, <3>1 DEF createSession, TypeOK
    <3> QED  BY <1>1, <1>3, <2>1, <3>2
  <2>3. CASE ~createSession(l)
    <3>1. sessions' = sessions
      BY <1>7, <2>3 DEF LoginStep, findChallenge, acceptSignature, refuseLogin, consume,
                        findWallet, claimWallet, loseLogin
    <3> QED  BY <1>1, <1>3, <2>1, <3>1
  <2> QED  BY <2>2, <2>3
<1>8. ASSUME NEW v \in Visit, VisitStep(v) PROVE Dead(s)'
  <2>1. now' = now /\ SessionKept(s)  BY <1>1, <1>8, SessionsKept
  <2>2. \A r \in Visit \ {v} : visits'[r] = visits[r]
    BY <1>1, <1>8 DEF VisitStep, arrive, findAndAdvanceActiveSession, revoke, loseVisit, TypeOK
  <2>3. visits[v] \in VisitRecord  BY <1>1 DEF TypeOK
  <2>4. sessions'[s].idleExpiresAt = sessions[s].idleExpiresAt
    <3>1. CASE findAndAdvanceActiveSession(v)
      <4>1. visits[v].session \in Login /\ visits[v].time \in Nat /\ visits[v].at = "accessing"
        BY <1>1, <3>1, VisitedRow DEF findAndAdvanceActiveSession
      <4>2. CASE visits[v].session = s
        <5>1. sessions[s].idleExpiresAt <= visits[v].time  BY <4>1, <4>2 DEF Dead
        <5>2. ~Active(sessions[s], visits[v].time)
          BY <1>2, <4>1, <5>1 DEF Active
        <5> QED  BY <1>1, <3>1, <4>2, <5>2, FoundSession
      <4>3. CASE visits[v].session # s
        <5>1. sessions'[s] = sessions[s]
          BY <1>1, <3>1, <4>1, <4>3, FoundSession DEF TypeOK
        <5> QED  BY <5>1
      <4> QED  BY <4>2, <4>3
    <3>2. CASE revoke(v)
      <4>1. visits[v].session \in Login  BY <1>1, <3>2, VisitedRow DEF revoke
      <4>2. CASE sessions' = sessions  BY <4>2
      <4>3. ASSUME NEW time \in visits[v].time .. now,
                   sessions' = [sessions EXCEPT ![visits[v].session].revokedAt = time]
            PROVE  sessions'[s].idleExpiresAt = sessions[s].idleExpiresAt
        BY <1>1, <1>2, <4>1, <4>3 DEF TypeOK, SessionRow
      <4> QED  BY <3>2, <4>2, <4>3 DEF revoke
    <3>3. CASE ~findAndAdvanceActiveSession(v) /\ ~revoke(v)
      BY <1>8, <3>3 DEF VisitStep, arrive, loseVisit
    <3> QED  BY <3>1, <3>2, <3>3
  <2>5. visits'[v].at = "accessing" => visits'[v].time = now
    BY <1>1, <1>8, <2>3
    DEF VisitStep, arrive, findAndAdvanceActiveSession, revoke, loseVisit, TypeOK, VisitRecord
  <2> QED  BY <1>1, <1>2, <2>1, <2>2, <2>4, <2>5 DEF Dead, SessionKept
<1> QED  BY <1>4, <1>5, <1>6, <1>7, <1>8 DEF Next

\* A session that has gone idle is never revived.
THEOREM IdleSessionStaysDeadHolds == Spec => IdleSessionStaysDead
<1>1. IInv /\ [Next]_vars => [\A s \in Login : Dead(s) => Dead(s)']_vars
  BY DeadStep
<1> QED  BY <1>1, InvariantHolds, PTL DEF Spec, IdleSessionStaysDead
================================================================================
