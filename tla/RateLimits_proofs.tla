--------------------------- MODULE RateLimits_proofs ---------------------------
(***************************************************************************)
(* The rate limiters keep what RateLimitsProps states, for any number of   *)
(* requests, any limits and any length of the window: the rate the table   *)
(* grants, and that nobody is refused who was within it.                   *)
(***************************************************************************)
EXTENDS RateLimitsProps, FiniteSetTheorems, TLAPS

LEMMA Constants ==
    /\ GLOBAL_MAX \in Nat \ {0} /\ SUBJECT_MAX \in Nat \ {0}
    /\ WINDOW \in Nat \ {0} /\ CLEANUP_PERIOD \in Nat \ {0}
    /\ MaxLate \in Nat /\ MaxTime \in Nat /\ MaxLate < WINDOW
    /\ \A k \in Key : maxAttempts(k) \in Nat \ {0}
  BY LimitAssumption, BoundAssumption DEF maxAttempts

\* A request under way is a call record.
LEMMA UnderWay ==
    ASSUME TypeOK, NEW c \in Call, calls[c].at # "idle"
    PROVE  calls[c] \in CallRecord /\ KeyOf(calls[c]) \in Key
<1>1. calls[c] \in CallRecord  BY DEF TypeOK, Idle
<1> QED  BY <1>1 DEF KeyOf, Key, CallRecord, Limiter

\* The row a window opens with.
LEMMA OpenWindow ==
    ASSUME NEW time \in Nat
    PROVE  /\ Open(time) \in Window
           /\ Open(time) # NoWindow
           /\ Open(time).startedAt = time
           /\ Open(time).expiresAt = time + WINDOW
           /\ Open(time).requestCount = 1
  BY Constants, NoWindowAssumption DEF Open, Window

\* What consume may do to the row of its key: open a window, or count one more.
LEMMA NextWindowCases ==
    ASSUME TypeOK, NEW k \in Key, NEW time \in Nat, NEW window \in NextWindow(k, time)
    PROVE  \/ /\ window = Open(time)
              /\ windows[k] = NoWindow \/ windows[k].expiresAt <= time
           \/ /\ windows[k] # NoWindow
              /\ window \in Window
              /\ window.startedAt = windows[k].startedAt
              /\ window.expiresAt = windows[k].expiresAt
              /\ window.requestCount = windows[k].requestCount + 1
              /\ windows[k].requestCount < maxAttempts(k)
  BY DEF NextWindow, HasRoom, TypeOK, Window

\* A request that goes on is a call record again, at the same time.
LEMMA ProceedTypes ==
    ASSUME TypeOK, NEW c \in Call, calls[c].at # "idle"
    PROVE  /\ Proceed(c) \in CallRecord \cup {Idle}
           /\ Proceed(c).at # "idle" => Proceed(c).time = calls[c].time
  BY UnderWay DEF Proceed, CallRecord, Limiter, Idle

LEMMA InitTypes == Init => TypeOK
  BY Constants DEF Init, TypeOK, Limiter, Attempt

\* Types are kept by consume.
LEMMA ConsumeTypes ==
    ASSUME TypeOK, NEW c \in Call, consume(c),
           \A k \in Key : IsFiniteSet(consumed[k])
    PROVE  TypeOK'
<1> DEFINE k == KeyOf(calls[c])
           time == calls[c].time
<1>1. calls[c] \in CallRecord /\ k \in Key  BY UnderWay DEF consume
<1>2. time \in Nat  BY <1>1 DEF CallRecord
<1>3. calls' \in [Call -> CallRecord \cup {Idle}]
  <2>1. calls' = [calls EXCEPT ![c].at = "returning", ![c].allowed = NextWindow(k, time) # {}]
    BY DEF consume
  <2>2. [calls[c] EXCEPT !.at = "returning", !.allowed = NextWindow(k, time) # {}] \in CallRecord
    BY <1>1 DEF CallRecord
  <2> QED  BY <2>1, <2>2, <1>1 DEF TypeOK
<1> DEFINE Typed(j) == windows'[j] # NoWindow =>
                          /\ windows'[j] \in Window
                          /\ windows'[j].startedAt < windows'[j].expiresAt
                          /\ windows'[j].requestCount <= maxAttempts(j)
<1>4. DOMAIN windows' = Key /\ \A j \in Key : Typed(j)
  <2>1. CASE UNCHANGED windows  BY <2>1 DEF TypeOK
  <2>2. ASSUME NEW window \in NextWindow(k, time),
               windows' = [windows EXCEPT ![k] = window]
        PROVE  DOMAIN windows' = Key /\ \A j \in Key : Typed(j)
    <3>1. /\ window \in Window
          /\ window.startedAt < window.expiresAt
          /\ window.requestCount <= maxAttempts(k)
      <4>1. CASE window = Open(time)
        BY <4>1, <1>1, <1>2, OpenWindow, Constants
      <4>2. CASE window # Open(time)
        <5>1. maxAttempts(k) \in Nat  BY <1>1, Constants
        <5> QED  BY <4>2, <5>1, <1>1, <1>2, <2>2, NextWindowCases DEF TypeOK, Window
      <4> QED  BY <4>1, <4>2
    <3> QED  BY <3>1, <2>2, <1>1 DEF TypeOK
  <2>3. \/ \E window \in NextWindow(k, time) : windows' = [windows EXCEPT ![k] = window]
        \/ UNCHANGED windows
    BY DEF consume
  <2> QED  BY <2>1, <2>2, <2>3
<1>5. consumed' \in [Key -> SUBSET Attempt]
  <2>1. Cardinality(consumed[k]) + 1 \in Nat \ {0}
    BY <1>1, FS_CardinalityType
  <2>2. [at |-> now, nth |-> Cardinality(consumed[k]) + 1] \in Attempt
    BY <2>1 DEF TypeOK, Attempt
  <2> QED  BY <2>2, <1>1 DEF TypeOK, consume
<1> QED  BY <1>3, <1>4, <1>5 DEF TypeOK, consume

\* Types are kept by the other steps.
LEMMA OtherTypes ==
    ASSUME TypeOK, [Next]_vars, \A c \in Call : ~consume(c)
    PROVE  TypeOK'
<1>1. CASE Tick  BY <1>1, Constants DEF Tick, TypeOK
<1>2. CASE restart  BY <1>2, Constants DEF restart, TypeOK, Limiter
<1>3. CASE UNCHANGED vars  BY <1>3 DEF vars, TypeOK
<1>4. ASSUME NEW c \in Call, NEW s \in Subject, arrive(c, s)
      PROVE  TypeOK'
  <2>1. calls' \in [Call -> CallRecord \cup {Idle}]
    BY <1>4 DEF arrive, TypeOK, CallRecord, Limiter
  <2> QED  BY <2>1, <1>4 DEF arrive, TypeOK
<1>5. ASSUME NEW c \in Call, resume(c)
      PROVE  TypeOK'
  <2> DEFINE left == LessOne(requestsUntilCleanup[calls[c].limiter])
  <2>1. calls[c] \in CallRecord  BY <1>5, UnderWay DEF resume
  <2>2. left \in -1..CLEANUP_PERIOD
    BY <2>1, Constants DEF TypeOK, CallRecord, LessOne
  <2>3. requestsUntilCleanup' \in [Limiter -> -1..CLEANUP_PERIOD]
    BY <1>5, <2>1, <2>2 DEF resume, TypeOK, CallRecord
  <2>4. [calls[c] EXCEPT !.at = "cleaning"] \in CallRecord
    BY <2>1 DEF CallRecord
  <2>5. Proceed(c) \in CallRecord \cup {Idle}  BY <1>5, ProceedTypes DEF resume
  <2>6. calls' \in [Call -> CallRecord \cup {Idle}]
    BY <1>5, <2>4, <2>5 DEF resume, TypeOK
  <2> QED  BY <1>5, <2>3, <2>6 DEF resume, TypeOK
<1>6. ASSUME NEW c \in Call, deleteExpired(c)
      PROVE  TypeOK'
  <2>1. calls[c] \in CallRecord  BY <1>6, UnderWay DEF deleteExpired
  <2>2. requestsUntilCleanup' \in [Limiter -> -1..CLEANUP_PERIOD]
    BY <1>6, <2>1, Constants DEF deleteExpired, TypeOK, CallRecord
  <2>3. Proceed(c) \in CallRecord \cup {Idle}  BY <1>6, ProceedTypes DEF deleteExpired
  <2>4. calls' \in [Call -> CallRecord \cup {Idle}]
    BY <1>6, <2>3 DEF deleteExpired, TypeOK
  <2>5. /\ DOMAIN windows' = Key
        /\ \A k \in Key : windows'[k] = NoWindow \/ windows'[k] = windows[k]
    BY <1>6 DEF deleteExpired
  <2>6. /\ now' \in 0..MaxTime
        /\ consumed' \in [Key -> SUBSET Attempt]
    BY <1>6 DEF deleteExpired, TypeOK
  <2>7. \A k \in Key : windows'[k] # NoWindow =>
            /\ windows'[k] \in Window
            /\ windows'[k].startedAt < windows'[k].expiresAt
            /\ windows'[k].requestCount <= maxAttempts(k)
    BY <2>5 DEF TypeOK
  <2> QED  BY <2>2, <2>4, <2>5, <2>6, <2>7 DEF TypeOK
<1>7. ASSUME NEW c \in Call, fail(c)
      PROVE  TypeOK'
  BY <1>7 DEF fail, TypeOK
<1> QED  BY <1>1, <1>2, <1>3, <1>4, <1>5, <1>6, <1>7 DEF Next, Step

--------------------------------------------------------------------------------
\* What is known of the attempts, the calls and the rows.

From(attempts, t) == {a \in attempts : a.at >= t}

\* Attempts are numbered as they come.
History ==
    \A k \in Key :
        /\ IsFiniteSet(consumed[k])
        /\ \A a \in consumed[k] : a.at <= now /\ a.nth <= Cardinality(consumed[k])

OnTime ==
    \A c \in Call : calls[c].at # "idle" =>
        calls[c].time <= now /\ now <= calls[c].time + MaxLate

RowsStarted ==
    \A k \in Key : windows[k] # NoWindow =>
        windows[k].startedAt <= now /\ windows[k].expiresAt = windows[k].startedAt + WINDOW

\* A row has counted every attempt since its opener came in at the latest, and
\* only attempts since it started.
RowCounts(k) ==
    windows[k] # NoWindow =>
        /\ Cardinality(From(consumed[k], windows[k].startedAt + MaxLate + 1))
               <= windows[k].requestCount
        /\ windows[k].requestCount <= Cardinality(From(consumed[k], windows[k].startedAt))

Counted(k) == IF windows[k] = NoWindow THEN 0 ELSE windows[k].requestCount

\* Of the recent attempts, those the row has not counted are of one window before.
RecentCounts(k) ==
    \A t \in Int : now - WINDOW + MaxLate < t =>
        Cardinality(From(consumed[k], t)) <= maxAttempts(k) + Counted(k)

Counts == \A k \in Key : RowCounts(k) /\ RecentCounts(k)

IInv == TypeOK /\ History /\ OnTime /\ RowsStarted /\ Counts /\ RateHolds

\* The attempts after one more.
OneMore(S, time) == S \cup {[at |-> time, nth |-> Cardinality(S) + 1]}

\* One more attempt adds one to the count ...
LEMMA AddOne ==
    ASSUME NEW S, IsFiniteSet(S), \A a \in S : a.nth <= Cardinality(S), NEW time
    PROVE  /\ IsFiniteSet(OneMore(S, time))
           /\ Cardinality(OneMore(S, time)) = Cardinality(S) + 1
           /\ [at |-> time, nth |-> Cardinality(S) + 1] \notin S
<1> DEFINE new == [at |-> time, nth |-> Cardinality(S) + 1]
<1>1. Cardinality(S) \in Nat  BY FS_CardinalityType
<1>2. new \notin S  BY <1>1
<1> QED  BY <1>2, FS_AddElement DEF OneMore

\* ... and to the count from any time up to its own.
LEMMA FromAdd ==
    ASSUME NEW S, IsFiniteSet(S), \A a \in S : a.nth <= Cardinality(S),
           NEW time \in Nat, NEW t \in Int
    PROVE  /\ Cardinality(From(S, t)) \in Nat
           /\ Cardinality(From(OneMore(S, time), t)) =
                 Cardinality(From(S, t)) + (IF t <= time THEN 1 ELSE 0)
<1> DEFINE new == [at |-> time, nth |-> Cardinality(S) + 1]
<1>1. new \notin S /\ new.at = time  BY AddOne
<1>2. OneMore(S, time) = S \cup {new}  BY DEF OneMore
<1> HIDE DEF new
<1>3. IsFiniteSet(From(S, t))
  <2>1. From(S, t) \in SUBSET S  BY DEF From
  <2> QED  BY <2>1, FS_Subset
<1>4. Cardinality(From(S, t)) \in Nat  BY <1>3, FS_CardinalityType
<1>5. CASE t <= time
  <2>1. From(OneMore(S, time), t) = From(S, t) \cup {new}  BY <1>1, <1>2, <1>5 DEF From
  <2>2. new \notin From(S, t)  BY <1>1 DEF From
  <2>3. Cardinality(From(OneMore(S, time), t)) = Cardinality(From(S, t)) + 1
    BY <1>3, <2>1, <2>2, FS_AddElement
  <2> QED  BY <1>4, <1>5, <2>3
<1>6. CASE ~(t <= time)
  <2>1. From(OneMore(S, time), t) = From(S, t)  BY <1>1, <1>2, <1>6 DEF From
  <2> QED  BY <1>4, <1>6, <2>1
<1> QED  BY <1>5, <1>6

\* A later start counts no more.
LEMMA FromLater ==
    ASSUME NEW S, IsFiniteSet(S), S \subseteq Attempt,
           NEW t \in Int, NEW u \in Int, t <= u
    PROVE  /\ Cardinality(From(S, t)) \in Nat
           /\ Cardinality(From(S, u)) \in Nat
           /\ Cardinality(From(S, u)) <= Cardinality(From(S, t))
<1>1. From(S, t) \in SUBSET S  BY DEF From
<1>2. IsFiniteSet(From(S, t))  BY <1>1, FS_Subset
<1>3. From(S, u) \in SUBSET From(S, t)
  BY DEF From, Attempt
<1>4. IsFiniteSet(From(S, u)) /\ Cardinality(From(S, u)) <= Cardinality(From(S, t))
  BY <1>2, <1>3, FS_Subset
<1> QED  BY <1>2, <1>4, FS_CardinalityType

\* An interval counts no more than all that follows its beginning.
LEMMA IntervalCount ==
    ASSUME NEW S, IsFiniteSet(S), S \subseteq Attempt, NEW t \in Int, NEW u \in Int
    PROVE  /\ Cardinality({a \in S : a.at \in t..u}) \in Nat
           /\ Cardinality({a \in S : a.at \in t..u}) <= Cardinality(From(S, t))
<1>1. From(S, t) \in SUBSET S  BY DEF From
<1>2. IsFiniteSet(From(S, t))  BY <1>1, FS_Subset
<1>3. {a \in S : a.at \in t..u} \in SUBSET From(S, t)
  BY DEF From, Attempt
<1> QED  BY <1>2, <1>3, FS_Subset, FS_CardinalityType

LEMMA InitInv == Init => IInv
<1> SUFFICES ASSUME Init PROVE IInv
  OBVIOUS
<1>1. TypeOK  BY InitTypes
<1>2. History  BY FS_EmptySet DEF Init, History
<1>3. OnTime  BY DEF Init, OnTime, Idle
<1>4. RowsStarted  BY DEF Init, RowsStarted
<1>5. Counts
  <2> SUFFICES ASSUME NEW k \in Key PROVE RowCounts(k) /\ RecentCounts(k)
    BY DEF Counts
  <2>1. RowCounts(k)  BY DEF Init, RowCounts
  <2>2. ASSUME NEW t \in Int
        PROVE  Cardinality(From(consumed[k], t)) <= maxAttempts(k) + Counted(k)
    <3>1. From(consumed[k], t) = {}  BY DEF Init, From
    <3>2. Counted(k) = 0  BY DEF Init, Counted
    <3> QED  BY <3>1, <3>2, FS_EmptySet, Constants
  <2> QED  BY <2>1, <2>2 DEF RecentCounts
<1>6. RateHolds
  <2> SUFFICES ASSUME NEW k \in Key, NEW t \in 0..MaxTime
               PROVE  ConsumedIn(k, t, t + WINDOW - MaxLate - 1) <= 2 * maxAttempts(k)
    BY DEF RateHolds
  <2>1. {a \in consumed[k] : a.at \in t..(t + WINDOW - MaxLate - 1)} = {}  BY DEF Init
  <2>2. ConsumedIn(k, t, t + WINDOW - MaxLate - 1) = 0
    BY <2>1, FS_EmptySet DEF ConsumedIn
  <2>3. maxAttempts(k) \in Nat  BY Constants
  <2> QED  BY <2>2, <2>3
<1> QED  BY <1>1, <1>2, <1>3, <1>4, <1>5, <1>6 DEF IInv

\* When consume counts an attempt, of the key and the row.
LEMMA ConsumeAllowed ==
    ASSUME IInv, NEW c \in Call, NEW k \in Key, NEW time \in Nat,
           k = KeyOf(calls[c]), time = calls[c].time, calls[c].at = "consuming",
           NEW window \in NextWindow(k, time),
           now' = now,
           windows' = [windows EXCEPT ![k] = window],
           consumed' = [consumed EXCEPT ![k] =
               @ \cup {[at |-> now, nth |-> Cardinality(@) + 1]}]
    PROVE  History' /\ RowsStarted' /\ Counts' /\ RateHolds'
<1> USE DEF IInv
<1>1. time <= now /\ now <= time + MaxLate /\ now \in 0..MaxTime /\ now \in Nat
  BY DEF OnTime, TypeOK
<1>2. /\ \A j \in Key \ {k} : windows'[j] = windows[j] /\ consumed'[j] = consumed[j]
      /\ windows'[k] = window
      /\ consumed'[k] = OneMore(consumed[k], now)
  BY DEF TypeOK, OneMore
<1>3. \A j \in Key : consumed[j] \subseteq Attempt /\ IsFiniteSet(consumed[j])
  BY DEF TypeOK, History
<1> DEFINE old(t) == Cardinality(From(consumed[k], t))
           new(t) == Cardinality(From(consumed'[k], t))
<1>4. IsFiniteSet(consumed'[k]) /\ Cardinality(consumed'[k]) = Cardinality(consumed[k]) + 1
  <2>1. \A a \in consumed[k] : a.nth <= Cardinality(consumed[k])  BY DEF History
  <2>2. IsFiniteSet(consumed[k])  BY <1>3
  <2>3. /\ IsFiniteSet(OneMore(consumed[k], now))
        /\ Cardinality(OneMore(consumed[k], now)) = Cardinality(consumed[k]) + 1
    BY <2>1, <2>2, AddOne
  <2>4. consumed'[k] = OneMore(consumed[k], now)  BY <1>2
  <2> QED  BY ONLY <2>3, <2>4
<1>4a. ASSUME NEW t \in Int
       PROVE  old(t) \in Nat /\ new(t) = old(t) + (IF t <= now THEN 1 ELSE 0)
  <2>1. \A a \in consumed[k] : a.nth <= Cardinality(consumed[k])  BY DEF History
  <2>2. IsFiniteSet(consumed[k])  BY <1>3
  <2> QED  BY <1>1, <1>2, <2>1, <2>2, FromAdd
<1> HIDE DEF old, new
<1>5. History'
  <2>1. ASSUME NEW j \in Key
        PROVE  /\ IsFiniteSet(consumed'[j])
               /\ \A a \in consumed'[j] : a.at <= now /\ a.nth <= Cardinality(consumed'[j])
    <3>1. CASE j = k
      <4>1. Cardinality(consumed[k]) \in Nat  BY <1>3, FS_CardinalityType
      <4>2. ASSUME NEW a \in consumed[k]
            PROVE  a.at <= now /\ a.nth <= Cardinality(consumed[k]) + 1
        BY <4>1, <1>3 DEF History, Attempt
      <4>3. \A a \in consumed'[k] : a.at <= now /\ a.nth <= Cardinality(consumed[k]) + 1
        BY <4>1, <4>2, <1>1, <1>2 DEF OneMore
      <4> QED  BY <3>1, <4>3, <1>4
    <3>2. CASE j # k  BY <3>2, <1>2 DEF History
    <3> QED  BY <3>1, <3>2
  <2> QED  BY <2>1 DEF History
\* The row is a new one, for a request in the time of its delay, or counts one more.
<1>6. \/ /\ window = Open(time)
         /\ windows[k] = NoWindow \/ windows[k].expiresAt <= time
      \/ /\ windows[k] # NoWindow
         /\ window.startedAt = windows[k].startedAt
         /\ window.expiresAt = windows[k].expiresAt
         /\ window.requestCount = windows[k].requestCount + 1
  BY NextWindowCases
<1>7. window # NoWindow /\ window \in Window /\ window.requestCount <= maxAttempts(k)
  <2>1. CASE window = Open(time)  BY <2>1, OpenWindow, Constants
  <2>2. CASE window # Open(time)
    BY <2>2, NextWindowCases, NoWindowAssumption, Constants DEF TypeOK, Window
  <2> QED  BY <2>1, <2>2
<1>8. RowsStarted'
  <2>1. window.startedAt <= now /\ window.expiresAt = window.startedAt + WINDOW
    BY <1>1, <1>6, OpenWindow DEF RowsStarted
  <2> QED  BY <2>1, <1>2 DEF RowsStarted
\* The others keep their counts.
<1>9. ASSUME NEW j \in Key, j # k
      PROVE  RowCounts(j)' /\ RecentCounts(j)'
  BY <1>2, <1>9 DEF Counts, RowCounts, RecentCounts, Counted
<1>10. RowCounts(k)'
  <2>1. CASE window = Open(time)
    <3>1. window.startedAt = time /\ window.requestCount = 1  BY <2>1, OpenWindow
    <3>2. time + MaxLate + 1 \in Int /\ time + MaxLate + 1 > now /\ time \in Int
      BY <1>1, Constants
    <3>3. old(time + MaxLate + 1) = 0
      <4>1. From(consumed[k], time + MaxLate + 1) = {}
        BY <1>1, <1>3, <3>2 DEF From, History, Attempt
      <4> QED  BY <4>1, FS_EmptySet DEF old
    <3>4. new(time + MaxLate + 1) <= 1  BY <1>1, <3>2, <3>3, <1>4a
    <3>5. 1 <= new(time)  BY <1>1, <3>2, <1>4a
    <3> QED  BY <3>1, <3>4, <3>5, <1>2 DEF RowCounts, new
  <2>2. CASE window # Open(time)
    <3> DEFINE s == windows[k].startedAt
               n == windows[k].requestCount
    <3>1. windows[k] # NoWindow /\ window.startedAt = s /\ window.requestCount = n + 1
      BY <2>2, <1>6
    <3>2. s \in Nat /\ n \in Nat /\ s <= now  BY <3>1 DEF TypeOK, Window, RowsStarted
    <3>3. old(s + MaxLate + 1) <= n /\ n <= old(s)
      BY <3>1 DEF Counts, RowCounts, old
    <3> HIDE DEF s, n
    <3>4. s + MaxLate + 1 \in Int /\ s \in Int  BY <3>2, Constants
    <3>5. new(s + MaxLate + 1) <= n + 1  BY <1>1, <1>4a, <3>2, <3>3, <3>4
    <3>6. n + 1 <= new(s)  BY <1>1, <1>4a, <3>2, <3>3, <3>4
    <3> QED  BY <3>1, <3>5, <3>6, <1>2 DEF RowCounts, s, n, new
  <2> QED  BY <2>1, <2>2
<1>11. RecentCounts(k)'
  <2> SUFFICES ASSUME NEW t \in Int, now - WINDOW + MaxLate < t
               PROVE  new(t) <= maxAttempts(k) + window.requestCount
    BY <1>2, <1>7 DEF RecentCounts, Counted, new
  <2>1. old(t) \in Nat /\ new(t) \in Nat /\ new(t) <= old(t) + 1
    BY <1>1, <1>4a
  <2>2. maxAttempts(k) \in Nat  BY Constants
  <2>3. CASE window = Open(time)
    <3>1. window.requestCount = 1  BY <2>3, OpenWindow
    <3>2. old(t) <= maxAttempts(k)
      <4>1. CASE windows[k] = NoWindow
        <5>1. old(t) <= maxAttempts(k) + 0
          BY <4>1 DEF Counts, RecentCounts, Counted, old
        <5> QED  BY <5>1, <2>2
      <4>2. CASE windows[k] # NoWindow
        <5> DEFINE s == windows[k].startedAt
                   n == windows[k].requestCount
        <5>1. windows[k].expiresAt <= time
          BY <4>2, <2>3, <1>6, OpenWindow, Constants DEF TypeOK, Window
        <5>2. s \in Nat /\ n \in Nat /\ n <= maxAttempts(k) /\ s + WINDOW <= now
          BY <4>2, <5>1, <1>1, Constants DEF TypeOK, Window, RowsStarted
        <5>3. old(s + MaxLate + 1) <= n
          BY <4>2 DEF Counts, RowCounts, old
        <5> HIDE DEF s, n
        <5>4. s + MaxLate + 1 \in Int /\ s + MaxLate + 1 <= t
          BY <5>2, <1>1, Constants
        <5>5. old(s + MaxLate + 1) \in Nat /\ old(t) <= old(s + MaxLate + 1)
          BY <5>4, <1>3, FromLater DEF old
        <5> QED  BY <5>2, <5>3, <5>5, <2>1, <2>2
      <4> QED  BY <4>1, <4>2
    <3> QED  BY <3>1, <3>2, <2>1, <2>2
  <2>4. CASE window # Open(time)
    <3>1. windows[k] # NoWindow /\ window.requestCount = windows[k].requestCount + 1
      BY <2>4, <1>6
    <3>2. windows[k].requestCount \in Nat  BY <3>1 DEF TypeOK, Window
    <3>3. old(t) <= maxAttempts(k) + windows[k].requestCount
      BY <3>1 DEF Counts, RecentCounts, Counted, old
    <3> QED  BY <3>1, <3>2, <3>3, <2>1, <2>2
  <2> QED  BY <2>3, <2>4
<1>12. RateHolds'
  <2> SUFFICES ASSUME NEW j \in Key, NEW t \in 0..MaxTime
               PROVE  ConsumedIn(j, t, t + WINDOW - MaxLate - 1)' <= 2 * maxAttempts(j)
    BY DEF RateHolds
  <2> DEFINE last == t + WINDOW - MaxLate - 1
  <2>1. ConsumedIn(j, t, last) <= 2 * maxAttempts(j)  BY DEF RateHolds
  <2>2. CASE j # k
    BY <2>1, <2>2, <1>2 DEF ConsumedIn
  <2>3. CASE j = k /\ last < now
    <3>1. {a \in consumed'[k] : a.at \in t..last} = {a \in consumed[k] : a.at \in t..last}
      BY <2>3, <1>1, <1>2, Constants DEF OneMore
    <3> QED  BY <2>1, <2>3, <3>1 DEF ConsumedIn
  <2>4. CASE j = k /\ ~(last < now)
    <3>1. t \in Int /\ last \in Int /\ now - WINDOW + MaxLate < t  BY <2>4, <1>1, Constants
    <3>2. Cardinality(From(consumed'[k], t)) <= maxAttempts(k) + window.requestCount
      BY <1>2, <1>7, <1>11, <3>1 DEF RecentCounts, Counted
    <3>3. consumed'[k] \subseteq Attempt
      <4>1. Cardinality(consumed[k]) + 1 \in Nat \ {0}  BY <1>3, FS_CardinalityType
      <4> QED  BY <4>1, <1>1, <1>2, <1>3 DEF Attempt, OneMore
    <3>4. /\ Cardinality({a \in consumed'[k] : a.at \in t..last}) \in Nat
          /\ Cardinality({a \in consumed'[k] : a.at \in t..last})
                 <= Cardinality(From(consumed'[k], t))
      BY <3>1, <3>3, <1>4, IntervalCount
    <3>5. Cardinality(From(consumed'[k], t)) \in Nat
      BY <3>1, <3>3, <1>4, FromLater
    <3>6. maxAttempts(k) \in Nat /\ window.requestCount \in Nat
      BY <1>7, Constants DEF Window
    <3>7. Cardinality({a \in consumed'[k] : a.at \in t..last}) <= 2 * maxAttempts(k)
      BY <3>2, <3>4, <3>5, <3>6, <1>7
    <3> QED  BY <2>4, <3>7 DEF ConsumedIn
  <2> QED  BY <2>2, <2>3, <2>4
<1> QED  BY <1>5, <1>8, <1>9, <1>10, <1>11, <1>12 DEF Counts

\* When no attempt is counted: time passes, or expired rows are deleted.
LEMMA NothingConsumed ==
    ASSUME IInv, UNCHANGED consumed, now' \in Nat, now <= now',
           \A k \in Key : \/ windows'[k] = windows[k]
                         \/ /\ windows'[k] = NoWindow
                            /\ windows[k] # NoWindow
                            /\ windows[k].expiresAt <= now
    PROVE  History' /\ RowsStarted' /\ Counts' /\ RateHolds'
<1> USE DEF IInv
<1>1. now \in Nat /\ now' \in Nat /\ now <= now'  BY DEF TypeOK
<1>2. \A k \in Key : consumed[k] \subseteq Attempt /\ IsFiniteSet(consumed[k])
  BY DEF TypeOK, History
<1>3. History'
  <2>1. \A k \in Key : \A a \in consumed[k] : a.at <= now'
    BY <1>1, <1>2 DEF History, Attempt
  <2> QED  BY <2>1 DEF History
<1>4. RowsStarted'
  <2> SUFFICES ASSUME NEW k \in Key, windows'[k] # NoWindow
               PROVE  /\ windows'[k].startedAt <= now'
                      /\ windows'[k].expiresAt = windows'[k].startedAt + WINDOW
    BY DEF RowsStarted
  <2>1. windows'[k] = windows[k] /\ windows[k].startedAt \in Nat  BY DEF TypeOK, Window
  <2> QED  BY <2>1, <1>1 DEF RowsStarted
<1>5. ASSUME NEW k \in Key PROVE RowCounts(k)'
  BY <1>5 DEF Counts, RowCounts
<1>6. ASSUME NEW k \in Key PROVE RecentCounts(k)'
  <2> SUFFICES ASSUME NEW t \in Int, now' - WINDOW + MaxLate < t
               PROVE  Cardinality(From(consumed[k], t)) <= maxAttempts(k) + Counted(k)'
    BY DEF RecentCounts
  <2>1. now - WINDOW + MaxLate < t
    <3>1. PICK later \in Nat : later = now'  BY <1>1
    <3>2. later - WINDOW + MaxLate < t /\ now <= later  BY <1>1, <3>1
    <3> QED  BY <1>1, <3>2, Constants
  <2>2. maxAttempts(k) \in Nat  BY Constants
  <2>3. CASE windows'[k] = windows[k]
    BY <2>1, <2>3 DEF Counts, RecentCounts, Counted
  <2>4. CASE windows'[k] = NoWindow /\ windows[k] # NoWindow /\ windows[k].expiresAt <= now
    <3> DEFINE s == windows[k].startedAt
               n == windows[k].requestCount
    <3>1. s \in Nat /\ n \in Nat /\ n <= maxAttempts(k) /\ s + WINDOW <= now
      BY <2>4 DEF TypeOK, Window, RowsStarted
    <3>2. Cardinality(From(consumed[k], s + MaxLate + 1)) <= n
      BY <2>4 DEF Counts, RowCounts
    <3> HIDE DEF s, n
    <3>3. s + MaxLate + 1 \in Int /\ s + MaxLate + 1 <= t
      BY <3>1, <2>1, <1>1, Constants
    <3>4. /\ Cardinality(From(consumed[k], s + MaxLate + 1)) \in Nat
          /\ Cardinality(From(consumed[k], t)) \in Nat
          /\ Cardinality(From(consumed[k], t)) <= Cardinality(From(consumed[k], s + MaxLate + 1))
      BY <3>3, <1>2, FromLater
    <3>5. Cardinality(From(consumed[k], t)) <= maxAttempts(k) + 0
      BY <3>1, <3>2, <3>4, <2>2
    <3> QED  BY <3>5, <2>4 DEF Counted
  <2> QED  BY <2>3, <2>4
<1>7. RateHolds'  BY DEF RateHolds, ConsumedIn
<1> QED  BY <1>3, <1>4, <1>5, <1>6, <1>7 DEF Counts

\* A request keeps the time it came at, and comes to its end in time.
LEMMA NextOnTime ==
    ASSUME IInv, [Next]_vars
    PROVE  OnTime'
<1> USE DEF IInv
<1>1. now \in Nat /\ MaxLate \in Nat  BY Constants DEF TypeOK
<1>2. CASE Tick
  <2>1. ASSUME NEW c \in Call, calls[c].at # "idle"
        PROVE  calls[c].time <= now + 1 /\ now + 1 <= calls[c].time + MaxLate
    <3>1. calls[c].time \in Nat  BY <2>1, UnderWay DEF CallRecord
    <3> QED  BY <3>1, <2>1, <1>1, <1>2 DEF Tick, OnTime
  <2> QED  BY <2>1, <1>2 DEF Tick, OnTime
<1>3. CASE restart
  BY <1>3 DEF restart, OnTime, Idle
<1>4. CASE UNCHANGED vars
  BY <1>4 DEF vars, OnTime
<1>5. ASSUME NEW c \in Call, Step(c)
      PROVE  OnTime'
  <2>1. /\ now' = now
        /\ \A d \in Call \ {c} : calls'[d] = calls[d]
    BY <1>5 DEF Step, arrive, consume, resume, deleteExpired, fail, TypeOK
  <2>2. \/ calls'[c].at = "idle"
        \/ calls'[c].time = now
        \/ calls[c].at # "idle" /\ calls'[c].time = calls[c].time
    <3>1. ASSUME NEW s \in Subject, arrive(c, s) PROVE calls'[c].time = now
      BY <3>1 DEF arrive, TypeOK
    <3>2. CASE consume(c)
      <4>1. calls[c] \in CallRecord  BY <3>2, UnderWay DEF consume
      <4> QED  BY <4>1, <3>2 DEF consume, TypeOK, CallRecord
    <3>3. CASE resume(c)
      <4>1. calls[c] \in CallRecord  BY <3>3, UnderWay DEF resume
      <4>2. calls'[c] = [calls[c] EXCEPT !.at = "cleaning"] \/ calls'[c] = Proceed(c)
        BY <3>3 DEF resume, TypeOK
      <4>3. calls[c].at # "idle"  BY <3>3 DEF resume
      <4> QED  BY <4>1, <4>2, <4>3, ProceedTypes DEF CallRecord
    <3>4. CASE deleteExpired(c)
      <4>1. calls'[c] = Idle \/ calls'[c] = Proceed(c)
        BY <3>4 DEF deleteExpired, TypeOK
      <4>2. calls[c].at # "idle"  BY <3>4 DEF deleteExpired
      <4> QED  BY <4>1, <4>2, ProceedTypes DEF Idle
    <3>5. CASE fail(c)
      BY <3>5 DEF fail, TypeOK, Idle
    <3> QED  BY <1>5, <3>1, <3>2, <3>3, <3>4, <3>5 DEF Step
  <2>3. calls'[c].at # "idle" => calls'[c].time <= now /\ now <= calls'[c].time + MaxLate
    BY <2>2, <1>1 DEF OnTime
  <2> QED  BY <2>1, <2>3 DEF OnTime
<1> QED  BY <1>2, <1>3, <1>4, <1>5 DEF Next

\* The inductive invariant is kept.
LEMMA NextInv == IInv /\ [Next]_vars => IInv'
<1> SUFFICES ASSUME IInv, [Next]_vars PROVE IInv'
  OBVIOUS
<1>1. OnTime'  BY NextOnTime
<1>2. now \in Nat  BY DEF IInv, TypeOK
<1>3. ASSUME NEW c \in Call, consume(c)
      PROVE  IInv'
  <2>1. TypeOK'  BY <1>3, ConsumeTypes DEF IInv, History
  <2>2. History' /\ RowsStarted' /\ Counts' /\ RateHolds'
    <3>1. CASE UNCHANGED <<windows, consumed>>
      BY <3>1, <1>2, <1>3, NothingConsumed DEF consume
    <3>2. CASE ~UNCHANGED <<windows, consumed>>
      <4>1. calls[c].at = "consuming" /\ now' = now  BY <1>3 DEF consume
      <4>2. calls[c] \in CallRecord /\ KeyOf(calls[c]) \in Key
        BY <4>1, UnderWay DEF IInv
      <4>3. PICK k \in Key : k = KeyOf(calls[c])  BY <4>2
      <4>4. PICK time \in Nat : time = calls[c].time  BY <4>2 DEF CallRecord
      <4>5. PICK window \in NextWindow(k, time) :
                /\ windows' = [windows EXCEPT ![k] = window]
                /\ consumed' = [consumed EXCEPT ![k] =
                       @ \cup {[at |-> now, nth |-> Cardinality(@) + 1]}]
        BY <1>3, <3>2, <4>3, <4>4 DEF consume
      <4> QED  BY <4>1, <4>3, <4>4, <4>5, ConsumeAllowed
    <3> QED  BY <3>1, <3>2
  <2> QED  BY <1>1, <2>1, <2>2 DEF IInv
<1>4. CASE \A c \in Call : ~consume(c)
  <2>1. TypeOK'  BY <1>4, OtherTypes DEF IInv
  <2>2. now' \in Nat /\ now <= now' /\ UNCHANGED consumed
    <3>1. CASE Tick  BY <1>2, <3>1 DEF Tick
    <3>2. CASE ~Tick
      BY <1>2, <1>4, <3>2 DEF Next, Step, restart, vars, arrive, resume, deleteExpired, fail
    <3> QED  BY <3>1, <3>2
  <2>3. \A k \in Key : \/ windows'[k] = windows[k]
                      \/ /\ windows'[k] = NoWindow
                         /\ windows[k] # NoWindow
                         /\ windows[k].expiresAt <= now
    <3>1. ASSUME NEW c \in Call, deleteExpired(c), NEW k \in Key, windows'[k] # windows[k]
          PROVE  /\ windows'[k] = NoWindow
                 /\ windows[k] # NoWindow
                 /\ windows[k].expiresAt <= now
      <4>1. calls[c].at # "idle"  BY <3>1 DEF deleteExpired
      <4>2. calls[c].time \in Nat /\ calls[c].time <= now
        BY <4>1, UnderWay DEF IInv, OnTime, CallRecord
      <4>3. k \in Expired(calls[c].time) /\ windows'[k] = NoWindow
        BY <3>1 DEF deleteExpired, IInv, TypeOK
      <4>4. windows[k] # NoWindow /\ windows[k].expiresAt <= calls[c].time
        BY <4>3 DEF Expired
      <4>5. windows[k].expiresAt \in Nat  BY <4>4 DEF IInv, TypeOK, Window
      <4> QED  BY <4>2, <4>3, <4>4, <4>5, <1>2
    <3>2. CASE \E c \in Call : deleteExpired(c)  BY <3>1, <3>2
    <3>3. CASE ~\E c \in Call : deleteExpired(c)
      BY <1>4, <3>3 DEF Next, Step, restart, vars, arrive, resume, fail, Tick
    <3> QED  BY <3>2, <3>3
  <2>4. History' /\ RowsStarted' /\ Counts' /\ RateHolds'
    BY <2>2, <2>3, NothingConsumed
  <2> QED  BY <1>1, <2>1, <2>4 DEF IInv
<1> QED  BY <1>3, <1>4

\* The inductive invariant holds always.
THEOREM Invariant == Spec => []IInv
  BY InitInv, NextInv, PTL DEF Spec

\* Every window, request and counter keeps its type, and a row never counts
\* more than its limit.
THEOREM TypeCorrect == Spec => []TypeOK
<1>1. IInv => TypeOK  BY DEF IInv
<1> QED  BY <1>1, Invariant, PTL

\* No stretch of time as long as a window, less the longest delay, sees more
\* than two windows' worth of attempts.
THEOREM RateHoldsAlways == Spec => []RateHolds
<1>1. IInv => RateHolds  BY DEF IInv
<1> QED  BY <1>1, Invariant, PTL

\* A refusal means that the limit was reached in the last window and delay.
THEOREM RefusedOnlyWhenFullHolds == Spec => RefusedOnlyWhenFull
<1> DEFINE FullWhenRefused ==
        \A c \in Call :
            LET k == KeyOf(calls[c]) IN
            /\ calls[c].at = "consuming"
            /\ calls'[c].at = "returning"
            /\ ~calls'[c].allowed
            => ConsumedIn(k, now - WINDOW - MaxLate + 1, now) >= maxAttempts(k)
<1>1. ASSUME IInv, [Next]_vars, NEW c \in Call,
             calls[c].at = "consuming", calls'[c].at = "returning", ~calls'[c].allowed
      PROVE  ConsumedIn(KeyOf(calls[c]), now - WINDOW - MaxLate + 1, now)
                 >= maxAttempts(KeyOf(calls[c]))
  <2>1. calls[c] \in CallRecord /\ KeyOf(calls[c]) \in Key
    BY <1>1, UnderWay DEF IInv
  <2>2. PICK k \in Key : k = KeyOf(calls[c])  BY <2>1
  <2>3. PICK time \in Nat : time = calls[c].time  BY <2>1 DEF CallRecord
  <2>4. consume(c)
    <3>1. \E d \in Call : Step(d)
      BY <1>1 DEF Next, Tick, restart, vars, Idle
    <3>2. PICK d \in Call : Step(d)  BY <3>1
    <3>3. d = c
      BY <1>1, <3>2 DEF Step, arrive, consume, resume, deleteExpired, fail, IInv, TypeOK
    <3> QED
      BY <1>1, <3>2, <3>3 DEF Step, arrive, resume, deleteExpired, fail, IInv, TypeOK, Idle
  <2>5. NextWindow(k, time) = {}
    <3>1. calls'[c].allowed = (NextWindow(k, time) # {})
      <4>1. calls' = [calls EXCEPT ![c].at = "returning",
                                   ![c].allowed = NextWindow(k, time) # {}]
        BY <2>2, <2>3, <2>4 DEF consume
      <4>2. calls'[c] = [calls[c] EXCEPT !.at = "returning",
                                         !.allowed = NextWindow(k, time) # {}]
        BY <1>1, <4>1 DEF IInv, TypeOK
      <4> QED  BY <4>2, <2>1 DEF CallRecord
    <3> QED  BY <3>1, <1>1
  <2>6. /\ windows[k] # NoWindow
        /\ ~(windows[k].expiresAt <= time)
        /\ ~(windows[k].requestCount < maxAttempts(k))
    BY <2>5 DEF NextWindow, HasRoom
  <2> DEFINE s == windows[k].startedAt
             n == windows[k].requestCount
  <2>7. /\ now \in Nat /\ time <= now /\ now <= time + MaxLate
        /\ s \in Nat /\ n \in Nat /\ maxAttempts(k) \in Nat
        /\ n >= maxAttempts(k) /\ s + WINDOW > time
    <3>1. now \in Nat /\ time <= now /\ now <= time + MaxLate
      BY <1>1, <2>3 DEF IInv, OnTime, TypeOK
    <3>2. windows[k] \in Window /\ windows[k].expiresAt = windows[k].startedAt + WINDOW
      BY <2>6, <1>1 DEF IInv, TypeOK, RowsStarted
    <3>3. maxAttempts(k) \in Nat  BY Constants
    <3> QED  BY <2>6, <3>1, <3>2, <3>3 DEF Window
  <2>8. n <= Cardinality(From(consumed[k], s))
    BY <1>1, <2>6 DEF IInv, Counts, RowCounts
  <2> HIDE DEF s, n
  <2> DEFINE first == now - WINDOW - MaxLate + 1
  <2>9. first \in Int /\ first <= s  BY <2>7, Constants
  <2>10. IsFiniteSet(consumed[k]) /\ consumed[k] \subseteq Attempt
    BY <1>1 DEF IInv, TypeOK, History
  <2>11. /\ Cardinality({a \in consumed[k] : a.at \in first..now}) \in Nat
         /\ Cardinality(From(consumed[k], s))
                <= Cardinality({a \in consumed[k] : a.at \in first..now})
    <3>1. \A a \in consumed[k] : a.at <= now  BY <1>1 DEF IInv, History
    <3>2. From(consumed[k], s) \in SUBSET {a \in consumed[k] : a.at \in first..now}
      BY <3>1, <2>7, <2>9, <2>10 DEF From, Attempt
    <3>3. {a \in consumed[k] : a.at \in first..now} \in SUBSET consumed[k]  OBVIOUS
    <3> QED  BY <3>2, <3>3, <2>10, FS_Subset, FS_CardinalityType
  <2>12. Cardinality(From(consumed[k], s)) \in Nat
    BY <2>7, <2>10, FromLater
  <2>13. Cardinality({a \in consumed[k] : a.at \in first..now}) >= maxAttempts(k)
    BY <2>7, <2>8, <2>11, <2>12
  <2> QED  BY <2>2, <2>13 DEF ConsumedIn
<1>2. IInv /\ [Next]_vars => [FullWhenRefused]_vars
  BY <1>1
<1> QED  BY <1>2, Invariant, PTL DEF Spec, RefusedOnlyWhenFull
================================================================================
