----------------------- MODULE ReconciliationQueue_proofs -----------------------
(***************************************************************************)
(* The queue of the scheduled job, for any number of rows and any limit:   *)
(* it holds each pending row once and no other row.  That a decided row is *)
(* resolved in the end is liveness and stays with the model checker.       *)
(***************************************************************************)
EXTENDS ReconciliationQueueProps, SequenceTheorems, TLAPS

--------------------------------------------------------------------------------
\* What adding and removing an element does to a sequence that repeats none.

\* No element twice.
Distinct(s) == \A i, j \in 1..Len(s) : s[i] = s[j] => i = j

LEMMA InjectiveIsDistinct ==
    ASSUME NEW S, NEW s \in Seq(S)
    PROVE  IsInjective(s) <=> Distinct(s)
  BY LenProperties DEF IsInjective, Distinct

LEMMA ElementIsIndexed ==
    ASSUME NEW S, NEW s \in Seq(S), NEW e
    PROVE  e \in ToSet(s) <=> \E i \in 1..Len(s) : s[i] = e
  BY LenProperties DEF ToSet

\* A new element at the end.
LEMMA AppendNew ==
    ASSUME NEW S, NEW s \in Seq(S), Distinct(s), NEW e \in S, e \notin ToSet(s)
    PROVE  /\ Append(s, e) \in Seq(S)
           /\ Distinct(Append(s, e))
           /\ \A x : x \in ToSet(Append(s, e)) <=> x \in ToSet(s) \/ x = e
<1> DEFINE r == Append(s, e)
<1>1. /\ r \in Seq(S) /\ Len(s) \in Nat /\ Len(r) = Len(s) + 1
      /\ \A i \in 1..Len(s) : r[i] = s[i]
      /\ r[Len(s) + 1] = e
  BY AppendProperties, LenProperties
<1>2. \A i \in 1..Len(s) : s[i] # e  BY ElementIsIndexed
<1> HIDE DEF r
<1>3. Distinct(r)  BY <1>1, <1>2 DEF Distinct
<1>4. ASSUME NEW x
      PROVE  x \in ToSet(r) <=> x \in ToSet(s) \/ x = e
  <2>1. x \in ToSet(r) <=> \E i \in 1..Len(r) : r[i] = x  BY <1>1, ElementIsIndexed
  <2>2. x \in ToSet(s) <=> \E i \in 1..Len(s) : s[i] = x  BY ElementIsIndexed
  <2> QED  BY <1>1, <2>1, <2>2
<1> QED  BY <1>1, <1>3, <1>4 DEF r

\* One element taken out.
LEMMA RemoveOne ==
    ASSUME NEW S, NEW s \in Seq(S), Distinct(s), NEW i \in 1..Len(s)
    PROVE  /\ RemoveAt(s, i) \in Seq(S)
           /\ Len(RemoveAt(s, i)) = Len(s) - 1
           /\ \A j \in 1..(Len(s) - 1) :
                 RemoveAt(s, i)[j] = IF j < i THEN s[j] ELSE s[j + 1]
           /\ Distinct(RemoveAt(s, i))
           /\ \A x : x \in ToSet(RemoveAt(s, i)) <=> x \in ToSet(s) /\ x # s[i]
<1> DEFINE n == Len(s)
           a == SubSeq(s, 1, i - 1)
           b == SubSeq(s, i + 1, n)
           r == RemoveAt(s, i)
<1>1. n \in Nat /\ \A j \in 1..n : s[j] \in S
  BY LenProperties, ElementOfSeq
<1>2. /\ a \in Seq(S) /\ Len(a) = i - 1
      /\ \A j \in 1..(i - 1) : a[j] = s[j]
  <2>1. \A j \in 1..(i - 1) : s[j] \in S  BY <1>1
  <2>2. 1 \in Int /\ i - 1 \in Int  OBVIOUS
  <2>3. /\ a \in Seq(S)
        /\ Len(a) = IF 1 <= i - 1 THEN (i - 1) - 1 + 1 ELSE 0
        /\ \A j \in 1..((i - 1) - 1 + 1) : a[j] = s[1 + j - 1]
    BY <2>1, <2>2, SubSeqProperties
  <2> QED  BY <2>3
<1>3. /\ b \in Seq(S) /\ Len(b) = n - i
      /\ \A j \in 1..(n - i) : b[j] = s[i + j]
  <2>1. \A j \in (i + 1)..n : s[j] \in S  BY <1>1
  <2>2. i + 1 \in Int /\ n \in Int  BY <1>1
  <2>3. /\ b \in Seq(S)
        /\ Len(b) = IF i + 1 <= n THEN n - (i + 1) + 1 ELSE 0
        /\ \A j \in 1..(n - (i + 1) + 1) : b[j] = s[(i + 1) + j - 1]
    BY <2>1, <2>2, SubSeqProperties
  <2> QED  BY <2>3, <1>1
<1>4. r = a \o b  BY DEF RemoveAt
<1> HIDE DEF a, b, r
<1>5. /\ r \in Seq(S) /\ Len(r) = n - 1
      /\ \A j \in 1..(n - 1) : r[j] = IF j < i THEN s[j] ELSE s[j + 1]
  <2>1. /\ r \in Seq(S)
        /\ Len(r) = Len(a) + Len(b)
        /\ \A j \in 1..(Len(a) + Len(b)) : r[j] = IF j <= Len(a) THEN a[j] ELSE b[j - Len(a)]
    BY <1>2, <1>3, <1>4, ConcatProperties
  <2>2. Len(a) + Len(b) = n - 1  BY <1>1, <1>2, <1>3
  <2>3. ASSUME NEW j \in 1..(n - 1)
        PROVE  r[j] = IF j < i THEN s[j] ELSE s[j + 1]
    <3>1. CASE j < i
      <4>1. j <= Len(a) /\ j \in 1..(i - 1)  BY <3>1, <1>1, <1>2
      <4> QED  BY <3>1, <4>1, <2>1, <2>2, <1>2
    <3>2. CASE ~(j < i)
      <4>1. ~(j <= Len(a)) /\ j - Len(a) \in 1..(n - i) /\ i + (j - Len(a)) = j + 1
        BY <3>2, <1>1, <1>2
      <4>2. r[j] = b[j - Len(a)]  BY <4>1, <2>1, <2>2
      <4> QED  BY <3>2, <4>1, <4>2, <1>3
    <3> QED  BY <3>1, <3>2
  <2> QED  BY <2>1, <2>2, <2>3
<1>6. Distinct(r)  BY <1>1, <1>5 DEF Distinct
<1>7. ASSUME NEW x
      PROVE  x \in ToSet(r) <=> x \in ToSet(s) /\ x # s[i]
  <2>1. x \in ToSet(r) <=> \E j \in 1..Len(r) : r[j] = x  BY <1>5, ElementIsIndexed
  <2>2. x \in ToSet(s) <=> \E j \in 1..n : s[j] = x  BY ElementIsIndexed
  <2>3. ASSUME NEW j \in 1..n, j # i
        PROVE  \E l \in 1..(n - 1) : r[l] = s[j]
    <3>1. CASE j < i  BY <3>1, <1>1, <1>5
    <3>2. CASE ~(j < i)
      <4>1. j - 1 \in 1..(n - 1) /\ ~(j - 1 < i) /\ (j - 1) + 1 = j
        BY <3>2, <2>3, <1>1
      <4> QED  BY <4>1, <1>5
    <3> QED  BY <3>1, <3>2
  <2>4. ASSUME NEW l \in 1..(n - 1)
        PROVE  \E j \in 1..n : j # i /\ r[l] = s[j]
    BY <1>1, <1>5
  <2>5. \A j \in 1..n : s[j] = s[i] => j = i  BY <1>1 DEF Distinct
  <2>6. ASSUME NEW l \in 1..(n - 1), r[l] = x
        PROVE  x \in ToSet(s) /\ x # s[i]
    <3>1. PICK j \in 1..n : j # i /\ r[l] = s[j]  BY <2>4
    <3> QED  BY <3>1, <2>2, <2>5, <2>6
  <2>7. ASSUME NEW j \in 1..n, s[j] = x, x # s[i]
        PROVE  x \in ToSet(r)
    <3>1. j # i  BY <2>7
    <3> QED  BY <3>1, <2>1, <2>3, <2>7, <1>5
  <2> QED  BY <1>5, <2>1, <2>2, <2>6, <2>7
<1> QED  BY <1>5, <1>6, <1>7 DEF r

--------------------------------------------------------------------------------
\* The queue and the batch.

QueueOK ==
    /\ queue \in Seq(Tx)
    /\ Distinct(queue)
    /\ \A x \in Tx : x \in ToSet(queue) <=> Pending(x)

BatchOK ==
    /\ batch \in Seq(Tx)
    /\ Distinct(batch)
    /\ Len(batch) <= Limit

RowsOK ==
    /\ failureCode \in [Tx -> Code \cup {"null"}]
    /\ status \in [Tx -> {"wallet_requested", "submitted", "unknown_reconcile", "resolved"}]
    /\ mined \subseteq Tx
    /\ aborts \in 0..MaxAborts

LEMMA TypeParts == TypeOK <=> QueueOK /\ BatchOK /\ RowsOK
  BY InjectiveIsDistinct DEF TypeOK, QueueOK, BatchOK, RowsOK

\* A pending row is in the queue at one place, and taking it out leaves the others.
LEMMA WithoutRow ==
    ASSUME QueueOK, NEW x \in Tx, Pending(x)
    PROVE  /\ Without(x) \in Seq(Tx)
           /\ Distinct(Without(x))
           /\ \A y : y \in ToSet(Without(x)) <=> y \in ToSet(queue) /\ y # x
<1> DEFINE i == CHOOSE i \in DOMAIN queue : queue[i] = x
<1>1. DOMAIN queue = 1..Len(queue)  BY LenProperties DEF QueueOK
<1>2. \E j \in 1..Len(queue) : queue[j] = x
  BY ElementIsIndexed DEF QueueOK
<1>3. i \in 1..Len(queue) /\ queue[i] = x  BY <1>1, <1>2
<1>4. Without(x) = RemoveAt(queue, i)  BY DEF Without
<1> HIDE DEF i
<1> QED  BY <1>3, <1>4, RemoveOne DEF QueueOK

\* A change of status that leaves pending what was pending.
LEMMA MarkQueue ==
    ASSUME QueueOK, RowsOK, NEW x \in Tx, NEW code \in Code, markTransactionUnknown(x, code)
    PROVE  QueueOK' /\ failureCode' \in [Tx -> Code \cup {"null"}]
           /\ status' \in [Tx -> {"wallet_requested", "submitted", "unknown_reconcile", "resolved"}]
<1>1. Pending(x)  BY DEF markTransactionUnknown
<1>2. CASE UNCHANGED <<queue, failureCode, status>>
  BY <1>2 DEF QueueOK, RowsOK, Pending
<1>3. CASE /\ status' = [status EXCEPT ![x] = "unknown_reconcile"]
           /\ failureCode' = [failureCode EXCEPT ![x] = code]
           /\ queue' = Touched(x)
  <2>1. /\ Without(x) \in Seq(Tx)
        /\ Distinct(Without(x))
        /\ \A y : y \in ToSet(Without(x)) <=> y \in ToSet(queue) /\ y # x
    BY <1>1, WithoutRow
  <2>2. /\ queue' \in Seq(Tx)
        /\ Distinct(queue')
        /\ \A y : y \in ToSet(queue') <=> y \in ToSet(Without(x)) \/ y = x
    BY <2>1, <1>3, AppendNew DEF Touched
  <2>3. \A y \in Tx : Pending(y)' <=> Pending(y)
    BY <1>1, <1>3 DEF Pending, RowsOK
  <2>4. \A y \in Tx : y \in ToSet(queue') <=> Pending(y)'
    BY <1>1, <2>1, <2>2, <2>3 DEF QueueOK
  <2>5. QueueOK'  BY <2>2, <2>4 DEF QueueOK
  <2> QED  BY <1>3, <2>5 DEF RowsOK
<1> QED  BY <1>2, <1>3 DEF markTransactionUnknown

\* A row that is resolved leaves the queue.
LEMMA ResolveQueue ==
    ASSUME QueueOK, RowsOK, NEW x \in Tx, resolve(x)
    PROVE  QueueOK' /\ failureCode' \in [Tx -> Code \cup {"null"}]
           /\ status' \in [Tx -> {"wallet_requested", "submitted", "unknown_reconcile", "resolved"}]
<1>1. /\ Without(x) \in Seq(Tx)
      /\ Distinct(Without(x))
      /\ \A y : y \in ToSet(Without(x)) <=> y \in ToSet(queue) /\ y # x
  BY WithoutRow DEF resolve
<1>2. \A y \in Tx : Pending(y)' <=> Pending(y) /\ y # x
  BY DEF resolve, Pending, RowsOK
<1>3. \A y \in Tx : y \in ToSet(queue') <=> Pending(y)'
  BY <1>1, <1>2 DEF QueueOK, resolve
<1>4. QueueOK'  BY <1>1, <1>3 DEF QueueOK, resolve
<1> QED  BY <1>4 DEF resolve, RowsOK

\* Whatever a reconciler does with a row.
LEMMA ReconcileQueue ==
    ASSUME QueueOK, RowsOK, NEW x \in Tx, reconcile(x), UNCHANGED mined,
           aborts' = aborts
    PROVE  QueueOK' /\ RowsOK'
  BY MarkQueue, ResolveQueue DEF reconcile, RowsOK

\* A batch is a beginning of the queue.
LEMMA StartBatch ==
    ASSUME QueueOK, startRun
    PROVE  BatchOK'
<1> DEFINE n == IF Len(queue) < Limit THEN Len(queue) ELSE Limit
<1>1. Len(queue) \in Nat /\ \A i \in 1..Len(queue) : queue[i] \in Tx
  BY LenProperties, ElementOfSeq DEF QueueOK
<1>2. n \in Nat /\ n <= Len(queue) /\ n <= Limit  BY <1>1, LimitAssumption
<1>3. batch' = SubSeq(queue, 1, n)  BY DEF startRun
<1> HIDE DEF n
<1>4. /\ batch' \in Seq(Tx)
      /\ Len(batch') = n
      /\ \A i \in 1..n : batch'[i] = queue[i]
  <2>1. \A i \in 1..n : queue[i] \in Tx  BY <1>1, <1>2
  <2>2. /\ batch' \in Seq(Tx)
        /\ Len(batch') = IF 1 <= n THEN n - 1 + 1 ELSE 0
        /\ \A i \in 1..(n - 1 + 1) : batch'[i] = queue[1 + i - 1]
    BY <2>1, <1>2, <1>3, SubSeqProperties
  <2> QED  BY <2>2, <1>2
<1>5. Distinct(batch')  BY <1>1, <1>2, <1>4 DEF Distinct, QueueOK
<1> QED  BY <1>2, <1>4, <1>5 DEF BatchOK

\* A batch that is visited or cut off.
LEMMA ShortenBatch ==
    ASSUME BatchOK, batch # <<>>, batch' \in {Tail(batch), <<>>}
    PROVE  BatchOK'
<1>1. CASE batch' = <<>>
  <2>1. batch' \in Seq(Tx) /\ Len(batch') = 0  BY <1>1, EmptySeq
  <2> QED  BY <2>1, LimitAssumption DEF BatchOK, Distinct
<1>2. CASE batch' = Tail(batch)
  <2>1. /\ batch' \in Seq(Tx)
        /\ Len(batch) \in Nat
        /\ Len(batch') = Len(batch) - 1
        /\ \A i \in 1..Len(batch') : batch'[i] = batch[i + 1]
    BY <1>2, HeadTailProperties, LenProperties DEF BatchOK
  <2>2. Distinct(batch')  BY <2>1 DEF Distinct, BatchOK
  <2>3. Len(batch') <= Limit  BY <2>1, LimitAssumption DEF BatchOK
  <2> QED  BY <2>1, <2>2, <2>3 DEF BatchOK
<1> QED  BY <1>1, <1>2

LEMMA InitType == Init => TypeOK
<1> SUFFICES ASSUME Init PROVE TypeOK
  OBVIOUS
<1>1. <<>> \in Seq(Tx) /\ Len(<<>>) = 0  BY EmptySeq
<1>2. QueueOK
  <2>1. ASSUME NEW x \in Tx, x \in ToSet(queue)
        PROVE  FALSE
    <3>1. PICK i \in 1..Len(queue) : queue[i] = x
      BY <1>1, <2>1, ElementIsIndexed DEF Init
    <3>2. Len(queue) = 0  BY <1>1 DEF Init
    <3> QED  BY <3>1, <3>2
  <2> QED  BY <1>1, <2>1 DEF Init, QueueOK, Distinct, Pending
<1>3. BatchOK  BY <1>1, LimitAssumption DEF Init, BatchOK, Distinct
<1>4. RowsOK  BY LimitAssumption DEF Init, RowsOK
<1> QED  BY <1>2, <1>3, <1>4, TypeParts

LEMMA NextType == TypeOK /\ [Next]_vars => TypeOK'
<1> SUFFICES ASSUME TypeOK, [Next]_vars PROVE QueueOK' /\ BatchOK' /\ RowsOK'
  BY InjectiveIsDistinct DEF TypeOK, QueueOK, BatchOK, RowsOK
<1>1. QueueOK /\ BatchOK /\ RowsOK  BY TypeParts
<1>2. ASSUME NEW x \in Tx, submit(x)
      PROVE  QueueOK' /\ BatchOK' /\ RowsOK'
  <2>1. ~Pending(x) /\ \A y \in Tx : Pending(y)' <=> Pending(y) \/ y = x
    BY <1>1, <1>2 DEF submit, Pending, RowsOK
  <2>2. /\ queue' \in Seq(Tx)
        /\ Distinct(queue')
        /\ \A y : y \in ToSet(queue') <=> y \in ToSet(queue) \/ y = x
    BY <1>1, <1>2, <2>1, AppendNew DEF submit, QueueOK
  <2>3. QueueOK'  BY <1>1, <2>1, <2>2 DEF QueueOK
  <2> QED  BY <1>1, <1>2, <2>3 DEF submit, BatchOK, RowsOK
<1>3. ASSUME NEW x \in Tx, mine(x)
      PROVE  QueueOK' /\ BatchOK' /\ RowsOK'
  BY <1>1, <1>3 DEF mine, QueueOK, BatchOK, RowsOK, Pending
<1>4. CASE startRun
  BY <1>1, <1>4, StartBatch DEF startRun, QueueOK, RowsOK, Pending
<1>5. CASE visitNext
  <2>1. Head(batch) \in Tx  BY <1>1, <1>5, HeadTailProperties DEF visitNext, BatchOK
  <2>2. PICK x \in Tx : x = Head(batch)  BY <2>1
  <2>3. CASE reconcile(x) /\ batch' = Tail(batch) /\ UNCHANGED mined
    BY <1>1, <1>5, <2>3, ReconcileQueue, ShortenBatch DEF visitNext
  <2>4. CASE skip(x)
    BY <1>1, <1>5, <2>4, ShortenBatch DEF visitNext, skip, QueueOK, RowsOK, Pending
  <2> QED  BY <1>5, <2>2, <2>3, <2>4 DEF visitNext
<1>6. ASSUME NEW x \in Requested, reconcileOnRequest(x)
      PROVE  QueueOK' /\ BatchOK' /\ RowsOK'
  BY <1>1, <1>6, FateAssumption, ReconcileQueue DEF reconcileOnRequest, BatchOK
<1>7. CASE abortRun
  <2>1. aborts' \in 0..MaxAborts  BY <1>1, <1>7, LimitAssumption DEF abortRun, RowsOK
  <2> QED  BY <1>1, <1>7, <2>1, ShortenBatch DEF abortRun, QueueOK, RowsOK, Pending
<1>8. CASE UNCHANGED vars
  BY <1>1, <1>8 DEF vars, QueueOK, BatchOK, RowsOK, Pending
<1> QED  BY <1>2, <1>3, <1>4, <1>5, <1>6, <1>7, <1>8 DEF Next

\* The queue holds each pending row once and no other row, whatever runs of the
\* job, requests and submissions overlap; a run visits no row twice.
THEOREM TypeCorrect == Spec => []TypeOK
  BY InitType, NextType, PTL DEF Spec
=================================================================================
