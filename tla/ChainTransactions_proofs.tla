------------------------ MODULE ChainTransactions_proofs ------------------------
(***************************************************************************)
(* What ChainTransactionsProps states, proved for any number of tasks,     *)
(* rows, broadcasts and overlapping reconcilers.                           *)
(***************************************************************************)
EXTENDS ChainTransactionsProps, TLAPS

\* A row has neither hash nor nonce before it is submitted; a replacement has
\* the nonce of the row that was submitted first, which is about the same.
NonceOfRow ==
    \A i \in Row :
        /\ rows[i].status \in {"wallet_requested", "rejected_by_user"} =>
               rows[i].hash = NoHash /\ rows[i].nonce = NoNonce
        /\ Used(i) /\ rows[i].nonce # NoNonce =>
               LET first == rows[rows[i].nonce]
               IN  /\ first.nonce = rows[i].nonce
                   /\ first.intent = rows[i].intent /\ first.task = rows[i].task

\* The wallet is asked about the row itself, never for a replacement.
RequestsOK ==
    \A i \in Row :
        /\ walletRequest[i] # NoRequest =>
               /\ Used(i)
               /\ walletRequest[i].call = rows[i].intent
               /\ walletRequest[i].task = rows[i].task
               /\ rows[i].nonce \in {NoNonce, i}
        /\ rows[i].status = "rejected_by_user" => walletRequest[i].state = "rejected"

\* What was broadcast was asked for, or cancels what was.
SentOK ==
    \A h \in Hash :
        sent[h] # NotSent =>
            LET request == walletRequest[sent[h].nonce]
            IN  /\ request.state = "sent"
                /\ sent[h].task = request.task
                /\ sent[h].call \in {request.call, "cancel"}

\* A nonce is used once.
NoncesOK ==
    \A g, h \in Hash : Mined(g) /\ Mined(h) /\ sent[g].nonce = sent[h].nonce => g = h

\* A creation gives a task, a receipt leads it on.
RegistryOK ==
    \A h \in Hash :
        /\ ~Mined(h) => registry[h] = "none"
        /\ sent[h].outcome = "success" /\ sent[h].call = "submit_receipt" =>
               sent[h].target \in Hash /\ registry[sent[h].target] \in {"receipt_submitted", "settled"}

\* The row that was submitted first; all creations of a task that were not
\* rejected have it in common.
Root(i) == IF rows[i].nonce = NoNonce THEN i ELSE rows[i].nonce

CreationsOK ==
    \A t \in Task : \A i, j \in TaskRows(t, "create_task") :
        rows[i].status # "rejected_by_user" /\ rows[j].status # "rejected_by_user" =>
            Root(i) = Root(j)

\* Only a task that is on chain has a receipt, and its creation is indexed.
TasksOK ==
    /\ \A i \in Row : rows[i].intent = "submit_receipt" => chain[rows[i].task] # "none"
    /\ \A t \in Task :
           chainTaskId[t] # NoHash => \E e \in events : e.hash = chainTaskId[t]

\* What a worker holds is still true of what never changes.
HeldOK(c) ==
    /\ Used(c.row) /\ c.hash = rows[c.row].hash
    /\ c.answer \in {"success", "reverted"} => sent[c.hash].outcome = c.answer
    /\ c.kind = "submit_receipt" =>
           /\ c.target # NoHash
           /\ rows[c.row].intent = "submit_receipt"
           /\ c.target = chainTaskId[rows[c.row].task]

WorkOK == \A w \in Worker : work[w] # Idle => HeldOK(work[w])

IInv ==
    /\ TypeOK
    /\ NonceOfRow /\ RequestsOK /\ SentOK /\ NoncesOK /\ RegistryOK
    /\ CreationsOK /\ TasksOK /\ WorkOK
    /\ OneLiveTransaction /\ DatabaseFollowsChain /\ EventsMatchConfirmed /\ AwaitingExplained

USE DEF Row, Hash, NoHash, NoNonce
--------------------------------------------------------------------------------
\* Nothing is recorded, asked for, or broadcast in the beginning.
LEMMA InitHolds == Init => IInv
<1> SUFFICES ASSUME Init PROVE IInv  OBVIOUS
<1> USE BoundAssumption
<1>1. TypeOK
  <2>1. \A i \in Row : Used(i) <=> i < nextRow  BY DEF Init, Used, NoRow
  <2>2. \A h \in Hash : sent[h] # NotSent <=> h < nextHash  BY DEF Init
  <2>3. \A i \in Row : rows[i].status = "none"  BY DEF Init, NoRow
  <2>3a. 1 \in 1..(MaxRows + 1) /\ 1 \in 1..(MaxHashes + 1)  OBVIOUS
  <2> QED  BY <2>1, <2>2, <2>3, <2>3a DEF Init, TypeOK
<1>2. NonceOfRow /\ RequestsOK  BY DEF Init, NonceOfRow, RequestsOK, NoRow, Used
<1>3. SentOK /\ NoncesOK /\ RegistryOK
  BY DEF Init, SentOK, NoncesOK, RegistryOK, NotSent, Mined
<1>4. CreationsOK /\ TasksOK  BY DEF Init, CreationsOK, TasksOK, TaskRows, NoRow
<1>5. WorkOK  BY DEF Init, WorkOK, HeldOK
<1>6. OneLiveTransaction  BY DEF Init, OneLiveTransaction, TaskRows, NoRow, Live
<1>7. DatabaseFollowsChain  BY DEF Init, DatabaseFollowsChain, NoRow
<1>8. EventsMatchConfirmed  BY DEF Init, EventsMatchConfirmed, NoRow
<1>9. AwaitingExplained
  BY TaskAssumption DEF Init, AwaitingExplained, TaskRows, NoRow
<1> QED  BY <1>1, <1>2, <1>3, <1>4, <1>5, <1>6, <1>7, <1>8, <1>9 DEF IInv

\* A row that is used is a record of the table.
LEMMA RowTyped ==
    ASSUME TypeOK, NEW i \in Row, Used(i)
    PROVE  rows[i] \in RowRecord
BY DEF TypeOK, Used, NoRow

\* A transaction with an outcome was broadcast.
LEMMA SentTyped ==
    ASSUME TypeOK, NEW h \in Hash, sent[h].outcome # "none" \/ sent[h] # NotSent
    PROVE  sent[h] \in Sent /\ sent[h] # NotSent /\ sent[h].outcome # "none"
BY DEF TypeOK, NotSent, Sent

\* The row a transaction was broadcast for, and that it is its own root.
LEMMA SentFor ==
    ASSUME IInv, NEW h \in Hash, sent[h] # NotSent
    PROVE  LET n == sent[h].nonce
           IN  /\ n \in Row /\ Used(n) /\ rows[n] \in RowRecord
               /\ rows[n].task = sent[h].task
               /\ sent[h].call \in {rows[n].intent, "cancel"}
               /\ rows[n].nonce \in {NoNonce, n}
               /\ rows[n].status # "rejected_by_user"
<1> DEFINE n == sent[h].nonce
<1>1. n \in Row  BY SentTyped DEF IInv, Sent
<1>2. walletRequest[n].state = "sent" /\ walletRequest[n] # NoRequest
  BY DEF IInv, SentOK, NoRequest
<1>3. Used(n)  BY <1>1, <1>2 DEF IInv, RequestsOK
<1> QED  BY <1>1, <1>2, <1>3, RowTyped DEF IInv, RequestsOK, SentOK

\* A row that has a hash has been submitted: its transaction is about the task
\* of the row, and makes its call or none.
LEMMA HashOfRow ==
    ASSUME IInv, NEW i \in Row, rows[i].hash # NoHash
    PROVE  /\ Used(i) /\ rows[i] \in RowRecord /\ rows[i].hash \in Hash
           /\ rows[i].status \notin {"wallet_requested", "rejected_by_user"}
           /\ sent[rows[i].hash] # NotSent
           /\ rows[i].nonce = sent[rows[i].hash].nonce
           /\ sent[rows[i].hash].task = rows[i].task
           /\ sent[rows[i].hash].call \in {rows[i].intent, "cancel"}
           /\ \A j \in Row : rows[j].hash = rows[i].hash => j = i
<1>1. Used(i) /\ rows[i] \in RowRecord
  BY DEF IInv, TypeOK, NoRow, Used, RowRecord, Status, Live, Final
<1>2. rows[i].hash \in Hash  BY <1>1 DEF RowRecord
<1>3. rows[i].status \in {"submitted", "unknown_reconcile", "confirmed", "reverted", "replaced"}
  BY <1>1 DEF IInv, NonceOfRow, RowRecord, Status, Live, Final
<1>4. /\ sent[rows[i].hash] # NotSent
      /\ rows[i].nonce = sent[rows[i].hash].nonce
      /\ \A j \in Row : rows[j].hash = rows[i].hash => j = i
  BY <1>3 DEF IInv, TypeOK
<1> DEFINE n == rows[i].nonce
<1>5. /\ n \in Row
      /\ rows[n].task = sent[rows[i].hash].task
      /\ sent[rows[i].hash].call \in {rows[n].intent, "cancel"}
  BY <1>2, <1>4, SentFor
<1>6. rows[n].intent = rows[i].intent /\ rows[n].task = rows[i].task
  BY <1>1, <1>5 DEF IInv, NonceOfRow
<1> QED  BY <1>1, <1>2, <1>3, <1>4, <1>5, <1>6

\* The creations of a task that were ever broadcast share one nonce.
LEMMA OneEscrow == IInv => SingleEscrow
<1> SUFFICES ASSUME IInv, NEW g \in Hash, NEW h \in Hash,
                    sent[g].outcome = "success", sent[g].call = "create_task",
                    sent[h].outcome = "success", sent[h].call = "create_task",
                    sent[g].task = sent[h].task
             PROVE  g = h
  BY DEF SingleEscrow
<1>1. /\ sent[g] # NotSent /\ sent[h] # NotSent /\ Mined(g) /\ Mined(h)
      /\ sent[g] \in Sent
  BY SentTyped DEF IInv, Mined
<1> DEFINE m == sent[g].nonce
           n == sent[h].nonce
           t == sent[g].task
<1>2. /\ m \in Row /\ rows[m].task = t /\ rows[m].intent = "create_task"
      /\ rows[m].nonce \in {NoNonce, m} /\ rows[m].status # "rejected_by_user"
  BY <1>1, SentFor
<1>3. /\ n \in Row /\ rows[n].task = t /\ rows[n].intent = "create_task"
      /\ rows[n].nonce \in {NoNonce, n} /\ rows[n].status # "rejected_by_user"
  BY <1>1, SentFor
<1>4. t \in Task  BY <1>1 DEF Sent
<1>5. Root(m) = m /\ Root(n) = n  BY <1>2, <1>3 DEF Root
<1>6. m = n  BY <1>2, <1>3, <1>4, <1>5 DEF IInv, CreationsOK, TaskRows
<1> QED  BY <1>1, <1>6 DEF IInv, NoncesOK
--------------------------------------------------------------------------------
(* The steps of the reconcilers that only read. *)

\* A step that only moves a worker disturbs only what the workers hold.
LEMMA WorkerStep ==
    ASSUME IInv, UNCHANGED <<database, world>>,
           work' \in [Worker -> Context \cup {Idle}], WorkOK'
    PROVE  IInv'
<1> USE DEF database, world, taskTable
<1>1. TypeOK'  BY DEF IInv, TypeOK, Used
<1>2. NonceOfRow' /\ RequestsOK' /\ SentOK' /\ NoncesOK' /\ RegistryOK'
  BY DEF IInv, NonceOfRow, RequestsOK, SentOK, NoncesOK, RegistryOK, Used, Mined
<1>3. CreationsOK' /\ TasksOK' /\ OneLiveTransaction' /\ AwaitingExplained'
  BY DEF IInv, CreationsOK, TasksOK, OneLiveTransaction, AwaitingExplained, TaskRows, Root
<1>4. DatabaseFollowsChain' /\ EventsMatchConfirmed'
  BY DEF IInv, DatabaseFollowsChain, EventsMatchConfirmed
<1> QED  BY <1>1, <1>2, <1>3, <1>4 DEF IInv

\* A pending row has a hash, which is what a worker takes with it.
LEMMA GetContextHolds ==
    ASSUME IInv, NEW w \in Worker, NEW i \in Row, NEW kind \in Intent,
           getReconciliationContext(w, i, kind)
    PROVE  IInv'
<1> DEFINE c == [row |-> i, kind |-> kind, expectedStatus |-> rows[i].status,
                 target |-> chainTaskId[rows[i].task], hash |-> rows[i].hash,
                 answer |-> "none"]
<1>1. work' = [work EXCEPT ![w] = c] /\ UNCHANGED <<database, world>>
  BY DEF getReconciliationContext
<1>2. rows[i].status \in {"submitted", "unknown_reconcile"}
  BY DEF getReconciliationContext, Pending
<1>3. Used(i) /\ rows[i] \in RowRecord  BY <1>2, RowTyped DEF IInv, Used
<1>4. rows[i].hash \in Hash  BY <1>2, <1>3 DEF IInv, TypeOK, RowRecord
<1>5. chainTaskId[rows[i].task] \in Hash \cup {NoHash}  BY <1>3 DEF IInv, TypeOK, RowRecord
<1>6. c \in Context  BY <1>2, <1>4, <1>5 DEF Context, Answer
<1>7. work' \in [Worker -> Context \cup {Idle}]  BY <1>1, <1>6 DEF IInv, TypeOK
<1>8. kind = "submit_receipt" =>
          /\ chainTaskId[rows[i].task] # NoHash
          /\ rows[i].intent = "submit_receipt"
  BY DEF getReconciliationContext
<1>9. WorkOK'
  <2> SUFFICES ASSUME NEW v \in Worker, NEW d, work'[v] = d, d # Idle
               PROVE  HeldOK(d)'
    BY DEF WorkOK, HeldOK, Used
  <2>1. CASE v = w
    <3>1. work'[v] = c  BY <1>1, <2>1 DEF IInv, TypeOK
    <3> QED  BY <1>1, <1>3, <1>8, <3>1 DEF database, world, taskTable, Used, HeldOK
  <2>2. CASE v # w
    <3>1. work'[v] = work[v]  BY <1>1, <2>2 DEF IInv, TypeOK
    <3> QED  BY <1>1, <3>1 DEF database, world, taskTable, Used, IInv, WorkOK, HeldOK
  <2> QED  BY <2>1, <2>2
<1> QED  BY <1>1, <1>7, <1>9, WorkerStep

\* The node's answer is the outcome of the transaction, or no answer.
LEMMA GetReceiptHolds ==
    ASSUME IInv, NEW w \in Worker, NEW answer \in Answer, getReceipt(w, answer)
    PROVE  IInv'
<1>1. work[w] \in Context
  BY DEF getReceipt, IInv, TypeOK, Idle
<1> DEFINE c == [work[w] EXCEPT !.answer = answer]
<1>2. work' = [work EXCEPT ![w] = c] /\ UNCHANGED <<database, world>>
  BY DEF getReceipt
<1>3. /\ c \in Context /\ c.row = work[w].row /\ c.kind = work[w].kind
      /\ c.target = work[w].target /\ c.hash = work[w].hash /\ c.answer = answer
  BY <1>1 DEF Context
<1>4. work' \in [Worker -> Context \cup {Idle}]  BY <1>2, <1>3 DEF IInv, TypeOK
<1>5. answer \in {"success", "reverted"} => sent[c.hash].outcome = answer
  BY <1>3 DEF getReceipt
<1>6. work[w] # Idle  BY <1>1 DEF getReceipt, Idle
<1>7. WorkOK'
  <2> SUFFICES ASSUME NEW v \in Worker, NEW d, work'[v] = d, d # Idle
               PROVE  HeldOK(d)'
    BY DEF WorkOK, HeldOK, Used
  <2>1. CASE v = w
    <3>1. work'[v] = c  BY <1>2, <2>1 DEF IInv, TypeOK
    <3>2. HeldOK(work[w])  BY <1>6 DEF IInv, WorkOK
    <3>3. /\ d.row = work[w].row /\ d.kind = work[w].kind /\ d.target = work[w].target
          /\ d.hash = work[w].hash /\ d.answer = answer
          /\ answer \in {"success", "reverted"} => sent[d.hash].outcome = answer
      <4> HIDE DEF c
      <4> QED  BY <1>3, <1>5, <3>1
    <3> QED  BY <1>2, <3>2, <3>3 DEF database, world, taskTable, Used, HeldOK
  <2>2. CASE v # w
    <3>1. work'[v] = work[v]  BY <1>2, <2>2 DEF IInv, TypeOK
    <3> QED  BY <1>2, <3>1 DEF database, world, taskTable, Used, IInv, WorkOK, HeldOK
  <2> QED  BY <2>1, <2>2
<1> QED  BY <1>2, <1>4, <1>7, WorkerStep

\* A worker that stops holds nothing.
LEMMA StopHolds ==
    ASSUME IInv, NEW w \in Worker, stopReconciling(w)
    PROVE  IInv'
<1>1. work' = [work EXCEPT ![w] = Idle] /\ UNCHANGED <<database, world>>
  BY DEF stopReconciling, Done
<1>2. work' \in [Worker -> Context \cup {Idle}]  BY <1>1 DEF IInv, TypeOK
<1>3. \A v \in Worker : work'[v] # Idle => work'[v] = work[v]  BY <1>1 DEF IInv, TypeOK
<1>4. WorkOK'
  BY <1>1, <1>3 DEF IInv, WorkOK, HeldOK, database, world, taskTable, Used
<1> QED  BY <1>1, <1>2, <1>4, WorkerStep
--------------------------------------------------------------------------------
(* The steps of the world outside. *)

\* No part of the invariant speaks of the archive or of a deadline.
LEMMA ProjectHolds ==
    ASSUME IInv, updateProject \/ \E t \in Task : deadlinePasses(t)
    PROVE  IInv'
<1>1. /\ UNCHANGED <<taskTable, rows, nextRow, events, walletRequest, sent, nextHash,
                     registry, work>>
      /\ archived' \in BOOLEAN /\ elapsed' \subseteq Task
  BY DEF updateProject, deadlinePasses, database, world, IInv, TypeOK
<1> USE <1>1 DEF taskTable
<1>2. TypeOK'  BY DEF IInv, TypeOK, Used
<1>3. NonceOfRow' /\ RequestsOK' /\ SentOK' /\ NoncesOK' /\ RegistryOK'
  BY DEF IInv, NonceOfRow, RequestsOK, SentOK, NoncesOK, RegistryOK, Used, Mined
<1>4. CreationsOK' /\ TasksOK' /\ OneLiveTransaction' /\ AwaitingExplained'
  BY DEF IInv, CreationsOK, TasksOK, OneLiveTransaction, AwaitingExplained, TaskRows, Root
<1>5. DatabaseFollowsChain' /\ EventsMatchConfirmed' /\ WorkOK'
  BY DEF IInv, DatabaseFollowsChain, EventsMatchConfirmed, WorkOK, HeldOK, Used
<1> QED  BY <1>2, <1>3, <1>4, <1>5 DEF IInv

\* Settling leaves no task of the registry open, and none missing.
LEMMA SettleHolds ==
    ASSUME IInv, NEW h \in Hash, settle(h)
    PROVE  IInv'
<1>1. /\ UNCHANGED <<archived, elapsed, offchain, chain, chainTaskId, rows, nextRow, events,
                     walletRequest, sent, nextHash, work>>
      /\ registry' = [registry EXCEPT ![h] = "settled"]
      /\ registry[h] \in {"open", "receipt_submitted"}
  BY DEF settle, database, taskTable
<1>2. \A g \in Hash : registry'[g] = IF g = h THEN "settled" ELSE registry[g]
  BY <1>1 DEF IInv, TypeOK
<1>3. TypeOK'  BY <1>1 DEF IInv, TypeOK, Used
<1>4. NonceOfRow' /\ RequestsOK' /\ SentOK' /\ NoncesOK'
  BY <1>1 DEF IInv, NonceOfRow, RequestsOK, SentOK, NoncesOK, Used, Mined
<1>5. RegistryOK'
  <2>1. RegistryOK  BY DEF IInv
  <2> QED  BY <1>1, <1>2, <2>1 DEF RegistryOK, Mined
<1>6. CreationsOK' /\ TasksOK' /\ OneLiveTransaction' /\ AwaitingExplained'
  BY <1>1 DEF IInv, CreationsOK, TasksOK, OneLiveTransaction, AwaitingExplained, TaskRows, Root
<1>7. EventsMatchConfirmed' /\ WorkOK'
  BY <1>1 DEF IInv, EventsMatchConfirmed, WorkOK, HeldOK, Used
<1>8. DatabaseFollowsChain'
  <2>1. DatabaseFollowsChain /\ chainTaskId \in [Task -> Hash \cup {NoHash}]
    BY DEF IInv, TypeOK
  <2> QED  BY <1>1, <1>2, <2>1 DEF DatabaseFollowsChain
<1> QED  BY <1>3, <1>4, <1>5, <1>6, <1>7, <1>8 DEF IInv

\* What the wallet asks the user is about a row that is not rejected yet.
LEMMA WalletRejectsHolds ==
    ASSUME IInv, NEW i \in Row, walletRejects(i)
    PROVE  IInv'
<1>1. /\ UNCHANGED <<archived, elapsed, offchain, chain, chainTaskId, rows, nextRow, events,
                     registry, sent, nextHash, work>>
      /\ walletRequest' = [walletRequest EXCEPT ![i].state = "rejected"]
      /\ walletRequest[i].state = "shown"
  BY DEF walletRejects, database, taskTable
<1>2. walletRequest[i] \in Request /\ walletRequest[i] # NoRequest
  BY <1>1 DEF IInv, TypeOK, NoRequest
<1> DEFINE r == [walletRequest[i] EXCEPT !.state = "rejected"]
<1>3. /\ r \in Request /\ r # NoRequest /\ r.state = "rejected"
      /\ r.call = walletRequest[i].call /\ r.task = walletRequest[i].task
  BY <1>2 DEF Request, NoRequest
<1>4. walletRequest' = [walletRequest EXCEPT ![i] = r]  BY <1>1
<1> HIDE DEF r
<1>5. \A j \in Row : walletRequest'[j] = IF j = i THEN r ELSE walletRequest[j]
  BY <1>4 DEF IInv, TypeOK
<1>6. TypeOK'
  <2>1. walletRequest' \in [Row -> Request \cup {NoRequest}]  BY <1>3, <1>4 DEF IInv, TypeOK
  <2> QED  BY <1>1, <2>1 DEF IInv, TypeOK, Used
<1>7. NonceOfRow' /\ NoncesOK' /\ RegistryOK'
  BY <1>1 DEF IInv, NonceOfRow, NoncesOK, RegistryOK, Used, Mined
<1>8. RequestsOK'
  BY <1>1, <1>2, <1>3, <1>5 DEF IInv, RequestsOK, Used
<1>9. SentOK'
  <2>1. \A h \in Hash : sent[h] # NotSent => sent[h].nonce \in Row
    BY SentTyped DEF IInv, Sent
  <2> QED  BY <1>1, <1>5, <2>1 DEF IInv, SentOK
<1>10. CreationsOK' /\ TasksOK' /\ OneLiveTransaction' /\ AwaitingExplained'
  BY <1>1 DEF IInv, CreationsOK, TasksOK, OneLiveTransaction, AwaitingExplained, TaskRows, Root
<1>11. DatabaseFollowsChain' /\ EventsMatchConfirmed' /\ WorkOK'
  BY <1>1 DEF IInv, DatabaseFollowsChain, EventsMatchConfirmed, WorkOK, HeldOK, Used
<1> QED  BY <1>6, <1>7, <1>8, <1>9, <1>10, <1>11 DEF IInv

\* A broadcast is of what was asked for, or cancels it, and nobody knows its
\* hash yet.
LEMMA BroadcastStep ==
    ASSUME IInv, NEW i \in Row, NEW call \in {walletRequest[i].call, "cancel"},
           walletRequest[i].state \in {"shown", "sent"},
           Broadcast(call, walletRequest[i].task, walletRequest[i].target, i),
           walletRequest' = [walletRequest EXCEPT ![i].state = "sent"],
           UNCHANGED <<database, elapsed, registry, work>>
    PROVE  IInv'
<1> DEFINE tx == [call |-> call, task |-> walletRequest[i].task,
                  target |-> walletRequest[i].target, nonce |-> i, outcome |-> "pending"]
           r == [walletRequest[i] EXCEPT !.state = "sent"]
<1>1. /\ UNCHANGED <<archived, elapsed, offchain, chain, chainTaskId, rows, nextRow, events,
                     registry, work>>
      /\ sent' = [sent EXCEPT ![nextHash] = tx] /\ nextHash' = nextHash + 1
      /\ nextHash \in Hash /\ walletRequest' = [walletRequest EXCEPT ![i] = r]
  BY BoundAssumption DEF Broadcast, database, taskTable, IInv, TypeOK
<1>2. walletRequest[i] \in Request /\ walletRequest[i] # NoRequest
  BY DEF IInv, TypeOK, NoRequest
<1>3. /\ r \in Request /\ r # NoRequest /\ r.state = "sent"
      /\ r.call = walletRequest[i].call /\ r.task = walletRequest[i].task
  BY <1>2 DEF Request, NoRequest
<1>4. /\ tx \in Sent /\ tx # NotSent /\ tx.outcome = "pending" /\ tx.nonce = i
      /\ tx.task = r.task /\ tx.call \in {r.call, "cancel"}
  BY <1>2, <1>3 DEF Request, Sent, NotSent
<1>5. sent[nextHash] = NotSent /\ sent[nextHash].outcome = "none"
  BY <1>1 DEF IInv, TypeOK, NotSent
<1> HIDE DEF tx, r
<1>6. /\ \A g \in Hash : sent'[g] = IF g = nextHash THEN tx ELSE sent[g]
      /\ \A j \in Row : walletRequest'[j] = IF j = i THEN r ELSE walletRequest[j]
  BY <1>1 DEF IInv, TypeOK
<1>7. \A g \in Hash :
          /\ Mined(g)' <=> Mined(g)
          /\ Mined(g) => sent'[g] = sent[g]
          /\ sent[g].outcome = "success" => sent'[g] = sent[g]
          /\ sent[g].outcome = "reverted" => sent'[g] = sent[g]
  BY <1>4, <1>5, <1>6 DEF Mined
<1>8. TypeOK'
  <2>1. /\ sent' \in [Hash -> Sent \cup {NotSent}]
        /\ walletRequest' \in [Row -> Request \cup {NoRequest}]
    <3>1. /\ sent \in [Hash -> Sent \cup {NotSent}]
          /\ walletRequest \in [Row -> Request \cup {NoRequest}]
      BY DEF IInv, TypeOK
    <3>2. tx \in Sent /\ r \in Request  BY <1>3, <1>4
    <3> QED  BY <1>1, <3>1, <3>2
  <2>2. /\ nextHash' \in 1..(MaxHashes + 1)
        /\ \A g \in Hash : sent'[g] # NotSent <=> g < nextHash'
    BY <1>1, <1>4, <1>6, BoundAssumption DEF IInv, TypeOK
  <2>3. \A j \in Row :
           rows[j].status \in {"submitted", "unknown_reconcile", "confirmed", "reverted", "replaced"} =>
              /\ rows[j].hash # NoHash /\ sent'[rows[j].hash] # NotSent
              /\ rows[j].nonce = sent'[rows[j].hash].nonce
              /\ \A k \in Row : rows[k].hash = rows[j].hash => k = j
    <3> SUFFICES ASSUME NEW j \in Row,
                   rows[j].status \in {"submitted", "unknown_reconcile", "confirmed", "reverted", "replaced"}
                 PROVE  /\ rows[j].hash # NoHash /\ sent'[rows[j].hash] # NotSent
                        /\ rows[j].nonce = sent'[rows[j].hash].nonce
                        /\ \A k \in Row : rows[k].hash = rows[j].hash => k = j
      OBVIOUS
    <3>1. rows[j].hash # NoHash  BY DEF IInv, TypeOK
    <3> QED  BY <1>5, <1>6, <3>1, HashOfRow
  <2>4. \A j \in Row : Used(j)' <=> j < nextRow'  BY <1>1 DEF IInv, TypeOK, Used
  <2> QED  BY <1>1, <2>1, <2>2, <2>3, <2>4 DEF IInv, TypeOK
<1>9. NonceOfRow'  BY <1>1 DEF IInv, NonceOfRow, Used
<1>10. RequestsOK'
  BY <1>1, <1>2, <1>3, <1>6 DEF IInv, RequestsOK, Used
<1>11. SentOK'
  <2>1. \A h \in Hash : sent[h] # NotSent => sent[h].nonce \in Row
    BY SentTyped DEF IInv, Sent
  <2> QED  BY <1>3, <1>4, <1>6, <2>1 DEF IInv, SentOK
<1>12. NoncesOK'  BY <1>7 DEF IInv, NoncesOK
<1>13. RegistryOK'
  <2>1. \A g \in Hash : sent'[g].outcome = "success" => sent'[g] = sent[g]
    BY <1>4, <1>6
  <2> QED  BY <1>1, <1>7, <2>1 DEF IInv, RegistryOK
<1>14. CreationsOK' /\ TasksOK' /\ OneLiveTransaction' /\ AwaitingExplained'
  BY <1>1 DEF IInv, CreationsOK, TasksOK, OneLiveTransaction, AwaitingExplained, TaskRows, Root
<1>15. EventsMatchConfirmed'  BY <1>1 DEF IInv, EventsMatchConfirmed
<1>16. WorkOK'
  <2> SUFFICES ASSUME NEW w \in Worker, NEW c, work[w] = c, c # Idle
               PROVE  HeldOK(c)'
    BY <1>1 DEF WorkOK, HeldOK, Used
  <2>1. HeldOK(c) /\ c \in Context  BY DEF IInv, WorkOK, TypeOK
  <2>2. c.hash \in Hash  BY <2>1 DEF Context
  <2> QED  BY <1>1, <1>7, <2>1, <2>2 DEF HeldOK, Used
<1>17. DatabaseFollowsChain'
  <2>1. \A t \in Task :
          LET h == chainTaskId[t]
          IN  /\ chain[t] = "none" <=> h = NoHash
              /\ h # NoHash =>
                    /\ sent'[h].outcome = "success"
                    /\ sent'[h].call = "create_task" /\ sent'[h].task = t
              /\ chain[t] = "receipt_submitted" =>
                    registry[h] \in {"receipt_submitted", "settled"}
    BY <1>7 DEF IInv, DatabaseFollowsChain, TypeOK
  <2>2. ASSUME NEW j \in Row, rows[j].status \in {"confirmed", "reverted"}
        PROVE  sent'[rows[j].hash] = sent[rows[j].hash]
    <3>1. rows[j].hash # NoHash  BY <2>2 DEF IInv, TypeOK
    <3> QED  BY <1>5, <1>6, <3>1, HashOfRow
  <2>3. ASSUME NEW j \in Row, rows[j].status = "rejected_by_user",
               NEW h \in Hash, sent'[h].outcome # "none"
        PROVE  sent'[h].nonce # j
    <3>1. j # i  BY <2>3 DEF IInv, RequestsOK
    <3> QED  BY <1>4, <1>6, <2>3, <3>1 DEF IInv, DatabaseFollowsChain
  <2> QED  BY <1>1, <2>1, <2>2, <2>3 DEF IInv, DatabaseFollowsChain
<1> QED  BY <1>8, <1>9, <1>10, <1>11, <1>12, <1>13, <1>14, <1>15, <1>16, <1>17 DEF IInv

\* The first broadcast of a request.
LEMMA WalletBroadcastsHolds ==
    ASSUME IInv, NEW i \in Row, walletBroadcasts(i)
    PROVE  IInv'
BY BroadcastStep DEF walletBroadcasts

\* Another with the same nonce: the request was passed on already.
LEMMA WalletReplacesHolds ==
    ASSUME IInv, NEW i \in Row, NEW call \in Intent \cup {"cancel"}, walletReplaces(i, call)
    PROVE  IInv'
<1>1. /\ walletRequest[i].state = "sent" /\ walletRequest' = walletRequest
      /\ call \in {walletRequest[i].call, "cancel"}
      /\ Broadcast(call, walletRequest[i].task, walletRequest[i].target, i)
      /\ UNCHANGED <<database, elapsed, registry, work>>
  BY DEF walletReplaces
<1>2. walletRequest[i] \in Request  BY <1>1 DEF IInv, TypeOK, NoRequest
<1>3. [walletRequest[i] EXCEPT !.state = "sent"] = walletRequest[i]  BY <1>1, <1>2 DEF Request
<1>4. walletRequest' = [walletRequest EXCEPT ![i].state = "sent"]
  BY <1>1, <1>3 DEF IInv, TypeOK
<1> QED  BY <1>1, <1>4, BroadcastStep

\* A transaction is mined when none with its nonce was; the tasks of the
\* registry that have a receipt keep it.
LEMMA MineStep ==
    ASSUME IInv, NEW h \in Hash, NEW outcome \in {"success", "reverted"}, CanMine(h),
           sent' = [sent EXCEPT ![h].outcome = outcome],
           registry' \in [Hash -> {"none", "open", "receipt_submitted", "settled"}],
           \A g \in Hash : g # h /\ ~Mined(g) => registry'[g] = registry[g],
           \A g \in Hash : registry[g] \in {"receipt_submitted", "settled"} =>
               registry'[g] \in {"receipt_submitted", "settled"},
           outcome = "success" /\ sent[h].call = "submit_receipt" =>
               /\ sent[h].target \in Hash
               /\ registry'[sent[h].target] \in {"receipt_submitted", "settled"},
           UNCHANGED <<database, elapsed, walletRequest, nextHash, work>>
    PROVE  IInv'
<1> DEFINE tx == [sent[h] EXCEPT !.outcome = outcome]
<1>1. /\ UNCHANGED <<archived, elapsed, offchain, chain, chainTaskId, rows, nextRow, events,
                     walletRequest, nextHash, work>>
      /\ sent' = [sent EXCEPT ![h] = tx] /\ sent[h].outcome = "pending"
  BY DEF CanMine, database, taskTable
<1>2. sent[h] \in Sent /\ sent[h] # NotSent  BY <1>1, SentTyped DEF IInv
<1>3. /\ tx \in Sent /\ tx # NotSent /\ tx.outcome = outcome /\ tx.nonce = sent[h].nonce
      /\ tx.task = sent[h].task /\ tx.call = sent[h].call /\ tx.target = sent[h].target
  BY <1>2 DEF Sent, NotSent
<1> HIDE DEF tx
<1>4. \A g \in Hash : sent'[g] = IF g = h THEN tx ELSE sent[g]
  BY <1>1 DEF IInv, TypeOK
<1>5. \A g \in Hash :
          /\ sent'[g].nonce = sent[g].nonce /\ sent'[g].task = sent[g].task
          /\ sent'[g].call = sent[g].call /\ sent'[g].target = sent[g].target
          /\ sent'[g].outcome = IF g = h THEN outcome ELSE sent[g].outcome
          /\ sent'[g] = NotSent <=> sent[g] = NotSent
  BY <1>2, <1>3, <1>4
<1>6. \A g \in Hash : sent[g].outcome \in {"success", "reverted"} => sent'[g].outcome = sent[g].outcome
  BY <1>1, <1>5
<1>7. TypeOK'
  <2>1. sent' \in [Hash -> Sent \cup {NotSent}]  BY <1>1, <1>3 DEF IInv, TypeOK
  <2>2. \A g \in Hash : sent'[g] # NotSent <=> g < nextHash'  BY <1>1, <1>5 DEF IInv, TypeOK
  <2>3. \A j \in Row :
           rows[j].status \in {"submitted", "unknown_reconcile", "confirmed", "reverted", "replaced"} =>
              /\ rows[j].hash # NoHash /\ sent'[rows[j].hash] # NotSent
              /\ rows[j].nonce = sent'[rows[j].hash].nonce
              /\ \A k \in Row : rows[k].hash = rows[j].hash => k = j
    <3> SUFFICES ASSUME NEW j \in Row,
                   rows[j].status \in {"submitted", "unknown_reconcile", "confirmed", "reverted", "replaced"}
                 PROVE  /\ rows[j].hash # NoHash /\ sent'[rows[j].hash] # NotSent
                        /\ rows[j].nonce = sent'[rows[j].hash].nonce
                        /\ \A k \in Row : rows[k].hash = rows[j].hash => k = j
      OBVIOUS
    <3>1. rows[j].hash # NoHash  BY DEF IInv, TypeOK
    <3> QED  BY <1>5, <3>1, HashOfRow
  <2>4. \A j \in Row : Used(j)' <=> j < nextRow'  BY <1>1 DEF IInv, TypeOK, Used
  <2> QED  BY <1>1, <2>1, <2>2, <2>3, <2>4 DEF IInv, TypeOK
<1>8. NonceOfRow' /\ RequestsOK'  BY <1>1 DEF IInv, NonceOfRow, RequestsOK, Used
<1>9. SentOK'  BY <1>1, <1>5 DEF IInv, SentOK
<1>10. NoncesOK'
  <2>1. \A g \in Hash : Mined(g) => sent[g].nonce # sent[h].nonce
    BY DEF CanMine, NonceUsed
  <2>2. \A g \in Hash : Mined(g)' => g = h \/ Mined(g)  BY <1>5 DEF Mined
  <2> QED  BY <1>5, <2>1, <2>2 DEF IInv, NoncesOK
<1>11. RegistryOK'
  <2> SUFFICES ASSUME NEW g \in Hash
               PROVE  /\ ~Mined(g)' => registry'[g] = "none"
                      /\ sent'[g].outcome = "success" /\ sent'[g].call = "submit_receipt" =>
                           /\ sent'[g].target \in Hash
                           /\ registry'[sent'[g].target] \in {"receipt_submitted", "settled"}
    BY DEF RegistryOK
  <2>1. CASE g = h  BY <1>5, <2>1 DEF Mined
  <2>2. CASE g # h  BY <1>5, <2>2 DEF IInv, RegistryOK, Mined
  <2> QED  BY <2>1, <2>2
<1>12. CreationsOK' /\ TasksOK' /\ OneLiveTransaction' /\ AwaitingExplained'
  BY <1>1 DEF IInv, CreationsOK, TasksOK, OneLiveTransaction, AwaitingExplained, TaskRows, Root
<1>13. EventsMatchConfirmed'  BY <1>1 DEF IInv, EventsMatchConfirmed
<1>14. WorkOK'
  <2> SUFFICES ASSUME NEW w \in Worker, NEW c, work[w] = c, c # Idle
               PROVE  HeldOK(c)'
    BY <1>1 DEF WorkOK, HeldOK, Used
  <2>1. HeldOK(c) /\ c \in Context  BY DEF IInv, WorkOK, TypeOK
  <2>2. c.hash \in Hash  BY <2>1 DEF Context
  <2> QED  BY <1>1, <1>6, <2>1, <2>2 DEF HeldOK, Used
<1>15. DatabaseFollowsChain'
  <2>1. \A t \in Task :
          LET g == chainTaskId[t]
          IN  /\ chain[t] = "none" <=> g = NoHash
              /\ g # NoHash =>
                    /\ sent'[g].outcome = "success"
                    /\ sent'[g].call = "create_task" /\ sent'[g].task = t
              /\ chain[t] = "receipt_submitted" =>
                    registry'[g] \in {"receipt_submitted", "settled"}
    BY <1>5, <1>6 DEF IInv, DatabaseFollowsChain, TypeOK
  <2>2. ASSUME NEW j \in Row, rows[j].status \in {"confirmed", "reverted"}
        PROVE  /\ sent'[rows[j].hash].outcome = sent[rows[j].hash].outcome
               /\ sent'[rows[j].hash].call = sent[rows[j].hash].call
    <3>1. rows[j].hash \in Hash  BY <2>2, HashOfRow DEF IInv, TypeOK
    <3> QED  BY <1>5, <1>6, <2>2, <3>1 DEF IInv, DatabaseFollowsChain
  <2>3. ASSUME NEW j \in Row, rows[j].status = "rejected_by_user",
               NEW g \in Hash, sent'[g].outcome # "none"
        PROVE  sent'[g].nonce # j
    BY <1>1, <1>5, <2>3 DEF IInv, DatabaseFollowsChain
  <2> QED  BY <1>1, <2>1, <2>2, <2>3 DEF IInv, DatabaseFollowsChain
<1> QED  BY <1>7, <1>8, <1>9, <1>10, <1>11, <1>12, <1>13, <1>14, <1>15 DEF IInv

\* A creation gives a task of its own.
LEMMA MineCreationHolds ==
    ASSUME IInv, NEW h \in Hash, mineCreation(h)
    PROVE  IInv'
<1>1. /\ CanMine(h) /\ sent[h].call = "create_task"
      /\ sent' = [sent EXCEPT ![h].outcome = "success"]
      /\ registry' = [registry EXCEPT ![h] = "open"]
      /\ UNCHANGED <<database, elapsed, walletRequest, nextHash, work>>
  BY DEF mineCreation
<1>2. registry[h] = "none"  BY <1>1 DEF CanMine, Mined, IInv, RegistryOK
<1>3. registry' \in [Hash -> {"none", "open", "receipt_submitted", "settled"}]
  BY <1>1 DEF IInv, TypeOK
<1>4. \A g \in Hash : registry'[g] = IF g = h THEN "open" ELSE registry[g]
  BY <1>1 DEF IInv, TypeOK
<1> QED  BY <1>1, <1>2, <1>3, <1>4, MineStep

\* A receipt leads a task on that is open, which an earlier creation gave.
LEMMA MineReceiptHolds ==
    ASSUME IInv, NEW h \in Hash, mineReceipt(h)
    PROVE  IInv'
<1>1. /\ CanMine(h) /\ sent[h].call = "submit_receipt"
      /\ sent[h].target # NoHash /\ registry[sent[h].target] = "open"
      /\ sent' = [sent EXCEPT ![h].outcome = "success"]
      /\ registry' = [registry EXCEPT ![sent[h].target] = "receipt_submitted"]
      /\ UNCHANGED <<database, elapsed, walletRequest, nextHash, work>>
  BY DEF mineReceipt
<1>2. sent[h] \in Sent  BY <1>1, SentTyped DEF CanMine, IInv
<1>3. sent[h].target \in Hash  BY <1>1, <1>2 DEF Sent
<1>4. Mined(sent[h].target)  BY <1>1, <1>3 DEF IInv, RegistryOK
<1>5. registry' \in [Hash -> {"none", "open", "receipt_submitted", "settled"}]
  BY <1>1 DEF IInv, TypeOK
<1>6. \A g \in Hash : registry'[g] = IF g = sent[h].target THEN "receipt_submitted" ELSE registry[g]
  BY <1>1, <1>3 DEF IInv, TypeOK
<1> QED  BY <1>1, <1>3, <1>4, <1>5, <1>6, MineStep

\* A cancelling transaction, and one that reverts, leave the registry alone.
LEMMA MineNothingHolds ==
    ASSUME IInv, NEW h \in Hash, mineCancel(h) \/ revert(h)
    PROVE  IInv'
<1>1. /\ CanMine(h) /\ registry' = registry
      /\ UNCHANGED <<database, elapsed, walletRequest, nextHash, work>>
      /\ registry' \in [Hash -> {"none", "open", "receipt_submitted", "settled"}]
  BY DEF mineCancel, revert, IInv, TypeOK
<1>2. CASE mineCancel(h)
  BY <1>1, <1>2, MineStep DEF mineCancel
<1>3. CASE revert(h)
  BY <1>1, <1>3, MineStep DEF revert
<1> QED  BY <1>2, <1>3
--------------------------------------------------------------------------------
(* The steps that change the status of one row. *)

Submitted == {"submitted", "unknown_reconcile", "confirmed", "reverted", "replaced"}

\* The part of TypeOK about the rows.
RowsOK ==
    /\ rows \in [Row -> RowRecord \cup {NoRow}]
    /\ \A i \in Row : Used(i) <=> i < nextRow
    /\ \A i \in Row :
          rows[i].status \in Submitted =>
              /\ rows[i].hash # NoHash
              /\ sent[rows[i].hash] # NotSent
              /\ rows[i].nonce = sent[rows[i].hash].nonce
              /\ \A j \in Row : rows[j].hash = rows[i].hash => j = i

\* A step that changes the status of row i to s, and no more of the rows.
ChangesStatus(i, s) ==
    \A j \in Row :
        /\ rows'[j].intent = rows[j].intent /\ rows'[j].task = rows[j].task
        /\ rows'[j].hash = rows[j].hash /\ rows'[j].nonce = rows[j].nonce
        /\ rows'[j].status = IF j = i THEN s ELSE rows[j].status

\* What a worker holds stays true while intents, tasks, hashes and ids once set
\* stay.
LEMMA HeldStep ==
    ASSUME IInv, sent' = sent,
           \A v \in Worker : work'[v] = work[v] \/ work'[v] = Idle,
           \A j \in Row : Used(j) => /\ rows'[j].status # "none"
                                     /\ rows'[j].intent = rows[j].intent
                                     /\ rows'[j].task = rows[j].task
                                     /\ rows[j].hash # NoHash => rows'[j].hash = rows[j].hash,
           \A t \in Task : chainTaskId[t] # NoHash => chainTaskId'[t] = chainTaskId[t]
    PROVE  WorkOK'
<1> SUFFICES ASSUME NEW w \in Worker, NEW c, work'[w] = c, c # Idle
             PROVE  HeldOK(c)'
  BY DEF WorkOK, HeldOK, Used
<1>1. HeldOK(c) /\ c \in Context  BY DEF IInv, WorkOK, TypeOK
<1>2. c.row \in Row /\ c.hash \in Hash  BY <1>1 DEF Context
<1>3. rows[c.row] \in RowRecord  BY <1>1, <1>2, RowTyped DEF HeldOK, IInv
<1>4. rows[c.row].task \in Task  BY <1>3 DEF RowRecord
<1> QED  BY <1>1, <1>2, <1>4 DEF HeldOK, Used

\* A row leaves a status that is not final for one of the outcomes; rejected is
\* the outcome of one that was never submitted.
LEMMA StatusStep ==
    ASSUME IInv, NEW i \in Row,
           NEW s \in {"rejected_by_user", "unknown_reconcile", "reverted", "confirmed"},
           rows[i].status \in {"wallet_requested", "submitted", "unknown_reconcile"},
           s = "rejected_by_user" <=> rows[i].status = "wallet_requested",
           s = "rejected_by_user" => walletRequest[i].state = "rejected",
           rows' = [rows EXCEPT ![i].status = s],
           UNCHANGED <<nextRow, walletRequest, sent>>
    PROVE  /\ ChangesStatus(i, s) /\ RowsOK'
           /\ NonceOfRow' /\ RequestsOK' /\ CreationsOK' /\ OneLiveTransaction'
<1>1. Used(i) /\ rows[i] \in RowRecord  BY RowTyped DEF Used, IInv
<1> DEFINE r == [rows[i] EXCEPT !.status = s]
<1>2. /\ r \in RowRecord /\ r.status = s /\ r.intent = rows[i].intent
      /\ r.task = rows[i].task /\ r.hash = rows[i].hash /\ r.nonce = rows[i].nonce
  BY <1>1 DEF RowRecord, Status, Live, Final
<1>3. rows' = [rows EXCEPT ![i] = r]  OBVIOUS
<1> HIDE DEF r
<1>4. /\ rows' \in [Row -> RowRecord \cup {NoRow}]
      /\ \A j \in Row : rows'[j] = IF j = i THEN r ELSE rows[j]
  BY <1>2, <1>3 DEF IInv, TypeOK
<1>5. \A j \in Row :
          /\ rows'[j].intent = rows[j].intent /\ rows'[j].task = rows[j].task
          /\ rows'[j].hash = rows[j].hash /\ rows'[j].nonce = rows[j].nonce
          /\ rows'[j].status = IF j = i THEN s ELSE rows[j].status
  BY <1>2, <1>4
<1>6. \A j \in Row : Used(j)' <=> Used(j)  BY <1>1, <1>5 DEF Used
<1>7. \A j \in Row : Used(j)' <=> j < nextRow'  BY <1>6 DEF IInv, TypeOK
<1>8. \A j \in Row :
          rows'[j].status \in Submitted =>
             /\ rows'[j].hash # NoHash /\ sent'[rows'[j].hash] # NotSent
             /\ rows'[j].nonce = sent'[rows'[j].hash].nonce
             /\ \A k \in Row : rows'[k].hash = rows'[j].hash => k = j
  <2>1. \A j \in Row : rows'[j].status \in Submitted => rows[j].status \in Submitted
    BY <1>5 DEF Submitted
  <2> QED  BY <1>5, <2>1 DEF IInv, TypeOK, Submitted
<1>9. NonceOfRow'
  <2>1. \A j \in Row : rows'[j].status \in {"wallet_requested", "rejected_by_user"} =>
            rows[j].status \in {"wallet_requested", "rejected_by_user"}
    BY <1>5
  <2>2. \A j \in Row : Used(j) /\ rows[j].nonce # NoNonce => rows[j].nonce \in Row
    BY RowTyped DEF IInv, RowRecord
  <2> QED  BY <1>5, <1>6, <2>1, <2>2 DEF IInv, NonceOfRow
<1>10. RequestsOK'  BY <1>5, <1>6 DEF IInv, RequestsOK
<1>11. CreationsOK'
  BY <1>5 DEF IInv, CreationsOK, TaskRows, Root
<1>12. OneLiveTransaction'
  <2>1. \A j \in Row : rows'[j].status \in Live => rows[j].status \in Live
    BY <1>5 DEF Live
  <2> QED  BY <1>5, <2>1 DEF IInv, OneLiveTransaction, TaskRows
<1> QED  BY <1>4, <1>5, <1>7, <1>8, <1>9, <1>10, <1>11, <1>12 DEF ChangesStatus, RowsOK, Used

\* What is left to show of a step that changes one row's status and moves one
\* worker.
LEMMA MarkHolds ==
    ASSUME IInv, NEW w \in Worker,
           markTransactionUnknown(w) \/ markTransactionReverted(w)
    PROVE  IInv'
<1> DEFINE c == work[w]
<1>1. PICK s \in {"unknown_reconcile", "reverted"} :
        /\ rows' = [rows EXCEPT ![c.row].status = s]
        /\ s = "reverted" => c.answer = "reverted"
        /\ StillExpected(c) /\ c.answer \notin {"idle", "none"} /\ Done(w)
        /\ UNCHANGED <<archived, taskTable, nextRow, events, world>>
  BY DEF markTransactionUnknown, markTransactionReverted, Inconclusive
<1>2. c \in Context /\ HeldOK(c)
  BY <1>1 DEF IInv, TypeOK, WorkOK, Idle
<1>3. /\ c.row \in Row
      /\ rows[c.row].status \in {"submitted", "unknown_reconcile"}
  BY <1>1, <1>2 DEF Context, StillExpected
<1> DEFINE i == c.row
<1>4. UNCHANGED <<archived, elapsed, offchain, chain, chainTaskId, nextRow, events,
                  registry, walletRequest, sent, nextHash>>
  BY <1>1 DEF taskTable, world
<1>5. /\ ChangesStatus(i, s) /\ RowsOK'
      /\ NonceOfRow' /\ RequestsOK' /\ CreationsOK' /\ OneLiveTransaction'
  <2>1. s \in {"rejected_by_user", "unknown_reconcile", "reverted", "confirmed"}
    OBVIOUS
  <2>2. /\ i \in Row /\ rows' = [rows EXCEPT ![i].status = s]
        /\ rows[i].status \in {"wallet_requested", "submitted", "unknown_reconcile"}
        /\ s = "rejected_by_user" <=> rows[i].status = "wallet_requested"
        /\ s = "rejected_by_user" => walletRequest[i].state = "rejected"
    BY <1>1, <1>3
  <2> HIDE DEF i
  <2> QED  BY <1>4, <2>1, <2>2, StatusStep
<1>6. /\ work' \in [Worker -> Context \cup {Idle}]
      /\ \A v \in Worker : work'[v] = work[v] \/ work'[v] = Idle
  BY <1>1 DEF Done, IInv, TypeOK
<1>7. TypeOK'  BY <1>4, <1>5, <1>6 DEF IInv, TypeOK, RowsOK, Submitted, Used
<1>8. SentOK' /\ NoncesOK' /\ RegistryOK'
  BY <1>4 DEF IInv, SentOK, NoncesOK, RegistryOK, Mined
<1>9. TasksOK'  BY <1>4, <1>5 DEF IInv, TasksOK, ChangesStatus
<1>10. WorkOK'
  <2>1. \A j \in Row : Used(j) => rows'[j].status # "none"  BY <1>5 DEF Used, ChangesStatus
  <2> QED  BY <1>4, <1>5, <1>6, <2>1, HeldStep DEF ChangesStatus
<1>11. DatabaseFollowsChain'
  <2>1. rows[i].hash = c.hash  BY <1>2 DEF HeldOK
  <2>2. s = "reverted" => sent[rows[i].hash].outcome = "reverted"
    BY <1>1, <1>2, <2>1 DEF HeldOK
  <2> QED  BY <1>4, <1>5, <2>2 DEF IInv, DatabaseFollowsChain, ChangesStatus
<1>12. EventsMatchConfirmed'
  <2>1. \A j \in Row : rows'[j].status = "confirmed" <=> rows[j].status = "confirmed"
    BY <1>3, <1>5 DEF ChangesStatus
  <2> QED  BY <1>4, <1>5, <2>1 DEF IInv, EventsMatchConfirmed, ChangesStatus
<1>13. AwaitingExplained'
  <2>1. \A j \in Row : rows'[j].status = "rejected_by_user" <=> rows[j].status = "rejected_by_user"
    BY <1>3, <1>5 DEF ChangesStatus
  <2> QED  BY <1>4, <1>5, <2>1 DEF IInv, AwaitingExplained, TaskRows, ChangesStatus
<1> QED  BY <1>5, <1>7, <1>8, <1>9, <1>10, <1>11, <1>12, <1>13 DEF IInv

\* A creation that was not submitted has no replacement: when it is rejected no
\* other row explains awaiting_chain, and none has to.
LEMMA RecordRejectedHolds ==
    ASSUME IInv, NEW i \in Row, recordRejected(i)
    PROVE  IInv'
<1> DEFINE t == rows[i].task
<1>1. /\ UNCHANGED <<archived, elapsed, chain, chainTaskId, nextRow, events,
                     registry, walletRequest, sent, nextHash, work>>
      /\ walletRequest[i].state = "rejected" /\ rows[i].status = "wallet_requested"
      /\ rows' = [rows EXCEPT ![i].status = "rejected_by_user"]
      /\ offchain' = [offchain EXCEPT ![t] = "draft"]
  BY DEF recordRejected, world
<1>2. rows[i] \in RowRecord  BY <1>1, RowTyped DEF Used, IInv
<1>3. t \in Task  BY <1>2 DEF RowRecord
<1>4. /\ ChangesStatus(i, "rejected_by_user") /\ RowsOK'
      /\ NonceOfRow' /\ RequestsOK' /\ CreationsOK' /\ OneLiveTransaction'
  BY <1>1, StatusStep
<1>5. /\ offchain' \in [Task -> {"draft", "awaiting_chain", "open", "receipt_submitted"}]
      /\ \A u \in Task : offchain'[u] = IF u = t THEN "draft" ELSE offchain[u]
  BY <1>1 DEF IInv, TypeOK
<1>6. TypeOK'  BY <1>1, <1>4, <1>5 DEF IInv, TypeOK, RowsOK, Submitted, Used
<1>7. SentOK' /\ NoncesOK' /\ RegistryOK'
  BY <1>1 DEF IInv, SentOK, NoncesOK, RegistryOK, Mined
<1>8. TasksOK'  BY <1>1, <1>4 DEF IInv, TasksOK, ChangesStatus
<1>9. WorkOK'
  <2>1. \A j \in Row : Used(j) => rows'[j].status # "none"  BY <1>4 DEF Used, ChangesStatus
  <2> QED  BY <1>1, <1>4, <2>1, HeldStep DEF ChangesStatus
<1>10. DatabaseFollowsChain'
  <2>1. ASSUME NEW h \in Hash, sent[h].outcome # "none"
        PROVE  sent[h].nonce # i
    BY <1>1, <2>1, SentTyped DEF IInv, SentOK
  <2> QED  BY <1>1, <1>4, <2>1 DEF IInv, DatabaseFollowsChain, ChangesStatus
<1>11. EventsMatchConfirmed'
  <2>1. \A j \in Row : rows'[j].status = "confirmed" <=> rows[j].status = "confirmed"
    BY <1>1, <1>4 DEF ChangesStatus
  <2> QED  BY <1>1, <1>4, <2>1 DEF IInv, EventsMatchConfirmed, ChangesStatus
<1>12. AwaitingExplained'
  <2>1. CASE rows[i].intent = "create_task"
    <3>1. ASSUME NEW j \in TaskRows(t, "create_task"), rows[j].status # "rejected_by_user", j # i
          PROVE  FALSE
      <4>1. j \in Row /\ Root(j) = Root(i) /\ rows[j].task \in Task
        BY <1>1, <1>3, <2>1, <3>1 DEF IInv, CreationsOK, TaskRows
      <4>2. rows[i].nonce = NoNonce  BY <1>1 DEF IInv, NonceOfRow
      <4>3. rows[j].nonce = i  BY <3>1, <4>1, <4>2 DEF Root
      <4>4. Used(j)  BY <3>1, TaskAssumption, <1>3 DEF IInv, TypeOK, TaskRows, NoRow, Used, RowRecord, Status, Live, Final
      <4> QED  BY <4>1, <4>2, <4>3, <4>4 DEF IInv, NonceOfRow
    <3>2. ~\E j \in TaskRows(t, "create_task")' : rows'[j].status # "rejected_by_user"
      BY <1>4, <3>1 DEF ChangesStatus, TaskRows
    <3>3. \A u \in Task : u # t =>
              (\E j \in TaskRows(u, "create_task")' : rows'[j].status # "rejected_by_user")
          <=> (\E j \in TaskRows(u, "create_task") : rows[j].status # "rejected_by_user")
      BY <1>4 DEF ChangesStatus, TaskRows
    <3> QED  BY <1>1, <1>5, <3>2, <3>3 DEF IInv, AwaitingExplained, ChangesStatus, TaskRows
  <2>2. CASE rows[i].intent # "create_task"
    <3>1. chain[t] # "none"
      BY <1>2, <2>2 DEF IInv, TasksOK, RowRecord, Intent
    <3>2. \A u \in Task :
              (\E j \in TaskRows(u, "create_task")' : rows'[j].status # "rejected_by_user")
          <=> (\E j \in TaskRows(u, "create_task") : rows[j].status # "rejected_by_user")
      BY <1>4, <2>2 DEF ChangesStatus, TaskRows
    <3> QED  BY <1>1, <1>5, <3>1, <3>2 DEF IInv, AwaitingExplained, TaskRows
  <2> QED  BY <2>1, <2>2
<1> QED  BY <1>4, <1>6, <1>7, <1>8, <1>9, <1>10, <1>11, <1>12 DEF IInv

\* What a reconciler that confirms knows of its row.
LEMMA Confirming ==
    ASSUME IInv, NEW w \in Worker, Confirms(work[w]), StillExpected(work[w])
    PROVE  LET c == work[w]
               h == c.hash
           IN  /\ c \in Context /\ HeldOK(c) /\ c.row \in Row /\ h \in Hash
               /\ rows[c.row].hash = h /\ rows[c.row] \in RowRecord
               /\ rows[c.row].status \in {"submitted", "unknown_reconcile"}
               /\ rows[c.row].intent = c.kind
               /\ sent[h].outcome = "success" /\ sent[h].call = c.kind
               /\ sent[h].task = rows[c.row].task
<1> DEFINE c == work[w]
<1>1. c \in Context /\ HeldOK(c)
  BY DEF Confirms, IInv, TypeOK, WorkOK, Idle
<1>2. /\ c.row \in Row /\ c.hash \in Hash /\ c.kind \in Intent
      /\ rows[c.row].status \in {"submitted", "unknown_reconcile"}
  BY <1>1 DEF Context, StillExpected
<1>3. rows[c.row].hash = c.hash /\ c.hash # NoHash  BY <1>1, <1>2 DEF HeldOK
<1>4. sent[c.hash].outcome = "success"  BY <1>1 DEF HeldOK, Confirms
<1>5. sent[c.hash].call = c.kind  BY DEF Confirms, EventMatches
<1>6. /\ rows[c.row] \in RowRecord /\ sent[c.hash].task = rows[c.row].task
      /\ sent[c.hash].call \in {rows[c.row].intent, "cancel"}
  BY <1>2, <1>3, HashOfRow
<1> QED  BY <1>1, <1>2, <1>3, <1>4, <1>5, <1>6 DEF Intent

\* A task has no id before its creation is confirmed: the id names the one
\* creation there is, whose event would be indexed.
LEMMA NotOnChainYet ==
    ASSUME IInv, NEW w \in Worker, Confirms(work[w]), StillExpected(work[w]),
           work[w].kind = "create_task", NotIndexed(work[w].hash)
    PROVE  LET t == rows[work[w].row].task
           IN  t \in Task /\ chain[t] = "none" /\ chainTaskId[t] = NoHash
<1> DEFINE h == work[w].hash
           t == rows[work[w].row].task
           g == chainTaskId[t]
<1>1. /\ rows[work[w].row] \in RowRecord /\ h \in Hash
      /\ sent[h].outcome = "success" /\ sent[h].call = "create_task" /\ sent[h].task = t
  BY Confirming
<1>2. t \in Task  BY <1>1 DEF RowRecord
<1>3. ASSUME g # NoHash PROVE FALSE
  <2>1. g \in Hash  BY <1>2, <1>3 DEF IInv, TypeOK
  <2>2. sent[g].outcome = "success" /\ sent[g].call = "create_task" /\ sent[g].task = t
    BY <1>2, <1>3 DEF IInv, DatabaseFollowsChain
  <2>3. g = h  BY <1>1, <2>1, <2>2, OneEscrow DEF SingleEscrow
  <2> QED  BY <1>2, <1>3, <2>3 DEF IInv, TasksOK, NotIndexed
<1> QED  BY <1>2, <1>3 DEF IInv, DatabaseFollowsChain

\* A confirmed creation gives its task the id that the receipt showed.
LEMMA ConfirmCreationHolds ==
    ASSUME IInv, NEW w \in Worker, confirmTaskCreatedFromReconciliation(w)
    PROVE  IInv'
<1> DEFINE c == work[w]
           i == c.row
           t == rows[i].task
           h == c.hash
<1>1. /\ Confirms(c) /\ c.kind = "create_task" /\ StillExpected(c)
  BY DEF confirmTaskCreatedFromReconciliation
<1>2. /\ c \in Context /\ HeldOK(c) /\ i \in Row /\ h \in Hash
      /\ rows[i].hash = h /\ rows[i] \in RowRecord
      /\ rows[i].status \in {"submitted", "unknown_reconcile"}
      /\ rows[i].intent = "create_task"
      /\ sent[h].outcome = "success" /\ sent[h].call = "create_task" /\ sent[h].task = t
  BY <1>1, Confirming
<1>3. /\ NotIndexed(h)
      /\ events' = events \cup {Event(h, "TaskCreated")}
      /\ rows' = [rows EXCEPT ![i].status = "confirmed"]
      /\ chainTaskId' = [chainTaskId EXCEPT ![t] = h]
      /\ offchain' = [offchain EXCEPT ![t] = "open"]
      /\ chain' = [chain EXCEPT ![t] = "open"]
      /\ work' = [work EXCEPT ![w] = Idle]
      /\ UNCHANGED <<archived, elapsed, nextRow, registry, walletRequest, sent, nextHash>>
  BY <1>2 DEF confirmTaskCreatedFromReconciliation, Done, world
<1> HIDE DEF c, i, t, h
<1>4. t \in Task  BY <1>2 DEF RowRecord, t
<1>5. chain[t] = "none" /\ chainTaskId[t] = NoHash
  BY <1>1, <1>2, <1>3, NotOnChainYet DEF c, i, t, h
<1>6. /\ ChangesStatus(i, "confirmed") /\ RowsOK'
      /\ NonceOfRow' /\ RequestsOK' /\ CreationsOK' /\ OneLiveTransaction'
  BY <1>2, <1>3, StatusStep
<1>7. /\ \A u \in Task :
            /\ chainTaskId'[u] = IF u = t THEN h ELSE chainTaskId[u]
            /\ chain'[u] = IF u = t THEN "open" ELSE chain[u]
            /\ offchain'[u] = IF u = t THEN "open" ELSE offchain[u]
      /\ offchain' \in [Task -> {"draft", "awaiting_chain", "open", "receipt_submitted"}]
      /\ chain' \in [Task -> {"none", "open", "receipt_submitted"}]
      /\ chainTaskId' \in [Task -> Hash \cup {NoHash}]
  BY <1>2, <1>3 DEF IInv, TypeOK
<1>8. events' \subseteq [hash: Hash, name: {"TaskCreated", "ReceiptSubmitted"}]
  BY <1>2, <1>3 DEF IInv, TypeOK, Event
<1>9. /\ work' \in [Worker -> Context \cup {Idle}]
      /\ \A v \in Worker : work'[v] = work[v] \/ work'[v] = Idle
  BY <1>3 DEF IInv, TypeOK
<1>10. TypeOK'
  BY <1>3, <1>6, <1>7, <1>8, <1>9 DEF IInv, TypeOK, RowsOK, Submitted, Used
<1>11. SentOK' /\ NoncesOK' /\ RegistryOK'
  BY <1>3 DEF IInv, SentOK, NoncesOK, RegistryOK, Mined
<1>12. TasksOK'
  <2>1. ASSUME NEW j \in Row, rows'[j].intent = "submit_receipt"
        PROVE  chain'[rows'[j].task] # "none"
    <3>1. rows[j].intent = "submit_receipt" /\ rows'[j].task = rows[j].task
      BY <1>6, <2>1 DEF ChangesStatus
    <3>2. rows[j] \in RowRecord  BY <3>1 DEF IInv, TypeOK, NoRow
    <3>3. rows[j].task \in Task  BY <3>2 DEF RowRecord
    <3> QED  BY <1>7, <3>1, <3>3 DEF IInv, TasksOK
  <2>2. \A u \in Task : chainTaskId'[u] # NoHash => \E e \in events' : e.hash = chainTaskId'[u]
    <3>1. \A e \in events : e \in events'  BY <1>3
    <3>2. \E e \in events' : e.hash = h
      <4>1. Event(h, "TaskCreated") \in events' /\ Event(h, "TaskCreated").hash = h
        BY <1>3 DEF Event
      <4> QED  BY <4>1
    <3> QED  BY <1>7, <3>1, <3>2 DEF IInv, TasksOK
  <2> QED  BY <2>1, <2>2 DEF TasksOK
<1>13. WorkOK'
  <2>1. \A j \in Row : Used(j) => rows'[j].status # "none"  BY <1>6 DEF Used, ChangesStatus
  <2> QED  BY <1>3, <1>5, <1>6, <1>7, <1>9, <2>1, HeldStep DEF ChangesStatus
<1>14. DatabaseFollowsChain'
  <2>1. \A u \in Task :
          LET g == chainTaskId'[u]
          IN  /\ chain'[u] = "none" <=> g = NoHash
              /\ g # NoHash =>
                    /\ sent[g].outcome = "success"
                    /\ sent[g].call = "create_task" /\ sent[g].task = u
              /\ chain'[u] = "receipt_submitted" =>
                    registry[g] \in {"receipt_submitted", "settled"}
    BY <1>2, <1>7 DEF IInv, DatabaseFollowsChain
  <2> QED  BY <1>2, <1>3, <1>6, <2>1 DEF IInv, DatabaseFollowsChain, ChangesStatus
<1>15. EventsMatchConfirmed'
  <2>1. \A j \in Row : rows'[j].status = "confirmed" <=> j = i \/ rows[j].status = "confirmed"
    BY <1>6 DEF ChangesStatus
  <2>2. \A j \in Row : rows'[j].hash = rows[j].hash /\ rows'[j].intent = rows[j].intent
    BY <1>6 DEF ChangesStatus
  <2>3. \A j \in Row : rows'[j].status = "confirmed" => \E e \in events' : e.hash = rows'[j].hash
    <3>1. \A e \in events : e \in events'  BY <1>3
    <3>2. \E e \in events' : e.hash = h
      <4>1. Event(h, "TaskCreated") \in events' /\ Event(h, "TaskCreated").hash = h
        BY <1>3 DEF Event
      <4> QED  BY <4>1
    <3> QED  BY <1>2, <2>1, <2>2, <3>1, <3>2 DEF IInv, EventsMatchConfirmed
  <2>4. ASSUME NEW e \in events'
        PROVE  \E j \in Row :
                 /\ rows'[j].status = "confirmed" /\ rows'[j].hash = e.hash
                 /\ e.name = IF rows'[j].intent = "create_task"
                               THEN "TaskCreated" ELSE "ReceiptSubmitted"
    BY <1>2, <1>3, <2>1, <2>2, <2>4 DEF IInv, EventsMatchConfirmed, Event
  <2> QED  BY <2>3, <2>4 DEF EventsMatchConfirmed
<1>16. AwaitingExplained'
  <2>1. \A j \in Row : rows'[j].status = "rejected_by_user" <=> rows[j].status = "rejected_by_user"
    BY <1>2, <1>6 DEF ChangesStatus
  <2> QED  BY <1>6, <1>7, <2>1 DEF IInv, AwaitingExplained, TaskRows, ChangesStatus
<1> QED  BY <1>6, <1>10, <1>11, <1>12, <1>13, <1>14, <1>15, <1>16 DEF IInv

\* The receipt was accepted for the task whose id the row's task has.
LEMMA ConfirmReceiptHolds ==
    ASSUME IInv, NEW w \in Worker, confirmReceiptSubmittedFromReconciliation(w)
    PROVE  IInv'
<1> DEFINE c == work[w]
           i == c.row
           t == rows[i].task
           h == c.hash
<1>1. /\ Confirms(c) /\ c.kind = "submit_receipt" /\ StillExpected(c)
  BY DEF confirmReceiptSubmittedFromReconciliation
<1>2. /\ c \in Context /\ HeldOK(c) /\ i \in Row /\ h \in Hash
      /\ rows[i].hash = h /\ rows[i] \in RowRecord
      /\ rows[i].status \in {"submitted", "unknown_reconcile"}
      /\ rows[i].intent = "submit_receipt"
      /\ sent[h].outcome = "success" /\ sent[h].call = "submit_receipt" /\ sent[h].task = t
  BY <1>1, Confirming
<1>3. /\ NotIndexed(h)
      /\ events' = events \cup {Event(h, "ReceiptSubmitted")}
      /\ rows' = [rows EXCEPT ![i].status = "confirmed"]
      /\ offchain' = [offchain EXCEPT ![t] = "receipt_submitted"]
      /\ chain' = [chain EXCEPT ![t] = "receipt_submitted"]
      /\ work' = [work EXCEPT ![w] = Idle]
      /\ UNCHANGED <<archived, elapsed, chainTaskId, nextRow, registry, walletRequest, sent, nextHash>>
  BY <1>2 DEF confirmReceiptSubmittedFromReconciliation, Done, world
<1>4. /\ sent[h].target = c.target /\ c.target = chainTaskId[t] /\ chainTaskId[t] # NoHash
  BY <1>1, <1>2 DEF Confirms, EventMatches, HeldOK
<1> HIDE DEF c, i, t, h
<1>5. t \in Task  BY <1>2 DEF RowRecord, t
<1>6. chain[t] # "none" /\ registry[chainTaskId[t]] \in {"receipt_submitted", "settled"}
  <2>1. chain[t] # "none"  BY <1>4, <1>5 DEF IInv, DatabaseFollowsChain
  <2> QED  BY <1>2, <1>4, <2>1 DEF IInv, RegistryOK
<1>7. /\ ChangesStatus(i, "confirmed") /\ RowsOK'
      /\ NonceOfRow' /\ RequestsOK' /\ CreationsOK' /\ OneLiveTransaction'
  BY <1>2, <1>3, StatusStep
<1>8. /\ \A u \in Task :
            /\ chain'[u] = IF u = t THEN "receipt_submitted" ELSE chain[u]
            /\ offchain'[u] = IF u = t THEN "receipt_submitted" ELSE offchain[u]
      /\ offchain' \in [Task -> {"draft", "awaiting_chain", "open", "receipt_submitted"}]
      /\ chain' \in [Task -> {"none", "open", "receipt_submitted"}]
  BY <1>3 DEF IInv, TypeOK
<1>9. events' \subseteq [hash: Hash, name: {"TaskCreated", "ReceiptSubmitted"}]
  BY <1>2, <1>3 DEF IInv, TypeOK, Event
<1>10. /\ work' \in [Worker -> Context \cup {Idle}]
       /\ \A v \in Worker : work'[v] = work[v] \/ work'[v] = Idle
  BY <1>3 DEF IInv, TypeOK
<1>11. TypeOK'
  BY <1>3, <1>7, <1>8, <1>9, <1>10 DEF IInv, TypeOK, RowsOK, Submitted, Used
<1>12. SentOK' /\ NoncesOK' /\ RegistryOK'
  BY <1>3 DEF IInv, SentOK, NoncesOK, RegistryOK, Mined
<1>13. TasksOK'
  <2>1. ASSUME NEW j \in Row, rows'[j].intent = "submit_receipt"
        PROVE  chain'[rows'[j].task] # "none"
    <3>1. rows[j].intent = "submit_receipt" /\ rows'[j].task = rows[j].task
      BY <1>7, <2>1 DEF ChangesStatus
    <3>2. rows[j] \in RowRecord  BY <3>1 DEF IInv, TypeOK, NoRow
    <3>3. rows[j].task \in Task  BY <3>2 DEF RowRecord
    <3> QED  BY <1>8, <3>1, <3>3 DEF IInv, TasksOK
  <2>2. \A u \in Task : chainTaskId'[u] # NoHash => \E e \in events' : e.hash = chainTaskId'[u]
    <3>1. \A e \in events : e \in events'  BY <1>3
    <3> QED  BY <1>3, <3>1 DEF IInv, TasksOK
  <2> QED  BY <2>1, <2>2 DEF TasksOK
<1>14. WorkOK'
  <2>1. \A j \in Row : Used(j) => rows'[j].status # "none"  BY <1>7 DEF Used, ChangesStatus
  <2> QED  BY <1>3, <1>7, <1>10, <2>1, HeldStep DEF ChangesStatus
<1>15. DatabaseFollowsChain'
  <2>1. \A u \in Task :
          LET g == chainTaskId'[u]
          IN  /\ chain'[u] = "none" <=> g = NoHash
              /\ g # NoHash =>
                    /\ sent[g].outcome = "success"
                    /\ sent[g].call = "create_task" /\ sent[g].task = u
              /\ chain'[u] = "receipt_submitted" =>
                    registry[g] \in {"receipt_submitted", "settled"}
    BY <1>3, <1>4, <1>6, <1>8 DEF IInv, DatabaseFollowsChain
  <2> QED  BY <1>2, <1>3, <1>7, <2>1 DEF IInv, DatabaseFollowsChain, ChangesStatus
<1>16. EventsMatchConfirmed'
  <2>1. \A j \in Row : rows'[j].status = "confirmed" <=> j = i \/ rows[j].status = "confirmed"
    BY <1>7 DEF ChangesStatus
  <2>2. \A j \in Row : rows'[j].hash = rows[j].hash /\ rows'[j].intent = rows[j].intent
    BY <1>7 DEF ChangesStatus
  <2>3. \A j \in Row : rows'[j].status = "confirmed" => \E e \in events' : e.hash = rows'[j].hash
    <3>1. \A e \in events : e \in events'  BY <1>3
    <3>2. \E e \in events' : e.hash = h
      <4>1. Event(h, "ReceiptSubmitted") \in events' /\ Event(h, "ReceiptSubmitted").hash = h
        BY <1>3 DEF Event
      <4> QED  BY <4>1
    <3> QED  BY <1>2, <2>1, <2>2, <3>1, <3>2 DEF IInv, EventsMatchConfirmed
  <2>4. ASSUME NEW e \in events'
        PROVE  \E j \in Row :
                 /\ rows'[j].status = "confirmed" /\ rows'[j].hash = e.hash
                 /\ e.name = IF rows'[j].intent = "create_task"
                               THEN "TaskCreated" ELSE "ReceiptSubmitted"
    BY <1>2, <1>3, <2>1, <2>2, <2>4 DEF IInv, EventsMatchConfirmed, Event
  <2> QED  BY <2>3, <2>4 DEF EventsMatchConfirmed
<1>17. AwaitingExplained'
  <2>1. \A j \in Row : rows'[j].status = "rejected_by_user" <=> rows[j].status = "rejected_by_user"
    BY <1>2, <1>7 DEF ChangesStatus
  <2> QED  BY <1>7, <1>8, <2>1 DEF IInv, AwaitingExplained, TaskRows, ChangesStatus
<1> QED  BY <1>7, <1>11, <1>12, <1>13, <1>14, <1>15, <1>16, <1>17 DEF IInv
--------------------------------------------------------------------------------
(* The steps that submit a row, or insert one. *)

\* A row is submitted with a hash no row has, of its own nonce.
LEMMA RecordSubmittedHolds ==
    ASSUME IInv, NEW i \in Row, NEW h \in Hash, recordSubmitted(i, h)
    PROVE  IInv'
<1>1. /\ UNCHANGED <<archived, elapsed, offchain, chain, chainTaskId, nextRow, events,
                     registry, walletRequest, sent, nextHash, work>>
      /\ sent[h].outcome # "none" /\ sent[h].nonce = i
      /\ rows[i].status = "wallet_requested" /\ HashFree(h)
  BY DEF recordSubmitted, taskTable, world
<1>1a. rows' = [rows EXCEPT ![i].status = "submitted", ![i].hash = h,
                               ![i].nonce = sent[h].nonce]
  BY DEF recordSubmitted
<1>2. Used(i) /\ rows[i] \in RowRecord  BY <1>1, RowTyped DEF Used, IInv
<1>3. rows[i].hash = NoHash /\ rows[i].nonce = NoNonce  BY <1>1 DEF IInv, NonceOfRow
<1>4. sent[h] # NotSent  BY <1>1, SentTyped DEF IInv
<1> DEFINE r == [rows[i] EXCEPT !.status = "submitted", !.hash = h, !.nonce = i]
<1>5. /\ r \in RowRecord /\ r.status = "submitted" /\ r.intent = rows[i].intent
      /\ r.task = rows[i].task /\ r.hash = h /\ r.nonce = i
  BY <1>2 DEF RowRecord, Status, Live, Final
<1>6. rows' = [rows EXCEPT ![i] = r]  BY <1>1, <1>1a, <1>2 DEF IInv, TypeOK
<1> HIDE DEF r
<1>7. /\ rows' \in [Row -> RowRecord \cup {NoRow}]
      /\ \A j \in Row : rows'[j] = IF j = i THEN r ELSE rows[j]
  BY <1>5, <1>6 DEF IInv, TypeOK
<1>8. \A j \in Row :
          /\ rows'[j].intent = rows[j].intent /\ rows'[j].task = rows[j].task
          /\ rows'[j].status = IF j = i THEN "submitted" ELSE rows[j].status
          /\ rows'[j].hash = IF j = i THEN h ELSE rows[j].hash
          /\ rows'[j].nonce = IF j = i THEN i ELSE rows[j].nonce
  BY <1>5, <1>7
<1>9. \A j \in Row : rows'[j].status # "none" <=> rows[j].status # "none"
  BY <1>1, <1>8
<1>10. \A j \in Row :
           /\ rows'[j].status = "confirmed" <=> rows[j].status = "confirmed"
           /\ rows'[j].status = "reverted" <=> rows[j].status = "reverted"
           /\ rows'[j].status = "rejected_by_user" <=> rows[j].status = "rejected_by_user"
  BY <1>1, <1>8
<1>11. RowsOK'
  <2>1. \A j \in Row : Used(j)' <=> j < nextRow'
    BY <1>1, <1>9 DEF Used, IInv, TypeOK
  <2>2. ASSUME NEW j \in Row, rows'[j].status \in Submitted
        PROVE  /\ rows'[j].hash # NoHash /\ sent[rows'[j].hash] # NotSent
               /\ rows'[j].nonce = sent[rows'[j].hash].nonce
               /\ \A k \in Row : rows'[k].hash = rows'[j].hash => k = j
    <3>1. CASE j = i  BY <1>1, <1>4, <1>8, <3>1 DEF HashFree
    <3>2. CASE j # i
      <4>1. rows[j].status \in Submitted /\ rows'[j].hash = rows[j].hash
        BY <1>8, <2>2, <3>2
      <4>2. rows[j].hash # h  BY <1>1 DEF HashFree
      <4>3. /\ rows[j].hash # NoHash /\ sent[rows[j].hash] # NotSent
            /\ rows[j].nonce = sent[rows[j].hash].nonce
            /\ \A k \in Row : rows[k].hash = rows[j].hash => k = j
        BY <4>1 DEF IInv, TypeOK, Submitted
      <4> QED  BY <1>8, <3>2, <4>1, <4>2, <4>3
    <3> QED  BY <3>1, <3>2
  <2> QED  BY <1>1, <1>7, <2>1, <2>2 DEF RowsOK
<1>12. TypeOK'  BY <1>1, <1>11 DEF IInv, TypeOK, RowsOK, Submitted, Used
<1>13. NonceOfRow'
  <2>1. \A j \in Row : Used(j) /\ rows[j].nonce # NoNonce =>
            rows[j].nonce \in Row /\ rows[j].nonce # i
    BY <1>3, RowTyped DEF IInv, RowRecord, NonceOfRow
  <2> QED  BY <1>8, <1>9, <2>1 DEF IInv, NonceOfRow, Used
<1>14. RequestsOK'
  <2>1. \A j \in Row : rows'[j].nonce \in {NoNonce, j} <=> rows[j].nonce \in {NoNonce, j}
    BY <1>3, <1>8
  <2> QED  BY <1>1, <1>8, <1>9, <1>10, <2>1 DEF IInv, RequestsOK, Used
<1>15. SentOK' /\ NoncesOK' /\ RegistryOK'
  BY <1>1 DEF IInv, SentOK, NoncesOK, RegistryOK, Mined
<1>16. CreationsOK'
  <2>1. \A j \in Row : Root(j)' = Root(j)  BY <1>3, <1>8 DEF Root
  <2> QED  BY <1>8, <1>10, <2>1 DEF IInv, CreationsOK, TaskRows
<1>17. TasksOK'  BY <1>1, <1>8 DEF IInv, TasksOK
<1>18. WorkOK'
  <2>1. \A j \in Row : rows[j].hash # NoHash => rows'[j].hash = rows[j].hash
    BY <1>3, <1>8
  <2> QED  BY <1>1, <1>8, <1>9, <2>1, HeldStep DEF Used
<1>19. OneLiveTransaction'
  <2>1. \A j \in Row : rows'[j].status \in Live => rows[j].status \in Live
    BY <1>1, <1>8 DEF Live
  <2> QED  BY <1>8, <2>1 DEF IInv, OneLiveTransaction, TaskRows
<1>20. DatabaseFollowsChain'
  <2>1. \A j \in Row : rows[j].status \in {"confirmed", "reverted"} => rows'[j].hash = rows[j].hash
    BY <1>1, <1>8
  <2> QED  BY <1>1, <1>8, <1>10, <2>1 DEF IInv, DatabaseFollowsChain
<1>21. EventsMatchConfirmed'
  <2>1. \A j \in Row : rows[j].status = "confirmed" => rows'[j].hash = rows[j].hash
    BY <1>1, <1>8
  <2> QED  BY <1>1, <1>8, <1>10, <2>1 DEF IInv, EventsMatchConfirmed
<1>22. AwaitingExplained'
  BY <1>1, <1>8, <1>10 DEF IInv, AwaitingExplained, TaskRows
<1> QED  BY <1>12, <1>13, <1>14, <1>15, <1>16, <1>17, <1>18, <1>19, <1>20, <1>21, <1>22 DEF IInv

\* The next row is free: nothing is known of it.
LEMMA NextRowFree ==
    ASSUME IInv, nextRow <= MaxRows
    PROVE  /\ nextRow \in Row /\ rows[nextRow] = NoRow /\ walletRequest[nextRow] = NoRequest
           /\ nextRow' = nextRow + 1 => nextRow' \in 1..(MaxRows + 1)
           /\ \A j \in Row : Used(j) /\ rows[j].nonce # NoNonce =>
                  rows[j].nonce \in Row /\ rows[j].nonce # nextRow
           /\ \A h \in Hash : sent[h] # NotSent => sent[h].nonce \in Row /\ sent[h].nonce # nextRow
<1> USE BoundAssumption
<1>1. nextRow \in Row /\ ~Used(nextRow)  BY DEF IInv, TypeOK
<1>2. rows[nextRow] = NoRow  BY <1>1 DEF IInv, TypeOK, Used, RowRecord, Status, Live, Final
<1>3. walletRequest[nextRow] = NoRequest  BY <1>1 DEF IInv, RequestsOK
<1>4. nextRow' = nextRow + 1 => nextRow' \in 1..(MaxRows + 1)  BY <1>1
<1>5. \A j \in Row : Used(j) /\ rows[j].nonce # NoNonce =>
          rows[j].nonce \in Row /\ rows[j].nonce # nextRow
  <2> SUFFICES ASSUME NEW j \in Row, Used(j), rows[j].nonce # NoNonce
               PROVE  rows[j].nonce \in Row /\ rows[j].nonce # nextRow
    OBVIOUS
  <2>1. rows[j].nonce \in Row  BY RowTyped DEF IInv, RowRecord
  <2>2. rows[rows[j].nonce].nonce = rows[j].nonce  BY DEF IInv, NonceOfRow
  <2> QED  BY <1>2, <2>1, <2>2 DEF NoRow
<1>6. \A h \in Hash : sent[h] # NotSent => sent[h].nonce \in Row /\ sent[h].nonce # nextRow
  BY <1>1, SentFor
<1> QED  BY <1>1, <1>2, <1>3, <1>4, <1>5, <1>6

\* A recorded intent stands alone: the other rows of its kind are rejected or
\* reverted, and for a creation all are rejected.
LEMMA IntentStep ==
    ASSUME IInv, NEW t \in Task, NEW k \in Intent, NEW row \in RowRecord, NEW request \in Request,
           row.intent = k, row.task = t, row.status = "wallet_requested",
           row.hash = NoHash, row.nonce = NoNonce,
           request.call = k, request.task = t, request.state = "shown",
           InsertRow(row), NEW delivered \in BOOLEAN, Respond(request, delivered),
           \A j \in TaskRows(t, k) : rows[j].status \notin Live,
           k = "create_task" =>
               \A j \in TaskRows(t, k) : rows[j].status = "rejected_by_user",
           k = "create_task" => offchain'[t] = "awaiting_chain",
           k = "submit_receipt" => chain[t] # "none" /\ offchain' = offchain,
           \A u \in Task : u # t => offchain'[u] = offchain[u],
           offchain' \in [Task -> {"draft", "awaiting_chain", "open", "receipt_submitted"}],
           UNCHANGED <<archived, elapsed, chain, chainTaskId, events, registry, sent, nextHash, work>>
    PROVE  IInv'
<1> DEFINE n == nextRow
<1>1. nextRow <= MaxRows /\ rows' = [rows EXCEPT ![n] = row] /\ nextRow' = nextRow + 1
  BY DEF InsertRow
<1>2. /\ n \in Row /\ rows[n] = NoRow /\ walletRequest[n] = NoRequest
      /\ nextRow' \in 1..(MaxRows + 1)
  BY <1>1, NextRowFree
<1>3. /\ \A j \in Row : Used(j) /\ rows[j].nonce # NoNonce =>
             rows[j].nonce \in Row /\ rows[j].nonce # n
      /\ \A h \in Hash : sent[h] # NotSent => sent[h].nonce \in Row /\ sent[h].nonce # n
  BY <1>1, NextRowFree
<1>4. /\ rows' \in [Row -> RowRecord \cup {NoRow}]
      /\ \A j \in Row : rows'[j] = IF j = n THEN row ELSE rows[j]
  BY <1>1, <1>2 DEF IInv, TypeOK
<1>5. /\ walletRequest' \in [Row -> Request \cup {NoRequest}]
      /\ \A j \in Row : j # n => walletRequest'[j] = walletRequest[j]
      /\ walletRequest'[n] \in {NoRequest, request}
  BY <1>2 DEF Respond, IInv, TypeOK
<1>6. ~Used(n) /\ \A j \in Row : Used(j) <=> j < n
  BY <1>2 DEF Used, NoRow, IInv, TypeOK
<1>7. \A j \in Row : rows'[j].status # "none" <=> j = n \/ Used(j)
  BY <1>4 DEF Used
<1>8. RowsOK'
  <2>1. \A j \in Row : Used(j)' <=> j < nextRow'
    BY <1>1, <1>2, <1>6, <1>7 DEF Used
  <2>2. ASSUME NEW j \in Row, rows'[j].status \in Submitted
        PROVE  /\ rows'[j].hash # NoHash /\ sent[rows'[j].hash] # NotSent
               /\ rows'[j].nonce = sent[rows'[j].hash].nonce
               /\ \A k2 \in Row : rows'[k2].hash = rows'[j].hash => k2 = j
    <3>1. j # n  BY <1>4, <2>2 DEF Submitted
    <3>2. rows'[j] = rows[j]  BY <1>4, <3>1
    <3> QED  BY <1>4, <2>2, <3>2 DEF IInv, TypeOK, Submitted
  <2> QED  BY <1>4, <2>1, <2>2 DEF RowsOK
<1>9. TypeOK'  BY <1>2, <1>5, <1>8 DEF IInv, TypeOK, RowsOK, Submitted, Used
<1>10. NonceOfRow'
  BY <1>3, <1>4, <1>7 DEF IInv, NonceOfRow, Used
<1>11. RequestsOK'
  <2> SUFFICES ASSUME NEW j \in Row
               PROVE  /\ walletRequest'[j] # NoRequest =>
                             /\ rows'[j].status # "none"
                             /\ walletRequest'[j].call = rows'[j].intent
                             /\ walletRequest'[j].task = rows'[j].task
                             /\ rows'[j].nonce \in {NoNonce, j}
                      /\ rows'[j].status = "rejected_by_user" => walletRequest'[j].state = "rejected"
    BY DEF RequestsOK, Used
  <2>1. CASE j = n  BY <1>4, <1>5, <2>1
  <2>2. CASE j # n  BY <1>4, <1>5, <2>2 DEF IInv, RequestsOK, Used
  <2> QED  BY <2>1, <2>2
<1>12. SentOK'  BY <1>3, <1>5 DEF IInv, SentOK
<1>13. NoncesOK' /\ RegistryOK'  BY DEF IInv, NoncesOK, RegistryOK, Mined
<1>14. CreationsOK'
  <2> SUFFICES ASSUME NEW u \in Task, NEW i \in Row, NEW j \in Row,
                      rows'[i].task = u, rows'[i].intent = "create_task",
                      rows'[j].task = u, rows'[j].intent = "create_task",
                      rows'[i].status # "rejected_by_user", rows'[j].status # "rejected_by_user"
               PROVE  Root(i)' = Root(j)'
    BY DEF CreationsOK, TaskRows
  <2>1. CASE k = "create_task" /\ u = t
    <3>1. \A m \in Row : rows'[m].task = u /\ rows'[m].intent = "create_task"
                             /\ rows'[m].status # "rejected_by_user" => m = n
      BY <1>4, <2>1 DEF TaskRows
    <3> QED  BY <3>1
  <2>2. CASE ~(k = "create_task" /\ u = t)
    <3>1. i # n /\ j # n  BY <1>4, <2>2
    <3> QED  BY <1>4, <3>1 DEF IInv, CreationsOK, TaskRows, Root
  <2> QED  BY <2>1, <2>2
<1>15. TasksOK'
  <2>1. \A j \in Row : rows'[j].intent = "submit_receipt" => chain[rows'[j].task] # "none"
    BY <1>4 DEF IInv, TasksOK
  <2> QED  BY <2>1 DEF IInv, TasksOK
<1>16. WorkOK'
  <2>1. \A j \in Row : Used(j) => rows'[j] = rows[j]  BY <1>4, <1>6
  <2> QED  BY <2>1, HeldStep DEF Used
<1>17. OneLiveTransaction'
  <2> SUFFICES ASSUME NEW u \in Task, NEW m \in Intent, NEW i \in Row, NEW j \in Row,
                      rows'[i].task = u, rows'[i].intent = m, rows'[i].status \in Live,
                      rows'[j].task = u, rows'[j].intent = m, rows'[j].status \in Live
               PROVE  i = j
    BY DEF OneLiveTransaction, TaskRows
  <2>1. i # n /\ j # n => i = j
    BY <1>4 DEF IInv, OneLiveTransaction, TaskRows
  <2>2. \A l \in Row : l # n => ~(rows[l].task = t /\ rows[l].intent = k /\ rows[l].status \in Live)
    BY DEF TaskRows
  <2> QED  BY <1>4, <2>1, <2>2
<1>18. DatabaseFollowsChain'
  <2>1. \A j \in Row : rows'[j].status \in {"confirmed", "reverted", "rejected_by_user"} => rows'[j] = rows[j]
    BY <1>4
  <2> QED  BY <2>1 DEF IInv, DatabaseFollowsChain
<1>19. EventsMatchConfirmed'
  <2>1. \A j \in Row : rows'[j].status = "confirmed" => rows'[j] = rows[j]  BY <1>4
  <2>2. \A j \in Row : rows[j].status = "confirmed" => rows'[j] = rows[j]
    BY <1>4, <1>6 DEF Used
  <2> QED  BY <2>1, <2>2 DEF IInv, EventsMatchConfirmed
<1>20. AwaitingExplained'
  <2> SUFFICES ASSUME NEW u \in Task, chain[u] = "none"
               PROVE  offchain'[u] = "awaiting_chain" <=>
                        \E j \in Row : /\ rows'[j].task = u /\ rows'[j].intent = "create_task"
                                       /\ rows'[j].status # "rejected_by_user"
    BY DEF AwaitingExplained, TaskRows
  <2>1. CASE u = t  BY <1>2, <1>4, <2>1 DEF Intent
  <2>2. CASE u # t
    <3>1. rows[n].task # u  BY <1>2, TaskAssumption DEF NoRow
    <3> QED  BY <1>4, <2>2, <3>1 DEF IInv, AwaitingExplained, TaskRows
  <2> QED  BY <2>1, <2>2
<1> QED  BY <1>9, <1>10, <1>11, <1>12, <1>13, <1>14, <1>15, <1>16, <1>17, <1>18, <1>19, <1>20 DEF IInv

\* A draft that is not on chain has rejected creations only.
LEMMA CreateIntentHolds ==
    ASSUME IInv, NEW t \in Task, NEW delivered \in BOOLEAN, createChainIntent(t, delivered)
    PROVE  IInv'
<1> DEFINE row == [NoRow EXCEPT !.intent = "create_task", !.task = t,
                               !.status = "wallet_requested"]
           request == [call |-> "create_task", task |-> t, target |-> NoHash,
                       state |-> "shown"]
<1>1. /\ InsertRow(row) /\ Respond(request, delivered)
      /\ offchain[t] = "draft" /\ chain[t] = "none"
      /\ offchain' = [offchain EXCEPT ![t] = "awaiting_chain"]
      /\ UNCHANGED <<archived, elapsed, chain, chainTaskId, events, registry, sent, nextHash, work>>
  BY DEF createChainIntent, CreationEligible
<1>2. /\ row \in RowRecord /\ row.intent = "create_task" /\ row.task = t
      /\ row.status = "wallet_requested" /\ row.hash = NoHash /\ row.nonce = NoNonce
  BY DEF NoRow, RowRecord, Intent, Status, Live, Final
<1>3. /\ request \in Request /\ request.call = "create_task" /\ request.task = t
      /\ request.state = "shown"
  BY DEF Request, Intent
<1> HIDE DEF row, request
<1>4. \A j \in TaskRows(t, "create_task") : rows[j].status = "rejected_by_user"
  BY <1>1 DEF IInv, AwaitingExplained
<1>5. \A j \in TaskRows(t, "create_task") : rows[j].status \notin Live  BY <1>4 DEF Live
<1>6. /\ offchain' \in [Task -> {"draft", "awaiting_chain", "open", "receipt_submitted"}]
      /\ \A u \in Task : offchain'[u] = IF u = t THEN "awaiting_chain" ELSE offchain[u]
  BY <1>1 DEF IInv, TypeOK
<1>7. "create_task" \in Intent  BY DEF Intent
<1> QED  BY <1>1, <1>2, <1>3, <1>4, <1>5, <1>6, <1>7, IntentStep

\* A receipt is for a task that is open, after receipts that failed.
LEMMA CreateReceiptHolds ==
    ASSUME IInv, NEW t \in Task, NEW delivered \in BOOLEAN, createReceiptChainIntent(t, delivered)
    PROVE  IInv'
<1> DEFINE row == [NoRow EXCEPT !.intent = "submit_receipt", !.task = t,
                               !.status = "wallet_requested", !.attested = TRUE]
           request == [call |-> "submit_receipt", task |-> t, target |-> chainTaskId[t],
                       state |-> "shown"]
<1>1. /\ InsertRow(row) /\ Respond(request, delivered) /\ chain[t] = "open"
      /\ \A i \in Row :
            rows[i].intent = "submit_receipt" /\ rows[i].task = t =>
                rows[i].status \in {"rejected_by_user", "reverted"}
      /\ UNCHANGED <<archived, elapsed, offchain, chain, chainTaskId, events, registry, sent,
                     nextHash, work>>
  BY DEF createReceiptChainIntent, ReceiptEligible, taskTable
<1>2. /\ row \in RowRecord /\ row.intent = "submit_receipt" /\ row.task = t
      /\ row.status = "wallet_requested" /\ row.hash = NoHash /\ row.nonce = NoNonce
  BY DEF NoRow, RowRecord, Intent, Status, Live, Final
<1>3. /\ request \in Request /\ request.call = "submit_receipt" /\ request.task = t
      /\ request.state = "shown"
  BY DEF Request, Intent, IInv, TypeOK
<1> HIDE DEF row, request
<1>4. \A j \in TaskRows(t, "submit_receipt") : rows[j].status \notin Live
  BY <1>1 DEF Live, TaskRows
<1>5. offchain' \in [Task -> {"draft", "awaiting_chain", "open", "receipt_submitted"}]
  BY <1>1 DEF IInv, TypeOK
<1>6. "submit_receipt" \in Intent  BY DEF Intent
<1> QED  BY <1>1, <1>2, <1>3, <1>4, <1>5, <1>6, IntentStep

\* A replacement takes over from the row it replaces, with the same nonce.
LEMMA RecordReplacementHolds ==
    ASSUME IInv, NEW i \in Row, NEW h \in Hash, recordReplacement(i, h)
    PROVE  IInv'
<1> DEFINE n == nextRow
           old == [rows[i] EXCEPT !.status = "replaced"]
           new == [rows[i] EXCEPT !.status = "submitted", !.hash = h, !.attested = FALSE]
<1>1. /\ UNCHANGED <<archived, elapsed, offchain, chain, chainTaskId, events,
                     registry, walletRequest, sent, nextHash, work>>
      /\ sent[h].outcome # "none" /\ sent[h].nonce = rows[i].nonce
      /\ rows[i].status \in {"submitted", "unknown_reconcile"} /\ HashFree(h)
      /\ nextRow <= MaxRows /\ nextRow' = nextRow + 1
  BY DEF recordReplacement, Replaceable, taskTable, world
<1>2. Used(i) /\ rows[i] \in RowRecord  BY <1>1, RowTyped DEF Used, IInv
<1>3. sent[h] # NotSent  BY <1>1, SentTyped DEF IInv
<1>4. rows[i].nonce \in Row  BY <1>1, <1>3, SentFor
<1>5. /\ n \in Row /\ rows[n] = NoRow /\ walletRequest[n] = NoRequest
      /\ nextRow' \in 1..(MaxRows + 1)
      /\ \A j \in Row : Used(j) /\ rows[j].nonce # NoNonce =>
             rows[j].nonce \in Row /\ rows[j].nonce # n
  BY <1>1, NextRowFree
<1>6. n # i  BY <1>2, <1>5 DEF Used, NoRow
<1>7. rows' = [rows EXCEPT ![n] = new, ![i] = old]
  BY <1>5, <1>6 DEF recordReplacement, IInv, TypeOK
<1>8. /\ old \in RowRecord /\ old.status = "replaced" /\ old.intent = rows[i].intent
      /\ old.task = rows[i].task /\ old.hash = rows[i].hash /\ old.nonce = rows[i].nonce
      /\ new \in RowRecord /\ new.status = "submitted" /\ new.intent = rows[i].intent
      /\ new.task = rows[i].task /\ new.hash = h /\ new.nonce = rows[i].nonce
  BY <1>2 DEF RowRecord, Status, Live, Final
<1> HIDE DEF old, new
<1>9. /\ rows' \in [Row -> RowRecord \cup {NoRow}]
      /\ \A j \in Row : rows'[j] = IF j = n THEN new ELSE IF j = i THEN old ELSE rows[j]
  BY <1>5, <1>6, <1>7, <1>8 DEF IInv, TypeOK
<1>10. ~Used(n) /\ \A j \in Row : Used(j) <=> j < n
  BY <1>5 DEF Used, NoRow, IInv, TypeOK
<1>11. \A j \in Row : rows'[j].status # "none" <=> j = n \/ Used(j)
  BY <1>2, <1>8, <1>9 DEF Used
<1>12. \A j \in Row : j # n =>
          /\ rows'[j].intent = rows[j].intent /\ rows'[j].task = rows[j].task
          /\ rows'[j].hash = rows[j].hash /\ rows'[j].nonce = rows[j].nonce
          /\ rows'[j].status = IF j = i THEN "replaced" ELSE rows[j].status
  BY <1>8, <1>9
<1>13. /\ rows'[n].intent = rows[i].intent /\ rows'[n].task = rows[i].task
       /\ rows'[n].hash = h /\ rows'[n].nonce = rows[i].nonce /\ rows'[n].status = "submitted"
  BY <1>5, <1>8, <1>9
<1>14. \A j \in Row : rows'[j].status \in {"confirmed", "reverted", "rejected_by_user"} =>
           j # n /\ j # i /\ rows'[j] = rows[j]
  BY <1>8, <1>9
<1>15. \A j \in Row : rows[j].status \in {"confirmed", "reverted", "rejected_by_user"} =>
           j # n /\ j # i /\ rows'[j] = rows[j]
  BY <1>1, <1>9, <1>10 DEF Used
<1>16. rows[i].hash # NoHash  BY <1>1 DEF IInv, TypeOK
<1>17. RowsOK'
  <2>1. \A j \in Row : Used(j)' <=> j < nextRow'
    BY <1>1, <1>5, <1>10, <1>11 DEF Used
  <2>2. ASSUME NEW j \in Row, rows'[j].status \in Submitted
        PROVE  /\ rows'[j].hash # NoHash /\ sent[rows'[j].hash] # NotSent
               /\ rows'[j].nonce = sent[rows'[j].hash].nonce
               /\ \A k \in Row : rows'[k].hash = rows'[j].hash => k = j
    <3>1. CASE j = n
      <4>1. \A k \in Row : k # n => rows'[k].hash # h  BY <1>1, <1>12 DEF HashFree
      <4> QED  BY <1>1, <1>3, <1>13, <3>1, <4>1
    <3>2. CASE j # n
      <4>1. rows[j].status \in Submitted
        BY <1>1, <1>12, <2>2, <3>2 DEF Submitted
      <4>2. rows[j].hash # h  BY <1>1 DEF HashFree
      <4>3. /\ rows[j].hash # NoHash /\ sent[rows[j].hash] # NotSent
            /\ rows[j].nonce = sent[rows[j].hash].nonce
            /\ \A k \in Row : rows[k].hash = rows[j].hash => k = j
        BY <4>1 DEF IInv, TypeOK, Submitted
      <4> QED  BY <1>12, <1>13, <3>2, <4>2, <4>3
    <3> QED  BY <3>1, <3>2
  <2> QED  BY <1>1, <1>9, <2>1, <2>2 DEF RowsOK
<1>18. TypeOK'  BY <1>1, <1>5, <1>17 DEF IInv, TypeOK, RowsOK, Submitted, Used
<1>19. NonceOfRow'
  <2> SUFFICES ASSUME NEW j \in Row
               PROVE  /\ rows'[j].status \in {"wallet_requested", "rejected_by_user"} =>
                            rows'[j].hash = NoHash /\ rows'[j].nonce = NoNonce
                      /\ rows'[j].status # "none" /\ rows'[j].nonce # NoNonce =>
                            LET first == rows'[rows'[j].nonce]
                            IN  /\ first.nonce = rows'[j].nonce
                                /\ first.intent = rows'[j].intent /\ first.task = rows'[j].task
    BY DEF NonceOfRow, Used
  <2>1. CASE j = n
    <3>1. rows[i].nonce # n  BY <1>2, <1>4, <1>5
    <3> QED  BY <1>2, <1>4, <1>12, <1>13, <2>1, <3>1 DEF IInv, NonceOfRow
  <2>2. CASE j # n
    <3>1. rows'[j].status # "none" => Used(j)  BY <1>11, <2>2
    <3>2. rows'[j].status \in {"wallet_requested", "rejected_by_user"} =>
              rows[j].status \in {"wallet_requested", "rejected_by_user"}
      BY <1>12, <2>2
    <3> QED  BY <1>5, <1>12, <2>2, <3>1, <3>2 DEF IInv, NonceOfRow
  <2> QED  BY <2>1, <2>2
<1>20. RequestsOK'
  <2> SUFFICES ASSUME NEW j \in Row
               PROVE  /\ walletRequest[j] # NoRequest =>
                             /\ rows'[j].status # "none"
                             /\ walletRequest[j].call = rows'[j].intent
                             /\ walletRequest[j].task = rows'[j].task
                             /\ rows'[j].nonce \in {NoNonce, j}
                      /\ rows'[j].status = "rejected_by_user" => walletRequest[j].state = "rejected"
    BY <1>1 DEF RequestsOK, Used
  <2>1. CASE j = n  BY <1>5, <1>13, <2>1
  <2>2. CASE j # n  BY <1>11, <1>12, <2>2 DEF IInv, RequestsOK
  <2> QED  BY <2>1, <2>2
<1>21. SentOK' /\ NoncesOK' /\ RegistryOK'
  BY <1>1 DEF IInv, SentOK, NoncesOK, RegistryOK, Mined
<1>22. CreationsOK'
  <2> DEFINE before(j) == IF j = n THEN i ELSE j
  <2>1. \A j \in Row :
            /\ before(j) \in Row /\ Root(j)' = Root(before(j))
            /\ rows'[j].task = rows[before(j)].task /\ rows'[j].intent = rows[before(j)].intent
            /\ rows'[j].status # "rejected_by_user" => rows[before(j)].status # "rejected_by_user"
    BY <1>1, <1>4, <1>12, <1>13 DEF Root
  <2> HIDE DEF before
  <2> QED  BY <2>1 DEF IInv, CreationsOK, TaskRows
<1>23. TasksOK'
  <2>1. \A j \in Row : rows'[j].intent = "submit_receipt" => chain[rows'[j].task] # "none"
    BY <1>12, <1>13 DEF IInv, TasksOK
  <2> QED  BY <1>1, <2>1 DEF IInv, TasksOK
<1>24. WorkOK'
  <2>1. \A j \in Row : Used(j) => j # n  BY <1>10
  <2> QED  BY <1>1, <1>11, <1>12, <2>1, HeldStep
<1>25. OneLiveTransaction'
  <2> SUFFICES ASSUME NEW u \in Task, NEW m \in Intent, NEW j \in Row, NEW k \in Row,
                      rows'[j].task = u, rows'[j].intent = m, rows'[j].status \in Live,
                      rows'[k].task = u, rows'[k].intent = m, rows'[k].status \in Live
               PROVE  j = k
    BY DEF OneLiveTransaction, TaskRows
  <2> DEFINE before(l) == IF l = n THEN i ELSE l
  <2>1. \A l \in Row : rows'[l].status \in Live =>
            /\ l # i /\ before(l) \in Row /\ rows[before(l)].status \in Live
            /\ rows'[l].task = rows[before(l)].task /\ rows'[l].intent = rows[before(l)].intent
    BY <1>1, <1>6, <1>12, <1>13 DEF Live
  <2>2. before(j) = before(k)
    <3> HIDE DEF before
    <3> QED  BY <2>1 DEF IInv, OneLiveTransaction, TaskRows
  <2> QED  BY <2>1, <2>2
<1>26. DatabaseFollowsChain'  BY <1>1, <1>14 DEF IInv, DatabaseFollowsChain
<1>27. EventsMatchConfirmed'  BY <1>1, <1>14, <1>15 DEF IInv, EventsMatchConfirmed
<1>28. AwaitingExplained'
  <2> SUFFICES ASSUME NEW u \in Task
               PROVE  (\E j \in Row : /\ rows'[j].task = u /\ rows'[j].intent = "create_task"
                                      /\ rows'[j].status # "rejected_by_user")
                  <=> (\E j \in Row : /\ rows[j].task = u /\ rows[j].intent = "create_task"
                                      /\ rows[j].status # "rejected_by_user")
    BY <1>1 DEF IInv, AwaitingExplained, TaskRows
  <2>1. \A j \in Row : rows[j].intent = "create_task" => j # n  BY <1>5 DEF NoRow
  <2> QED  BY <1>1, <1>12, <1>13, <2>1
<1> QED  BY <1>18, <1>19, <1>20, <1>21, <1>22, <1>23, <1>24, <1>25, <1>26, <1>27, <1>28 DEF IInv
--------------------------------------------------------------------------------
(* The theorems. *)

\* No step of the browser, the wallet, the chain or a reconciler breaks the
\* invariant.
LEMMA NextHolds == IInv /\ [Next]_vars => IInv'
<1> SUFFICES ASSUME IInv, [Next]_vars PROVE IInv'  OBVIOUS
<1>1. CASE UNCHANGED vars
  <2>1. UNCHANGED <<database, world>> /\ work' = work  BY <1>1 DEF vars
  <2>2. WorkOK' /\ work' \in [Worker -> Context \cup {Idle}]
    BY <2>1 DEF IInv, TypeOK, WorkOK, HeldOK, Used, database, world, taskTable
  <2> QED  BY <2>1, <2>2, WorkerStep
<1>2. CASE \E t \in Task, delivered \in BOOLEAN :
             createChainIntent(t, delivered) \/ createReceiptChainIntent(t, delivered)
  BY <1>2, CreateIntentHolds, CreateReceiptHolds
<1>3. CASE \E i \in Row : recordRejected(i)  BY <1>3, RecordRejectedHolds
<1>4. CASE \E i \in Row, h \in Hash : recordSubmitted(i, h) \/ recordReplacement(i, h)
  BY <1>4, RecordSubmittedHolds, RecordReplacementHolds
<1>5. CASE updateProject \/ \E t \in Task : deadlinePasses(t)  BY <1>5, ProjectHolds
<1>6. CASE \E w \in Worker, i \in Row, kind \in Intent : getReconciliationContext(w, i, kind)
  BY <1>6, GetContextHolds
<1>7. CASE \E w \in Worker, answer \in Answer : getReceipt(w, answer)
  BY <1>7, GetReceiptHolds
<1>8. CASE \E w \in Worker : markTransactionUnknown(w) \/ markTransactionReverted(w)
  BY <1>8, MarkHolds
<1>9. CASE \E w \in Worker : confirmTaskCreatedFromReconciliation(w)
  BY <1>9, ConfirmCreationHolds
<1>10. CASE \E w \in Worker : confirmReceiptSubmittedFromReconciliation(w)
  BY <1>10, ConfirmReceiptHolds
<1>11. CASE \E w \in Worker : stopReconciling(w)  BY <1>11, StopHolds
<1>12. CASE \E i \in Row : walletRejects(i) \/ walletBroadcasts(i)
  BY <1>12, WalletRejectsHolds, WalletBroadcastsHolds
<1>13. CASE \E i \in Row, call \in Intent \cup {"cancel"} : walletReplaces(i, call)
  BY <1>13, WalletReplacesHolds
<1>14. CASE \E h \in Hash : mineCreation(h) \/ mineReceipt(h) \/ mineCancel(h) \/ revert(h)
  BY <1>14, MineCreationHolds, MineReceiptHolds, MineNothingHolds
<1>15. CASE \E h \in Hash : settle(h)  BY <1>15, SettleHolds
<1> QED
  BY <1>1, <1>2, <1>3, <1>4, <1>5, <1>6, <1>7, <1>8, <1>9, <1>10, <1>11, <1>12, <1>13, <1>14, <1>15
     DEF Next

\* The invariant holds throughout.
THEOREM Invariant == Spec => []IInv
BY InitHolds, NextHolds, PTL DEF Spec

\* Every row, request and transaction keeps its type, and a row that was
\* submitted has a hash of its own and the nonce of that transaction.
THEOREM TypeCorrect == Spec => []TypeOK
<1>1. IInv => TypeOK  BY DEF IInv
<1> QED  BY <1>1, Invariant, PTL

\* The intents, rejections and replacements of task-chain-repository.ts leave a
\* task at most one transaction of each kind that is pending or confirmed.
THEOREM OneLiveTransactionHolds == Spec => []OneLiveTransaction
<1>1. IInv => OneLiveTransaction  BY DEF IInv
<1> QED  BY <1>1, Invariant, PTL

\* However often a user retries, speeds up or cancels, the reward of a task
\* goes into escrow once.
THEOREM SingleEscrowHolds == Spec => []SingleEscrow
BY OneEscrow, Invariant, PTL

\* The index never shows what has not happened on chain.
THEOREM DatabaseFollowsChainHolds == Spec => []DatabaseFollowsChain
<1>1. IInv => DatabaseFollowsChain  BY DEF IInv
<1> QED  BY <1>1, Invariant, PTL

\* Each confirmed row has its event, each event its confirmed row.
THEOREM EventsMatchConfirmedHolds == Spec => []EventsMatchConfirmed
<1>1. IInv => EventsMatchConfirmed  BY DEF IInv
<1> QED  BY <1>1, Invariant, PTL

\* A task is shown as awaiting the chain while a creation accounts for it.
THEOREM AwaitingExplainedHolds == Spec => []AwaitingExplained
<1>1. IInv => AwaitingExplained  BY DEF IInv
<1> QED  BY <1>1, Invariant, PTL

\* A row that is final is read by no step that writes it: the statuses a step
\* starts from are not final.
LEMMA FinalStep ==
    ASSUME IInv, [Next]_vars, NEW i \in Row, rows[i].status \in Final
    PROVE  rows'[i] = rows[i]
<1> USE DEF Final
<1>1. CASE UNCHANGED rows  BY <1>1
<1>2. CASE \E t \in Task, delivered \in BOOLEAN :
             createChainIntent(t, delivered) \/ createReceiptChainIntent(t, delivered)
  <2>1. PICK row : InsertRow(row)  BY <1>2 DEF createChainIntent, createReceiptChainIntent
  <2>2. i # nextRow  BY <2>1, NextRowFree DEF InsertRow, NoRow
  <2> QED  BY <2>1, <2>2 DEF InsertRow, IInv, TypeOK
<1>3. CASE \E j \in Row : recordRejected(j)
  <2>1. PICK j \in Row : recordRejected(j)  BY <1>3
  <2> QED  BY <2>1 DEF recordRejected, IInv, TypeOK
<1>4. CASE \E j \in Row, h \in Hash : recordSubmitted(j, h)
  <2>1. PICK j \in Row, h \in Hash : recordSubmitted(j, h)  BY <1>4
  <2> QED  BY <2>1 DEF recordSubmitted, IInv, TypeOK
<1>5. CASE \E j \in Row, h \in Hash : recordReplacement(j, h)
  <2>1. PICK j \in Row, h \in Hash : recordReplacement(j, h)  BY <1>5
  <2>2. i # nextRow  BY <2>1, NextRowFree DEF recordReplacement, NoRow
  <2>3. i # j  BY <2>1 DEF recordReplacement, Replaceable
  <2> QED  BY <2>1, <2>2, <2>3 DEF recordReplacement, IInv, TypeOK
<1>6. CASE \E w \in Worker : \/ markTransactionUnknown(w) \/ markTransactionReverted(w)
                            \/ confirmTaskCreatedFromReconciliation(w)
                            \/ confirmReceiptSubmittedFromReconciliation(w)
  <2>1. PICK w \in Worker : \/ markTransactionUnknown(w) \/ markTransactionReverted(w)
                            \/ confirmTaskCreatedFromReconciliation(w)
                            \/ confirmReceiptSubmittedFromReconciliation(w)
    BY <1>6
  <2>2. /\ StillExpected(work[w]) /\ work[w].answer # "idle"
        /\ \E s \in Status : rows' = [rows EXCEPT ![work[w].row].status = s]
    BY <2>1 DEF markTransactionUnknown, markTransactionReverted, Inconclusive, Confirms,
                confirmTaskCreatedFromReconciliation,
                confirmReceiptSubmittedFromReconciliation, Status, Live
  <2>3. work[w] \in Context  BY <2>2 DEF IInv, TypeOK, Idle
  <2>4. rows[work[w].row].status \in {"submitted", "unknown_reconcile"}
    BY <2>2, <2>3 DEF StillExpected, Context
  <2>5. i # work[w].row  BY <2>4
  <2> QED  BY <2>2, <2>5 DEF IInv, TypeOK
<1> QED
  <2>1. (UNCHANGED vars \/ UNCHANGED database) => UNCHANGED rows  BY DEF vars, database
  <2> QED
    BY <1>1, <1>2, <1>3, <1>4, <1>5, <1>6, <2>1
       DEF Next, updateProject, getReconciliationContext, getReceipt, stopReconciling,
           walletRejects, walletBroadcasts, walletReplaces, mineCreation, mineReceipt,
           mineCancel, revert, settle, deadlinePasses

\* No late answer, replacement or report of the browser changes a row once its
\* transaction has ended.
THEOREM FinalIsFinalHolds == Spec => FinalIsFinal
<1>1. IInv /\ [Next]_vars => [\A i \in Row : rows[i].status \in Final => rows'[i] = rows[i]]_vars
  BY FinalStep
<1> QED  BY <1>1, Invariant, PTL DEF Spec, FinalIsFinal

\* Only the confirmations touch a task's index of the chain, the first of them
\* once.
LEMMA AdvanceStep ==
    ASSUME IInv, [Next]_vars, NEW t \in Task
    PROVE  /\ Rank(chain'[t]) - Rank(chain[t]) \in {0, 1}
           /\ chainTaskId[t] # NoHash => chainTaskId'[t] = chainTaskId[t]
<1>1. chain[t] \in {"none", "open", "receipt_submitted"}  BY DEF IInv, TypeOK
<1>2. CASE UNCHANGED <<chain, chainTaskId>>  BY <1>1, <1>2 DEF Rank
<1>3. CASE \E w \in Worker : confirmTaskCreatedFromReconciliation(w)
  <2>1. PICK w \in Worker : confirmTaskCreatedFromReconciliation(w)  BY <1>3
  <2> DEFINE u == rows[work[w].row].task
  <2>2. /\ Confirms(work[w]) /\ StillExpected(work[w]) /\ work[w].kind = "create_task"
        /\ NotIndexed(rows[work[w].row].hash)
        /\ chain' = [chain EXCEPT ![u] = "open"]
        /\ chainTaskId' = [chainTaskId EXCEPT ![u] = work[w].hash]
    BY <2>1 DEF confirmTaskCreatedFromReconciliation
  <2>3. rows[work[w].row].hash = work[w].hash  BY <2>2, Confirming
  <2>4. u \in Task /\ chain[u] = "none" /\ chainTaskId[u] = NoHash
    BY <2>2, <2>3, NotOnChainYet
  <2>5. CASE t = u  BY <2>2, <2>4, <2>5 DEF IInv, TypeOK, Rank
  <2>6. CASE t # u
    <3>1. UNCHANGED <<chain[t], chainTaskId[t]>>  BY <2>2, <2>6 DEF IInv, TypeOK
    <3> QED  BY <1>1, <3>1 DEF Rank
  <2> QED  BY <2>5, <2>6
<1>4. CASE \E w \in Worker : confirmReceiptSubmittedFromReconciliation(w)
  <2>1. PICK w \in Worker : confirmReceiptSubmittedFromReconciliation(w)  BY <1>4
  <2> DEFINE u == rows[work[w].row].task
  <2>2. /\ Confirms(work[w]) /\ StillExpected(work[w]) /\ work[w].kind = "submit_receipt"
        /\ chain' = [chain EXCEPT ![u] = "receipt_submitted"] /\ chainTaskId' = chainTaskId
    BY <2>1 DEF confirmReceiptSubmittedFromReconciliation
  <2>3. HeldOK(work[w]) /\ rows[work[w].row] \in RowRecord  BY <2>2, Confirming
  <2>4. u \in Task /\ chain[u] # "none"
    BY <2>2, <2>3 DEF RowRecord, HeldOK, IInv, DatabaseFollowsChain
  <2>5. CASE t = u  BY <1>1, <2>2, <2>4, <2>5 DEF IInv, TypeOK, Rank
  <2>6. CASE t # u
    <3>1. UNCHANGED <<chain[t], chainTaskId[t]>>  BY <2>2, <2>6 DEF IInv, TypeOK
    <3> QED  BY <1>1, <3>1 DEF Rank
  <2> QED  BY <2>5, <2>6
<1> QED
  <2>1. (UNCHANGED vars \/ UNCHANGED database \/ UNCHANGED taskTable) =>
            UNCHANGED <<chain, chainTaskId>>
    BY DEF vars, database, taskTable
  <2> QED
    BY <1>2, <1>3, <1>4, <2>1
       DEF Next, createChainIntent, createReceiptChainIntent, recordRejected, recordSubmitted,
           recordReplacement, markTransactionUnknown, markTransactionReverted,
           updateProject, getReconciliationContext, getReceipt, stopReconciling,
           walletRejects, walletBroadcasts, walletReplaces, mineCreation, mineReceipt,
           mineCancel, revert, settle, deadlinePasses

\* The index of a task moves forward one status at a time, and its id is given
\* once, whatever reconcilers overlap.
THEOREM TaskAdvancesHolds == Spec => TaskAdvances
<1>1. IInv /\ [Next]_vars =>
        [\A t \in Task :
            /\ Rank(chain'[t]) - Rank(chain[t]) \in {0, 1}
            /\ chainTaskId[t] # NoHash => chainTaskId'[t] = chainTaskId[t]]_vars
  BY AdvanceStep
<1> QED  BY <1>1, Invariant, PTL DEF Spec, TaskAdvances
================================================================================
